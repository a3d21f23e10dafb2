----------------------------- MODULE WallClock ------------------------------
(***************************************************************************)
(* Session times on their way through the API: a handler reads the event's *)
(* zone, resolves the local times of the request in it, writes instants in *)
(* a later transaction, and renders what it wrote or read in the zone it   *)
(* read first, while an admin may give the event another zone.  Rooms,     *)
(* speakers and slots are those of Sessions; here a write may be refused   *)
(* for their sake.                                                         *)
(***************************************************************************)
EXTENDS LocalTime, Sequences

CONSTANTS
    Zones,              \* the zones an event may be in
    Requests,
    Inputs,             \* request -> the bodies it may have
    MaxOccurrences,     \* occurrences of a series: at most 52
    MaxZoneChanges,     \* bound on PATCHes of the event's timezone
    NoZone, NoRow, NoView

Ids == Requests \X (1 .. MaxOccurrences)    \* who inserted it, as which occurrence

Row == [starts : Int, ends : Int, version : Nat,
        by : Requests]    \* history: who gave it its times

\* timed: a PATCH may leave the times alone; both are given or neither.
Input == [op : {"create", "series", "patch", "delete", "get"}, timed : BOOLEAN,
          starts : Int, ends : Int, id : Ids, version : Nat,
          every : Nat \ {0}, weekly : BOOLEAN, count : 1 .. MaxOccurrences]

ASSUME WallClockAssumption ==
    /\ Zones \subseteq Zone /\ NoZone \notin Zones
    /\ MaxOccurrences \in Nat \ {0} /\ MaxZoneChanges \in Nat
    /\ \A r \in Requests : Inputs[r] \subseteq Input
    /\ \A r \in Requests : \A q \in Inputs[r] :
          /\ q.op \in {"create", "series"} => q.timed
          /\ q.op \in {"delete", "get"} => ~q.timed
          /\ q.op = "create" => q.count = 1

VARIABLES
    zone,       \* events.timezone
    sessions,   \* sessions, time_range and version
    req, pc,
    loc,        \* the handler's *time.Location
    results,    \* a series' results so far
    reply, view,
    changes
vars == <<zone, sessions, req, pc, loc, results, reply, view, changes>>

Init ==
    /\ zone \in Zones
    /\ sessions = [id \in Ids |-> NoRow]
    /\ req \in {f \in [Requests -> UNION {Inputs[r] : r \in Requests}] :
                   \A r \in Requests : f[r] \in Inputs[r]}
    /\ pc = [r \in Requests |-> "zone"]
    /\ loc = [r \in Requests |-> NoZone]
    /\ results = [r \in Requests |-> << >>]
    /\ reply = [r \in Requests |-> "none"]
    /\ view = [r \in Requests |-> NoView]
    /\ changes = 0

GoTo(r, label) == pc' = [pc EXCEPT ![r] = label] /\ UNCHANGED <<reply, view>>

Respond(r, code, shown) ==
    /\ pc' = [pc EXCEPT ![r] = "done"]
    /\ reply' = [reply EXCEPT ![r] = code]
    /\ view' = [view EXCEPT ![r] = shown]

Answer(r, code) == Respond(r, code, NoView)

\* Mutant: one offset is used for both ends.
ViewOneOffset(r, id, row) ==
    [id |-> id, by |-> row.by, zone |-> loc[r], starts |-> In(loc[r], row.starts),
     ends |-> row.ends + Offset(loc[r], row.starts), minutes |-> row.ends - row.starts]

\* NewSessionResponse: each end at its own offset, the duration from the instants.
View(r, id, row) ==
    [id |-> id, by |-> row.by, zone |-> loc[r], starts |-> In(loc[r], row.starts),
     ends |-> In(loc[r], row.ends), minutes |-> row.ends - row.starts]

(***************************************************************************)
(* The event's zone, and the validation of the times in it.                *)
(***************************************************************************)
Valid(q, z) ==
    q.timed => /\ Exists(z, q.starts) /\ Exists(z, q.ends)
               /\ ParseInLocation(z, q.starts) < ParseInLocation(z, q.ends)

FirstStep(q) == CASE q.op \in {"create", "series"} -> "insert"
              [] q.op \in {"patch", "delete"} -> "write"
              [] q.op = "get" -> "read"

\* eventTimezone and Validate; the event may be missing or soft-deleted.
LookUp(r) ==
    /\ pc[r] = "zone"
    /\ \/ Answer(r, "event_not_found") /\ UNCHANGED loc
       \/ /\ loc' = [loc EXCEPT ![r] = zone]
          /\ IF Valid(req[r], zone) THEN GoTo(r, FirstStep(req[r])) ELSE Answer(r, "validation_failed")
    /\ UNCHANGED <<zone, sessions, req, results, changes>>

(***************************************************************************)
(* Create, and CreateSeries by one Create after the other.                 *)
(***************************************************************************)
NewRow(r, n) ==
    LET q == req[r]
        first == ParseInLocation(loc[r], q.starts)
        starts == Occurrence(first, n, Step(q.every, q.weekly))
    IN [starts |-> starts, ends |-> starts + (ParseInLocation(loc[r], q.ends) - first),
        version |-> 1, by |-> r]

Nth(r) == Len(results[r]) + 1

\* The n-th occurrence is in, or is reported as a conflict.
Occurred(r, status, shown) ==
    /\ results' = [results EXCEPT ![r] = Append(@, status)]
    /\ CASE req[r].op = "create" /\ status = "created" -> Respond(r, "created", shown)
         [] req[r].op = "create" /\ status = "conflict" -> Answer(r, "session_conflict")
         [] req[r].op = "series" -> IF Nth(r) < req[r].count THEN GoTo(r, "insert")
                                                             ELSE Answer(r, "created")

Insert(r) ==
    /\ pc[r] = "insert"
    /\ sessions' = [sessions EXCEPT ![<<r, Nth(r)>>] = NewRow(r, Nth(r))]
    /\ Occurred(r, "created", View(r, <<r, Nth(r)>>, NewRow(r, Nth(r))))
    /\ UNCHANGED <<zone, req, loc, changes>>

\* The room or the speaker is taken at that time.
Conflict(r) ==
    /\ pc[r] = "insert"
    /\ Occurred(r, "conflict", NoView)
    /\ UNCHANGED <<zone, sessions, req, loc, changes>>

\* A room or a speaker that does not exist, or any other failure; what a series
\* has inserted before stays.
Refuse(r) ==
    /\ pc[r] \in {"insert", "write"}
    /\ Answer(r, "refused")
    /\ UNCHANGED <<zone, sessions, req, loc, results, changes>>

(***************************************************************************)
(* Update and Delete, gated on the version; Get.                           *)
(***************************************************************************)
Stored(r) == sessions[req[r].id]

Matches(r) == Stored(r) # NoRow /\ Stored(r).version = req[r].version

Edited(r) ==
    LET q == req[r]
        moved == [Stored(r) EXCEPT !.version = @ + 1]
    IN IF ~q.timed THEN moved
       ELSE [moved EXCEPT !.starts = ParseInLocation(loc[r], q.starts),
                          !.ends = ParseInLocation(loc[r], q.ends), !.by = r]

Write(r) ==
    /\ pc[r] = "write" /\ Matches(r)
    /\ \/ /\ req[r].op = "patch"
          /\ sessions' = [sessions EXCEPT ![req[r].id] = Edited(r)]
          /\ Respond(r, "ok", View(r, req[r].id, Edited(r)))
       \/ /\ req[r].op = "delete"
          /\ sessions' = [sessions EXCEPT ![req[r].id] = NoRow]
          /\ Answer(r, "deleted")
    /\ UNCHANGED <<zone, req, loc, results, changes>>

Miss(r) ==
    /\ pc[r] = "write" /\ ~Matches(r)
    /\ GoTo(r, "diagnose")
    /\ UNCHANGED <<zone, sessions, req, loc, results, changes>>

Diagnose(r) ==
    /\ pc[r] = "diagnose"
    /\ IF Stored(r) = NoRow THEN Answer(r, "not_found") ELSE GoTo(r, "current")
    /\ UNCHANGED <<zone, sessions, req, loc, results, changes>>

\* details.current is read once more, and rendered in the zone read at first.
ShowCurrent(r) ==
    /\ pc[r] = "current"
    /\ Respond(r, "version_conflict",
               IF Stored(r) = NoRow THEN NoView ELSE View(r, req[r].id, Stored(r)))
    /\ UNCHANGED <<zone, sessions, req, loc, results, changes>>

Read(r) ==
    /\ pc[r] = "read"
    /\ IF Stored(r) = NoRow THEN Answer(r, "not_found")
                            ELSE Respond(r, "ok", View(r, req[r].id, Stored(r)))
    /\ UNCHANGED <<zone, sessions, req, loc, results, changes>>

\* PATCH /v1/events/{eventId} sets another timezone; no session is looked at.
SetZone(z) ==
    /\ changes < MaxZoneChanges /\ z # zone
    /\ zone' = z /\ changes' = changes + 1
    /\ UNCHANGED <<sessions, req, pc, loc, results, reply, view>>

Handle(r) ==
    \/ LookUp(r) \/ Insert(r) \/ Conflict(r) \/ Refuse(r)
    \/ Write(r) \/ Miss(r) \/ Diagnose(r) \/ ShowCurrent(r) \/ Read(r)

Done == \A r \in Requests : pc[r] = "done"

Next ==
    \/ \E r \in Requests : Handle(r)
    \/ \E z \in Zones : SetZone(z)
    \/ Done /\ UNCHANGED vars

Spec == Init /\ [][Next]_vars

-----------------------------------------------------------------------------
\* localtime.go: a request is rejected for its times exactly if the clocks of the
\* event's zone never show one of them, or do not show them in this order: no gap
\* is passed over, and no time next to a gap or in an overlap is taken for one.
RejectedIffUnreal ==
    \A r \in Requests : loc[r] # NoZone =>
        (reply[r] = "validation_failed" <=>
            req[r].timed /\ ~(/\ ShownAt(loc[r], req[r].starts) # {}
                              /\ ShownAt(loc[r], req[r].ends) # {}
                              /\ req[r].starts < req[r].ends))

\* Whoever shows a session -- the answer that created or changed it, a GET, the
\* details of a version_conflict -- shows the local times its last writer asked
\* for, if in the same zone, and in any zone the time that really passes.
ReadBack ==
    \A r \in Requests : view[r] # NoView =>
        LET v == view[r]
            asked == req[v.by]
            meant == loc[v.by]
        IN /\ v.zone = meant /\ (asked.op = "series" => v.id[2] = 1) =>
                 v.starts = asked.starts /\ v.ends = asked.ends
           /\ v.minutes = ParseInLocation(meant, asked.ends) - ParseInLocation(meant, asked.starts)

\* Days or weeks from the first occurrence to the n-th, not wrapped.
Span(q, n) == (n - 1) * q.every * Day * (IF q.weekly THEN 7 ELSE 1)

\* session_repo.go:392: an occurrence is on the day it should be, at the hour of
\* the first but for what the clocks were moved by in between.
OnTheirDays ==
    \A id \in Ids : sessions[id] # NoRow =>
        LET row == sessions[id]
            z == loc[row.by]
            first == ParseInLocation(z, req[row.by].starts)
        IN req[row.by].op = "series" =>
               In(z, row.starts) = req[row.by].starts + Span(req[row.by], id[2])
                                   + (Offset(z, row.starts) - Offset(z, first))

(***************************************************************************)
(* What the documentation says and the code does not do.                   *)
(***************************************************************************)
\* localtime.go:30: ambiguous times resolve "to the earlier of the two possible
\* offsets".
EarlierOfTwo ==
    \A id \in Ids : sessions[id] # NoRow =>
        LET u == sessions[id].by
        IN req[u].op # "series" =>
               \A t \in ShownAt(loc[u], req[u].starts) : sessions[id].starts <= t
=============================================================================

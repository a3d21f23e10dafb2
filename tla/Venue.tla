------------------------------- MODULE Venue --------------------------------
(***************************************************************************)
(* The event and room endpoints over PostgreSQL at READ COMMITTED:         *)
(* internal/adapter/postgres/event_repo.go and room_repo.go with the error *)
(* mapping of internal/http/handler/event.go and room.go, and of           *)
(* session_repo.go what a new session or series does to its room: it       *)
(* looks the event up, finds the room, and refers to it.  (Slots, edits    *)
(* and cancellations are Sessions.tla's; a cancelled session keeps its row *)
(* and so its room.)                                                       *)
(*                                                                         *)
(* A lock is held as long as the statement that took it and those after it *)
(* run, so who holds what follows from pc, and whom a statement waits for  *)
(* is Blockers.  A room and the session inserts that refer to it meet in   *)
(* the row lock of the room: the foreign key takes it FOR KEY SHARE, which *)
(* a rename or a delete excludes and a change of capacity does not.        *)
(***************************************************************************)
EXTENDS Integers, Sequences, FiniteSets

CONSTANTS
    Events,     \* the events table
    RoomIds,    \* primary keys of rooms: existing, future, never given
    Names,      \* what a room may be called
    Keep,       \* a PATCH that does not set the name
    Requests,   \* the requests in flight; a created room gets its request's id
    Droppable,  \* the requests whose client may hang up before the answer
    Inputs,     \* what a validated request may ask for
    Furnished,  \* the rooms table when the requests arrive
    InUse,      \* the sessions and session_series rows when they arrive
    NoRoom,     \* no row under this id
    NoOne       \* nobody

\* What the requests carry once validated.
EventRequest == [op : {"event-update", "event-delete"}, event : Events, version : Nat \ {0}]

RoomRequest ==
    [op : {"room-create"}, event : Events, name : Names]
    \cup [op : {"room-update"}, event : Events, room : RoomIds \ Requests, version : Nat \ {0},
          name : Names \cup {Keep}]
    \cup [op : {"room-delete"}, event : Events, room : RoomIds \ Requests, version : Nat \ {0}]

SessionRequest == [op : {"session", "series"}, event : Events, room : RoomIds \ Requests]

EventRow == [version : Nat \ {0}, live : BOOLEAN]

RoomRow == [event : Events, name : Names, version : Nat \ {0}]

\* A row of sessions or session_series, reduced to its references.
UseRow == [table : {"sessions", "session_series"}, by : Requests \cup {NoOne}, event : Events, room : RoomIds]

\* UNIQUE (event_id, name)
SameName(a, b) == a.event = b.event /\ a.name = b.name

\* No two rooms of one event share a name.
NamesUnique(table) ==
    \A x, y \in RoomIds :
        x # y /\ table[x] # NoRoom /\ table[y] # NoRoom => ~SameName(table[x], table[y])

\* Every reference is to a room that exists; a session's room is one of its
\* own event, a series' may be any.
RoomsFound(table, rows) ==
    \A u \in rows :
        /\ table[u.room] # NoRoom
        /\ u.table = "sessions" => table[u.room].event = u.event

ASSUME VenueAssumption ==
    /\ Requests \subseteq RoomIds /\ Events \cap RoomIds = {}
    /\ NoOne \notin Requests /\ Keep \notin Names /\ NoRoom \notin RoomRow \cup EventRow
    /\ NoRoom \notin [event : Events, name : Names]
    /\ Inputs \subseteq EventRequest \cup RoomRequest \cup SessionRequest
    /\ Furnished \in [RoomIds -> RoomRow \cup {NoRoom}]
    /\ \A x \in RoomIds : IF Furnished[x] = NoRoom THEN TRUE ELSE Furnished[x].version = 1 /\ x \notin Requests
    /\ NamesUnique(Furnished)
    /\ InUse \subseteq UseRow /\ \A u \in InUse : u.by = NoOne
    /\ RoomsFound(Furnished, InUse)

VARIABLES
    events,     \* events, committed
    rooms,      \* rooms, committed
    uses,       \* sessions and session_series, committed
    audit,      \* audit_log, committed, per event and room in commit order
    req,        \* what each request asks for
    pc,         \* the statement each request runs next
    reply,      \* the answer written by the handler
    shown       \* details.current of a version_conflict answer

db == <<events, rooms, uses, audit>>
vars == <<events, rooms, uses, audit, req, pc, reply, shown>>

(***************************************************************************)
(* What a request is about and what it writes.                             *)
(***************************************************************************)
OnEvent(r) == req[r].op \in {"event-update", "event-delete"}
OnSession(r) == req[r].op \in {"session", "series"}

\* The row a request writes or, for a session, refers to.
Key(r) ==
    IF OnEvent(r) THEN req[r].event ELSE IF req[r].op = "room-create" THEN r ELSE req[r].room

Row(r) == IF OnEvent(r) THEN events[Key(r)] ELSE rooms[Key(r)]

\* WHERE id = ? AND deleted_at IS NULL
FoundEvent(r) == events[req[r].event].live

\* WHERE id = ? AND event_id = ?
FoundRoom(r) == rooms[req[r].room] # NoRoom /\ rooms[req[r].room].event = req[r].event

Found(r) == IF OnEvent(r) THEN FoundEvent(r) ELSE FoundRoom(r)

\* AND version = ?
Matches(r) == Found(r) /\ Row(r).version = req[r].version

\* The UPDATE changes the name; a name that stays is not a change of a key.
Renames(r) == req[r].op = "room-update" /\ req[r].name \notin {Keep, Row(r).name}

\* Mutant: a delete of an event leaves its version alone.
WrittenEventStale(r) ==
    IF req[r].op = "event-delete" THEN [events[req[r].event] EXCEPT !.live = FALSE]
    ELSE [events[req[r].event] EXCEPT !.version = @ + 1]

WrittenEvent(r) ==
    LET bumped == [events[req[r].event] EXCEPT !.version = @ + 1] IN
    IF req[r].op = "event-delete" THEN [bumped EXCEPT !.live = FALSE] ELSE bumped

WrittenRoom(r) ==
    CASE req[r].op = "room-create" -> [event |-> req[r].event, name |-> req[r].name, version |-> 1]
      [] req[r].op = "room-delete" -> NoRoom
      [] req[r].op = "room-update" ->
           LET bumped == [rooms[req[r].room] EXCEPT !.version = @ + 1] IN
           IF Renames(r) THEN [bumped EXCEPT !.name = req[r].name] ELSE bumped

FirstStatement(op) ==
    CASE op \in {"session", "series"} -> "lookup" [] op = "room-create" -> "name" [] OTHER -> "write"

Init ==
    /\ events = [e \in Events |-> [version |-> 1, live |-> TRUE]]
    /\ rooms = Furnished
    /\ uses = InUse
    /\ audit = [x \in Events \cup RoomIds |->
                  IF x \in Events THEN <<[actor |-> NoOne, action |-> "create", before |-> NoRoom, after |-> events[x]]>>
                  ELSE IF rooms[x] = NoRoom THEN << >>
                  ELSE <<[actor |-> NoOne, action |-> "create", before |-> NoRoom, after |-> rooms[x]]>>]
    /\ req \in [Requests -> Inputs]
    /\ pc = [r \in Requests |-> FirstStatement(req[r].op)]
    /\ reply = [r \in Requests |-> "none"]
    /\ shown = [r \in Requests |-> NoRoom]

(***************************************************************************)
(* Locks (PostgreSQL).                                                     *)
(***************************************************************************)
\* u's open transaction has updated or deleted row x.
Holds(u, x) ==
    /\ pc[u] \in {"name", "commit"} /\ Key(u) = x
    /\ ~OnSession(u) /\ req[u].op # "room-create"

\* ... in a way nobody may refer to the row meanwhile: FOR UPDATE.
HoldsKey(u, x) == Holds(u, x) /\ (req[u].op = "room-delete" \/ Renames(u))

\* u's open transaction has inserted a row that refers to room x: FOR KEY SHARE.
Refers(u, x) == OnSession(u) /\ pc[u] = "commit" /\ Key(u) = x

\* u's open transaction has put a name in the unique index.
Named(u) == pc[u] = "commit" /\ req[u].op \in {"room-create", "room-update"}

\* Whose transactions have to end before r's statement can go on.
Blockers(r) ==
    {u \in Requests \ {r} :
        \/ /\ pc[r] = "write" /\ Matches(r)
           /\ \/ Holds(u, Key(r))
              \/ Refers(u, Key(r)) /\ (req[r].op = "room-delete" \/ Renames(r))
        \/ /\ pc[r] = "name"
           /\ \/ \E x \in RoomIds : Holds(u, x) /\ rooms[x] # NoRoom /\ SameName(rooms[x], WrittenRoom(r))
              \/ Named(u) /\ SameName(WrittenRoom(u), WrittenRoom(r))
        \/ pc[r] \in {"series", "refer"} /\ HoldsKey(u, Key(r))}

Unblocked(r) == Blockers(r) = {}

(***************************************************************************)
(* Requests, statement by statement.                                       *)
(***************************************************************************)
GoTo(r, statement) ==
    /\ pc' = [pc EXCEPT ![r] = statement]
    /\ UNCHANGED <<reply, shown>>

\* The handler answers; the deferred Rollback, if nothing was committed,
\* gives the locks back.
Answer(r, code) ==
    /\ pc' = [pc EXCEPT ![r] = "done"]
    /\ reply' = [reply EXCEPT ![r] = code]
    /\ UNCHANGED shown

\* Mutant: nobody looks whether a row was returned.
WriteMissUnseen(r) ==
    /\ pc[r] = "write" /\ ~Matches(r)
    /\ Answer(r, "ok")
    /\ UNCHANGED <<db, req>>

\* ErrConflict means what the operation could not get.
Conflict(op) == IF op = "room-delete" THEN "room_in_use" ELSE "room_name_taken"

\* UPDATE or DELETE ... RETURNING finds no row.
WriteMiss(r) ==
    /\ pc[r] = "write" /\ ~Matches(r)
    /\ GoTo(r, "diagnose")
    /\ UNCHANGED <<db, req>>

\* The UPDATE of events, which a delete is too, locks the row.
UpdateEvent(r) ==
    /\ pc[r] = "write" /\ OnEvent(r)
    /\ Matches(r) /\ Unblocked(r)
    /\ GoTo(r, "commit")
    /\ UNCHANGED <<db, req>>

\* The UPDATE locks the row; a new name has to go through the unique index.
UpdateRoom(r) ==
    /\ pc[r] = "write" /\ req[r].op = "room-update"
    /\ Matches(r) /\ Unblocked(r)
    /\ GoTo(r, IF Renames(r) THEN "name" ELSE "commit")
    /\ UNCHANGED <<db, req>>

\* Mutant: no foreign key stops a delete.
DeleteUsed(r) ==
    /\ pc[r] = "write" /\ req[r].op = "room-delete"
    /\ Matches(r) /\ Unblocked(r)
    /\ GoTo(r, "commit")
    /\ UNCHANGED <<db, req>>

\* The DELETE locks the row and then looks for rows that refer to it, those
\* of cancelled sessions and of series without sessions included: 23503.
DeleteRoom(r) ==
    /\ pc[r] = "write" /\ req[r].op = "room-delete"
    /\ Matches(r) /\ Unblocked(r)
    /\ IF \E u \in uses : u.room = Key(r) THEN Answer(r, Conflict(req[r].op)) ELSE GoTo(r, "commit")
    /\ UNCHANGED <<db, req>>

\* The unique index: 23505 for a name another room has.
TakeName(r) ==
    /\ pc[r] = "name" /\ Unblocked(r)
    /\ IF \E x \in RoomIds \ {Key(r)} : rooms[x] # NoRoom /\ SameName(rooms[x], WrittenRoom(r))
       THEN Answer(r, Conflict(req[r].op))
       ELSE GoTo(r, "commit")
    /\ UNCHANGED <<db, req>>

\* Mutant: a stale write is tried again as it is.
DiagnoseAndRetry(r) ==
    /\ pc[r] = "diagnose"
    /\ IF Found(r) THEN GoTo(r, "write") ELSE Answer(r, "not_found")
    /\ UNCHANGED <<db, req>>

\* The read after the failed write, of the event or the room.
Diagnose(r) ==
    /\ pc[r] = "diagnose"
    /\ IF Found(r) THEN GoTo(r, "current") ELSE Answer(r, "not_found")
    /\ UNCHANGED <<db, req>>

\* The handler's own read for details.current, null if the row is gone.
ShowCurrent(r) ==
    /\ pc[r] = "current"
    /\ pc' = [pc EXCEPT ![r] = "done"]
    /\ reply' = [reply EXCEPT ![r] = "version_conflict"]
    /\ shown' = [shown EXCEPT ![r] = IF Found(r) THEN Row(r) ELSE NoRoom]
    /\ UNCHANGED <<db, req>>

(***************************************************************************)
(* A new session and a new series.                                         *)
(***************************************************************************)
\* eventTimezone: the event is read, and never looked at again.
LookUpEvent(r) ==
    /\ pc[r] = "lookup"
    /\ IF events[req[r].event].live
       THEN GoTo(r, IF req[r].op = "series" THEN "series" ELSE "insert")
       ELSE Answer(r, "not_found")
    /\ UNCHANGED <<db, req>>

\* The session_series row, committed at once: any room will do.
InsertSeries(r) ==
    /\ pc[r] = "series" /\ Unblocked(r)
    /\ IF rooms[req[r].room] # NoRoom
       THEN /\ uses' = uses \cup {[table |-> "session_series", by |-> r, event |-> req[r].event, room |-> req[r].room]}
            /\ GoTo(r, "insert")
       ELSE Answer(r, "internal") /\ UNCHANGED uses
    /\ UNCHANGED <<events, rooms, audit, req>>

\* INSERT INTO sessions SELECT ... FROM rooms WHERE id = ? AND event_id = ?
Insert(r) ==
    /\ pc[r] = "insert"
    /\ IF FoundRoom(r) THEN GoTo(r, "refer") ELSE Answer(r, "room_not_found")
    /\ UNCHANGED <<db, req>>

\* Mutant: the room the statement found is taken to be still there.
ReferUnchecked(r) ==
    /\ pc[r] = "refer"
    /\ GoTo(r, "commit")
    /\ UNCHANGED <<db, req>>

\* The foreign key locks the room the statement found, which may be gone by
\* now: 23503 of a constraint Create does not know.
Refer(r) ==
    /\ pc[r] = "refer" /\ Unblocked(r)
    /\ IF rooms[req[r].room] # NoRoom THEN GoTo(r, "commit") ELSE Answer(r, "internal")
    /\ UNCHANGED <<db, req>>

(***************************************************************************)
(* The end of a transaction.                                               *)
(***************************************************************************)
ActionName(op) ==
    CASE op = "room-create" -> "create"
      [] op \in {"event-update", "room-update"} -> "update"
      [] op \in {"event-delete", "room-delete"} -> "delete"

\* The write and its audit row; the audit of a session is Sessions.tla's.
Apply(r) ==
    IF OnSession(r)
    THEN /\ uses' = uses \cup {[table |-> "sessions", by |-> r, event |-> req[r].event, room |-> req[r].room]}
         /\ UNCHANGED <<events, rooms, audit>>
    ELSE LET written == IF OnEvent(r) THEN WrittenEvent(r) ELSE WrittenRoom(r) IN
         /\ audit' = [audit EXCEPT ![Key(r)] =
                        Append(@, [actor |-> r, action |-> ActionName(req[r].op), before |-> Row(r), after |-> written])]
         /\ IF OnEvent(r)
            THEN events' = [events EXCEPT ![Key(r)] = written] /\ UNCHANGED rooms
            ELSE rooms' = [rooms EXCEPT ![Key(r)] = written] /\ UNCHANGED events
         /\ UNCHANGED uses

Success(op) ==
    CASE op \in {"room-create", "session", "series"} -> "created"
      [] op \in {"event-update", "room-update"} -> "ok"
      [] op \in {"event-delete", "room-delete"} -> "no_content"

Commit(r) ==
    /\ pc[r] = "commit"
    /\ Apply(r)
    /\ Answer(r, Success(req[r].op))
    /\ UNCHANGED req

\* A cycle of waiters through r: some waiting requests can be arranged so
\* that each one waits for the next.
InCycle(r) ==
    LET waiting == {s \in Requests : ~Unblocked(s)} IN
    r \in waiting /\ \E S \in SUBSET waiting :
        /\ r \in S
        /\ \E next \in [S -> S] : {next[s] : s \in S} = S /\ \A s \in S : next[s] \in Blockers(s)

\* 40P01, which no repository knows.
DeadlockDetected(r) ==
    /\ InCycle(r)
    /\ Answer(r, "internal")
    /\ UNCHANGED <<db, req>>

\* The client hangs up: the request's context is cancelled and the deferred
\* Rollback runs, perhaps after the COMMIT was carried out.
HangUp(r) ==
    /\ r \in Droppable /\ pc[r] # "done"
    /\ Answer(r, "gone")
    /\ UNCHANGED <<db, req>>

HangUpInCommit(r) ==
    /\ r \in Droppable /\ pc[r] = "commit"
    /\ Apply(r)
    /\ Answer(r, "gone")
    /\ UNCHANGED req

Step(r) ==
    \/ WriteMiss(r) \/ UpdateEvent(r) \/ UpdateRoom(r) \/ DeleteRoom(r) \/ TakeName(r)
    \/ Diagnose(r) \/ ShowCurrent(r)
    \/ LookUpEvent(r) \/ InsertSeries(r) \/ Insert(r) \/ Refer(r)
    \/ Commit(r)
    \/ DeadlockDetected(r)

Done == \A r \in Requests : pc[r] = "done"

\* Every request has been answered; the server waits for more.
Idle == Done /\ UNCHANGED vars

Next ==
    \/ \E r \in Requests : Step(r) \/ HangUp(r) \/ HangUpInCommit(r)
    \/ Idle

\* Every goroutine keeps running and the deadlock detector does its work;
\* a client need never hang up.
Fairness == \A r \in Requests : WF_vars(Step(r))

Spec == Init /\ [][Next]_vars
FairSpec == Spec /\ Fairness

(***************************************************************************)
(* Properties.                                                             *)
(***************************************************************************)
\* What FloorPlan.tla sees of the tables.
OnPlan(row) == IF row = NoRoom THEN NoRoom ELSE [event |-> row.event, name |-> row.name]

PlanRooms == [x \in RoomIds |-> OnPlan(rooms[x])]
ClosedRooms == {x \in RoomIds : audit[x] # << >> /\ rooms[x] = NoRoom}
UsedRooms == {u.room : u \in uses}
RunningEvents == {e \in Events : events[e].live}

Plan == INSTANCE FloorPlan WITH
    rooms <- PlanRooms, closed <- ClosedRooms, used <- UsedRooms, running <- RunningEvents

Replies == {"none", "created", "ok", "no_content", "room_name_taken", "room_in_use", "room_not_found",
            "not_found", "version_conflict", "internal", "gone"}

AuditEntry == [actor : Requests \cup {NoOne}, action : {"create", "update", "delete"},
               before : EventRow \cup RoomRow \cup {NoRoom}, after : EventRow \cup RoomRow \cup {NoRoom}]

\* The type of every table and of every goroutine's state.
TypeOK ==
    /\ events \in [Events -> EventRow]
    /\ rooms \in [RoomIds -> RoomRow \cup {NoRoom}]
    /\ uses \subseteq UseRow
    /\ audit \in [Events \cup RoomIds -> Seq(AuditEntry)]
    /\ req \in [Requests -> Inputs]
    /\ pc \in [Requests -> {"write", "name", "diagnose", "current", "lookup", "series", "insert",
                            "refer", "commit", "done"}]
    /\ reply \in [Requests -> Replies]
    /\ shown \in [Requests -> EventRow \cup RoomRow \cup {NoRoom}]

\* Whoever creates, renames and deletes rooms at once, an event never has
\* two rooms of one name.
UniqueNames == NamesUnique(rooms)

\* Every session stands in a room of its own event and every series names a
\* room, although a session's room is read before it is locked and a delete
\* may come in between.
ReferencesHold == RoomsFound(rooms, uses)

Last(x) == audit[x][Len(audit[x])]

\* No lost update: the audit rows of an event or a room are its whole
\* history.  Each write started from what the one before it had left, one
\* version on; the last one left the row as it stands; a deleted room or
\* event is never written again.
AuditTrail ==
    \A x \in Events \cup RoomIds :
        LET row == IF x \in Events THEN events[x] ELSE rooms[x] IN
        /\ IF audit[x] = << >> THEN row = NoRoom ELSE row = Last(x).after
        /\ \A n \in 1 .. Len(audit[x]) :
             /\ audit[x][n].action = "create" <=> n = 1
             /\ audit[x][n].before = IF n = 1 THEN NoRoom ELSE audit[x][n - 1].after
             /\ audit[x][n].action = "delete" => n = Len(audit[x])
             /\ audit[x][n].after # NoRoom => audit[x][n].after.version = n

WritesBy(r) ==
    {w \in UNION {{x} \X (1 .. Len(audit[x])) : x \in Events \cup RoomIds} : audit[w[1]][w[2]].actor = r}
    \cup {u \in uses : u.table = "sessions" /\ u.by = r}

\* An answer tells the truth for good: a success was written exactly once
\* and a rejection never (only a client that hung up cannot know); what was
\* reported missing stays missing, and a room that was reported in use
\* exists and is in use from then on.
AnswersTellTruth ==
    \A r \in Requests :
        LET told == IF reply[r] \in {"created", "ok", "no_content"} THEN 1 ELSE 0 IN
        /\ Cardinality(WritesBy(r)) \in (IF reply[r] = "gone" THEN {0, 1} ELSE {told})
        /\ reply[r] = "not_found" =>
             IF OnSession(r) THEN ~FoundEvent(r) ELSE ~Found(r)
        /\ reply[r] = "room_not_found" => ~FoundRoom(r)
        /\ reply[r] = "room_in_use" => rooms[Key(r)] # NoRoom /\ \E u \in uses : u.room = Key(r)

\* The requests, interleaved statement by statement, change the venue the
\* way FloorPlan.tla does: one room or event at a time, into free names, and
\* never a room that something refers to.
ImplementsFloorPlan == Plan!Spec

\* Every request is answered: row locks, name clashes and deadlocks all
\* resolve.
EveryRequestAnswered == \A r \in Requests : <>(pc[r] = "done")
=============================================================================

-------------------------- MODULE WallClockProofs ---------------------------
(***************************************************************************)
(* Local times and instants, proved for every zone, whatever its offsets   *)
(* and wherever its change of the clocks lies; and what requests are       *)
(* answered, for every number of them and any changes of the event's zone. *)
(***************************************************************************)
EXTENDS WallClock, SequenceTheorems, TLAPS

(***************************************************************************)
(* Local times.                                                            *)
(***************************************************************************)
\* There are no other instants that show a local time than ShownAt says.
LEMMA ShownIsAll ==
    ASSUME NEW z \in Zone, NEW local \in Int, NEW t \in Int, In(z, t) = local
    PROVE  t \in ShownAt(z, local)
BY DEF ShownAt, In, Offset, Zone

\* ParseInLocation returns an instant.
LEMMA ParsedIsInstant ==
    ASSUME NEW z \in Zone, NEW local \in Int
    PROVE  ParseInLocation(z, local) \in Int
BY DEF ParseInLocation, SamePeriod, Offset, Zone

\* The round trip of ResolveLocalTime rejects what no instant shows, and nothing
\* else: it never fires next to a gap, nor in an overlap.
THEOREM RealTimesResolve ==
    ASSUME NEW z \in Zone, NEW local \in Int
    PROVE  Exists(z, local) <=> ShownAt(z, local) # {}
<1>1. ASSUME Exists(z, local) PROVE ShownAt(z, local) # {}
    BY <1>1, ParsedIsInstant, ShownIsAll DEF Exists
<1>2. ASSUME NEW t \in ShownAt(z, local) PROVE Exists(z, local)
    <2>1. t \in Int /\ In(z, t) = local
        BY DEF ShownAt, Zone
    <2> QED
        BY <2>1 DEF Exists, In, ParseInLocation, SamePeriod, Offset, Zone
<1> QED
    BY <1>1, <1>2

\* Local times that exist are in the order of their instants, although an
\* overlap shows a whole hour twice.
THEOREM OrderKept ==
    ASSUME NEW z \in Zone, NEW l \in Int, NEW m \in Int, Exists(z, l), Exists(z, m)
    PROVE  l < m <=> ParseInLocation(z, l) < ParseInLocation(z, m)
BY DEF Exists, In, ParseInLocation, SamePeriod, Offset, Zone

\* localtime.go's convention, the earlier of two instants, holds where clocks
\* are not ahead of UTC before the change: in New York, not in Berlin.
THEOREM EarlierInTheWest ==
    ASSUME NEW z \in Zone, NEW local \in Int, z.before <= 0, NEW t \in ShownAt(z, local)
    PROVE  ParseInLocation(z, local) <= t
BY DEF ShownAt, In, ParseInLocation, SamePeriod, Offset, Zone

(***************************************************************************)
(* The inductive invariant.                                                *)
(***************************************************************************)
Statuses == {"created", "conflict"}
Labels == {"zone", "insert", "write", "diagnose", "current", "read", "done"}
Codes == {"none", "event_not_found", "validation_failed", "created", "session_conflict", "refused",
          "ok", "deleted", "not_found", "version_conflict"}

TypeOK ==
    /\ zone \in Zones
    /\ sessions \in [Ids -> Row \cup {NoRow}]
    /\ \A r \in Requests : req[r] \in Inputs[r]
    /\ pc \in [Requests -> Labels]
    /\ loc \in [Requests -> Zones \cup {NoZone}]
    /\ results \in [Requests -> Seq(Statuses)]
    /\ reply \in [Requests -> Codes]
    /\ DOMAIN view = Requests

\* Who is past validation has a zone in which the times of the request exist, and
\* an insert has an occurrence left to make.
PlacedAt(r) ==
    /\ pc[r] = "zone" => loc[r] = NoZone /\ results[r] = << >>
    /\ pc[r] # "done" => reply[r] = "none" /\ view[r] = NoView
    /\ pc[r] \notin {"zone", "done"} => loc[r] \in Zones /\ Valid(req[r], loc[r])
    /\ pc[r] = "insert" =>
          req[r].op \in {"create", "series"} /\ Len(results[r]) < req[r].count
    /\ pc[r] = "write" => req[r].op \in {"patch", "delete"}
    /\ pc[r] = "done" /\ loc[r] # NoZone =>
          (reply[r] = "validation_failed" <=> ~Valid(req[r], loc[r]))

Placed == \A r \in Requests : PlacedAt(r)

\* u has resolved times that exist in the zone it read.
Meant(u) == u \in Requests /\ loc[u] \in Zones /\ req[u].timed /\ Valid(req[u], loc[u])

\* The first session of a request, or one that it moved.
OwnTimes(u, id) == req[u].op = "series" => id[2] = 1

Elapsed(u) == ParseInLocation(loc[u], req[u].ends) - ParseInLocation(loc[u], req[u].starts)

\* Where the n-th session of a series starts.
StartOf(u, n) ==
    Occurrence(ParseInLocation(loc[u], req[u].starts), n, Step(req[u].every, req[u].weekly))

\* A row holds the instants its last writer meant ...
RowMeant(id, row) ==
    /\ Meant(row.by)
    /\ row.ends - row.starts = Elapsed(row.by)
    /\ OwnTimes(row.by, id) => row.starts = ParseInLocation(loc[row.by], req[row.by].starts)
    /\ req[row.by].op = "series" => row.starts = StartOf(row.by, id[2])

RowsMeant == \A id \in Ids : sessions[id] # NoRow => RowMeant(id, sessions[id])

\* ... and an answer shows them.
ViewMeant(v) ==
    /\ Meant(v.by)
    /\ v.zone = loc[v.by] /\ OwnTimes(v.by, v.id) =>
          v.starts = req[v.by].starts /\ v.ends = req[v.by].ends
    /\ v.minutes = Elapsed(v.by)

ViewsMeant == \A r \in Requests : view[r] # NoView => ViewMeant(view[r])

Inv == TypeOK /\ Placed /\ RowsMeant /\ ViewsMeant

\* What is known of a request's body.
LEMMA Asked ==
    ASSUME TypeOK, NEW r \in Requests
    PROVE  /\ req[r] \in Input
           /\ req[r].op \in {"create", "series"} => req[r].timed
           /\ req[r].op \in {"delete", "get"} => ~req[r].timed
           /\ req[r].op = "create" => req[r].count = 1
BY WallClockAssumption DEF TypeOK

\* The zone that a request has read is not read again.
LEMMA MeantStays ==
    ASSUME NEW u, Meant(u), req' = req, loc'[u] = loc[u]
    PROVE  Meant(u)' /\ Elapsed(u)' = Elapsed(u) /\ \A n : StartOf(u, n)' = StartOf(u, n)
BY DEF Meant, Elapsed, StartOf

\* Rendered in the zone they were resolved in, instants are what was asked for.
LEMMA ViewOfMeant ==
    ASSUME TypeOK, NEW r \in Requests, NEW id, NEW row \in Row, RowMeant(id, row)
    PROVE  ViewMeant(View(r, id, row))
<1>1. /\ Meant(row.by) /\ row.starts \in Int /\ row.ends \in Int
      /\ row.ends - row.starts = Elapsed(row.by)
    BY DEF RowMeant, Row
<1>2. ASSUME loc[r] = loc[row.by], OwnTimes(row.by, id)
      PROVE  In(loc[r], row.starts) = req[row.by].starts /\ In(loc[r], row.ends) = req[row.by].ends
    <2> DEFINE z == loc[row.by]
               q == req[row.by]
    <2>1. row.starts = ParseInLocation(z, q.starts) /\ Exists(z, q.starts) /\ Exists(z, q.ends)
        BY <1>2 DEF RowMeant, Meant, Valid
    <2>2. z \in Zone /\ q.starts \in Int /\ q.ends \in Int
        BY <1>1, Asked, WallClockAssumption DEF Meant, Input
    <2>3. ParseInLocation(z, q.starts) \in Int /\ ParseInLocation(z, q.ends) \in Int
        BY <2>2, ParsedIsInstant
    <2>4. row.ends - row.starts = ParseInLocation(z, q.ends) - ParseInLocation(z, q.starts)
        BY <1>1 DEF Elapsed
    <2>5. row.ends = ParseInLocation(z, q.ends)
        BY <1>1, <2>1, <2>3, <2>4
    <2> QED
        BY <1>2, <2>1, <2>5 DEF Exists
<1> QED
    BY <1>1, <1>2 DEF View, ViewMeant

(***************************************************************************)
(* One step of one request.                                                *)
(***************************************************************************)
\* What a step of r has to show: where r is now, that a row it has written holds
\* what was meant, and that what it shows does.
LEMMA OneStep ==
    ASSUME Inv, TypeOK', NEW r \in Requests, req' = req,
           \A u \in Requests \ {r} :
               /\ pc'[u] = pc[u] /\ loc'[u] = loc[u] /\ results'[u] = results[u]
               /\ reply'[u] = reply[u] /\ view'[u] = view[u],
           loc'[r] = loc[r] \/ pc[r] = "zone",
           PlacedAt(r)',
           \A id \in Ids : \/ sessions'[id] \in {sessions[id], NoRow}
                           \/ \E row : sessions'[id] = row /\ RowMeant(id, row)',
           view'[r] # NoView => \E v : view'[r] = v /\ ViewMeant(v)'
    PROVE  Inv'
<1>1. Placed'
    BY DEF Inv, Placed, PlacedAt
<1>2. \A u : Meant(u) => loc'[u] = loc[u]
    BY WallClockAssumption DEF Inv, Placed, PlacedAt, Meant
<1>3. \A u : Meant(u) => /\ Meant(u)' /\ Elapsed(u)' = Elapsed(u)
                         /\ \A n : StartOf(u, n)' = StartOf(u, n)
    BY <1>2, MeantStays
<1>4. ASSUME NEW id, NEW row, RowMeant(id, row) PROVE RowMeant(id, row)'
    BY <1>2, <1>3, <1>4 DEF RowMeant, OwnTimes, Meant
<1>5. ASSUME NEW v, ViewMeant(v) PROVE ViewMeant(v)'
    BY <1>2, <1>3, <1>5 DEF ViewMeant, OwnTimes, Meant
<1>6. RowsMeant'
    <2> SUFFICES ASSUME NEW id \in Ids, NEW row, sessions'[id] = row, row # NoRow
                 PROVE  RowMeant(id, row)'
        BY DEF RowsMeant, RowMeant
    <2>1. CASE row = sessions[id]
        BY <1>4, <2>1 DEF Inv, RowsMeant
    <2>2. CASE row # sessions[id]
        BY <2>2
    <2> QED
        BY <2>1, <2>2
<1>7. ViewsMeant'
    <2> SUFFICES ASSUME NEW u \in Requests, NEW v, view'[u] = v, v # NoView
                 PROVE  ViewMeant(v)'
        BY DEF ViewsMeant, ViewMeant
    <2>1. CASE u = r
        BY <2>1
    <2>2. CASE u # r
        BY <1>5, <2>2 DEF Inv, ViewsMeant
    <2> QED
        BY <2>1, <2>2
<1> QED
    BY <1>1, <1>6, <1>7 DEF Inv

\* The state of one request changes; rows are neither written nor shown.
LEMMA QuietStep ==
    ASSUME Inv, NEW r \in Requests, NEW label \in Labels, NEW code \in Codes,
           pc' = [pc EXCEPT ![r] = label], reply' = [reply EXCEPT ![r] = code],
           view' = [view EXCEPT ![r] = NoView] \/ view' = view,
           results' = results, sessions' = sessions, req' = req, zone' = zone,
           loc' = loc \/ (pc[r] = "zone" /\ loc' = [loc EXCEPT ![r] = zone]),
           PlacedAt(r)'
    PROVE  Inv'
<1>1. TypeOK'
    BY DEF Inv, TypeOK
<1>2. /\ \A u \in Requests \ {r} :
             /\ pc'[u] = pc[u] /\ loc'[u] = loc[u] /\ results'[u] = results[u]
             /\ reply'[u] = reply[u] /\ view'[u] = view[u]
      /\ loc'[r] = loc[r] \/ pc[r] = "zone"
      /\ view'[r] \in {view[r], NoView}
    BY DEF Inv, TypeOK
<1>3. view'[r] # NoView => \E v : view'[r] = v /\ ViewMeant(v)'
    <2> SUFFICES ASSUME view[r] # NoView, view'[r] = view[r] PROVE ViewMeant(view[r])'
        BY <1>2
    <2>1. pc[r] # "zone" /\ loc' = loc
        BY DEF Inv, Placed, PlacedAt
    <2>2. PICK v : v = view[r]
        OBVIOUS
    <2>3. ViewMeant(v)'
        BY <2>1, <2>2 DEF Inv, ViewsMeant, ViewMeant, Meant, OwnTimes, Elapsed
    <2> QED
        BY <2>2, <2>3 DEF ViewMeant
<1> QED
    BY <1>1, <1>2, <1>3, OneStep

\* One session is written by r, or none, and it is shown, or none is.
LEMMA WriteStep ==
    ASSUME Inv, NEW r \in Requests, NEW id \in Ids, NEW row \in Row \cup {NoRow},
           row # NoRow => RowMeant(id, row),
           NEW shown \in {NoView, View(r, id, row)},
           shown # NoView => row \in Row /\ RowMeant(id, row),
           NEW label \in Labels, NEW code \in Codes, NEW outcome \in Seq(Statuses),
           pc[r] # "zone",
           sessions' = [sessions EXCEPT ![id] = row],
           pc' = [pc EXCEPT ![r] = label], reply' = [reply EXCEPT ![r] = code],
           view' = [view EXCEPT ![r] = shown] \/ (view' = view /\ view[r] = NoView),
           results' = [results EXCEPT ![r] = outcome],
           req' = req, zone' = zone, loc' = loc,
           PlacedAt(r)'
    PROVE  Inv'
<1>1. TypeOK'
    BY DEF Inv, TypeOK
<1>2. /\ \A u \in Requests \ {r} :
             /\ pc'[u] = pc[u] /\ loc'[u] = loc[u] /\ results'[u] = results[u]
             /\ reply'[u] = reply[u] /\ view'[u] = view[u]
      /\ view'[r] \in {shown, NoView}
    BY DEF Inv, TypeOK
<1>3. ASSUME NEW i, NEW x, RowMeant(i, x) PROVE RowMeant(i, x)'
    BY <1>3 DEF RowMeant, Meant, Elapsed, OwnTimes, StartOf
<1>4. ASSUME NEW v, ViewMeant(v) PROVE ViewMeant(v)'
    BY <1>4 DEF ViewMeant, Meant, Elapsed, OwnTimes
<1>5. \A i \in Ids : \/ sessions'[i] \in {sessions[i], NoRow}
                     \/ \E x : sessions'[i] = x /\ RowMeant(i, x)'
    BY <1>3 DEF Inv, TypeOK
<1>6. view'[r] # NoView => \E v : view'[r] = v /\ ViewMeant(v)'
    <2> SUFFICES ASSUME shown # NoView, view'[r] = shown PROVE ViewMeant(shown)'
        BY <1>2
    <2>1. row \in Row /\ RowMeant(id, row) /\ shown = View(r, id, row)
        OBVIOUS
    <2> QED
        BY <1>4, <2>1, ViewOfMeant DEF Inv
<1> QED
    BY <1>1, <1>2, <1>5, <1>6, OneStep

\* eventTimezone and Validate.
LEMMA LookUpKeeps == ASSUME Inv, NEW r \in Requests, LookUp(r) PROVE Inv'
<1>1. /\ pc[r] = "zone" /\ req[r] \in Input /\ loc[r] = NoZone /\ view[r] = NoView
      /\ results[r] = << >> /\ reply[r] = "none"
    BY Asked DEF Inv, Placed, PlacedAt, LookUp
<1>2. results' = results /\ sessions' = sessions /\ req' = req /\ zone' = zone
    BY DEF LookUp
<1>3. CASE Answer(r, "event_not_found") /\ UNCHANGED loc
    <2>1. /\ pc' = [pc EXCEPT ![r] = "done"] /\ reply' = [reply EXCEPT ![r] = "event_not_found"]
          /\ view' = [view EXCEPT ![r] = NoView] /\ loc' = loc
        BY <1>3 DEF Answer, Respond
    <2>2. PlacedAt(r)'
        BY <1>1, <2>1 DEF Inv, TypeOK, PlacedAt
    <2>3. "done" \in Labels /\ "event_not_found" \in Codes
        BY DEF Labels, Codes
    <2>4. /\ view' = [view EXCEPT ![r] = NoView] \/ view' = view
          /\ loc' = loc \/ (pc[r] = "zone" /\ loc' = [loc EXCEPT ![r] = zone])
        BY <2>1
    <2> QED
        BY <1>2, <2>1, <2>2, <2>3, <2>4, QuietStep
<1>4. CASE loc' = [loc EXCEPT ![r] = zone] /\ Valid(req[r], zone) /\ GoTo(r, FirstStep(req[r]))
    <2>1. /\ FirstStep(req[r]) \in {"insert", "write", "read"} /\ FirstStep(req[r]) \in Labels
          /\ FirstStep(req[r]) = "insert" <=> req[r].op \in {"create", "series"}
          /\ FirstStep(req[r]) = "write" <=> req[r].op \in {"patch", "delete"}
        BY <1>1 DEF FirstStep, Input, Labels
    <2>2. /\ pc' = [pc EXCEPT ![r] = FirstStep(req[r])] /\ reply' = [reply EXCEPT ![r] = "none"]
          /\ view' = view /\ loc' = [loc EXCEPT ![r] = zone] /\ "none" \in Codes
        BY <1>1, <1>4 DEF GoTo, Inv, TypeOK, Codes
    <2>3. PlacedAt(r)'
        BY <1>1, <1>2, <1>4, <2>1, <2>2 DEF Inv, TypeOK, PlacedAt, Input
    <2>4. /\ view' = [view EXCEPT ![r] = NoView] \/ view' = view
          /\ loc' = loc \/ (pc[r] = "zone" /\ loc' = [loc EXCEPT ![r] = zone])
        BY <1>1, <2>2
    <2> QED
        BY <1>2, <2>1, <2>2, <2>3, <2>4, QuietStep
<1>5. CASE loc' = [loc EXCEPT ![r] = zone] /\ ~Valid(req[r], zone) /\ Answer(r, "validation_failed")
    <2>1. /\ pc' = [pc EXCEPT ![r] = "done"] /\ reply' = [reply EXCEPT ![r] = "validation_failed"]
          /\ view' = [view EXCEPT ![r] = NoView] /\ loc' = [loc EXCEPT ![r] = zone]
        BY <1>5 DEF Answer, Respond
    <2>2. PlacedAt(r)'
        BY <1>1, <1>2, <1>5, <2>1 DEF Inv, TypeOK, PlacedAt
    <2>3. "done" \in Labels /\ "validation_failed" \in Codes
        BY DEF Labels, Codes
    <2>4. /\ view' = [view EXCEPT ![r] = NoView] \/ view' = view
          /\ loc' = loc \/ (pc[r] = "zone" /\ loc' = [loc EXCEPT ![r] = zone])
        BY <1>1, <2>1
    <2> QED
        BY <1>2, <2>1, <2>2, <2>3, <2>4, QuietStep
<1> QED
    BY <1>3, <1>4, <1>5 DEF LookUp

\* A session is shown, or none is; none is written.
LEMMA ShowStep ==
    ASSUME Inv, NEW r \in Requests,
           NEW shown \in {NoView, View(r, req[r].id, Stored(r))},
           shown # NoView => Stored(r) # NoRow,
           NEW label \in Labels, NEW code \in Codes, NEW outcome \in Seq(Statuses),
           pc[r] # "zone",
           sessions' = sessions,
           pc' = [pc EXCEPT ![r] = label], reply' = [reply EXCEPT ![r] = code],
           view' = [view EXCEPT ![r] = shown] \/ (view' = view /\ view[r] = NoView),
           results' = [results EXCEPT ![r] = outcome],
           req' = req, zone' = zone, loc' = loc,
           PlacedAt(r)'
    PROVE  Inv'
<1>1. PICK id : id = req[r].id
    OBVIOUS
<1>2. PICK row : row = sessions[id]
    OBVIOUS
<1>3. id \in Ids /\ row \in Row \cup {NoRow}
    BY <1>1, <1>2, Asked DEF Inv, TypeOK, Input
<1>4. row # NoRow => row \in Row /\ RowMeant(id, row)
    BY <1>2, <1>3 DEF Inv, RowsMeant
<1>5. sessions' = [sessions EXCEPT ![id] = row]
    BY <1>2, <1>3 DEF Inv, TypeOK
<1>6. shown \in {NoView, View(r, id, row)} /\ (shown # NoView => row # NoRow)
    BY <1>1, <1>2 DEF Stored
<1>7. shown # NoView => row \in Row /\ RowMeant(id, row)
    BY <1>4, <1>6
<1> QED
    BY <1>3, <1>4, <1>5, <1>6, <1>7, WriteStep

\* A request refused after its times were found good.
LEMMA RefuseKeeps == ASSUME Inv, NEW r \in Requests, Refuse(r) PROVE Inv'
<1>1. /\ pc' = [pc EXCEPT ![r] = "done"] /\ reply' = [reply EXCEPT ![r] = "refused"]
      /\ view' = [view EXCEPT ![r] = NoView] /\ loc' = loc
      /\ results' = results /\ sessions' = sessions /\ req' = req /\ zone' = zone
    BY DEF Refuse, Answer, Respond
<1>2. PlacedAt(r)'
    BY <1>1 DEF Inv, TypeOK, Placed, PlacedAt, Refuse
<1>3. "done" \in Labels /\ "refused" \in Codes
    BY DEF Labels, Codes
<1>4. /\ view' = [view EXCEPT ![r] = NoView] \/ view' = view
      /\ loc' = loc \/ (pc[r] = "zone" /\ loc' = [loc EXCEPT ![r] = zone])
    BY <1>1
<1> QED
    BY <1>1, <1>2, <1>3, <1>4, QuietStep

\* The gated UPDATE or DELETE finds no row of that version.
LEMMA MissKeeps == ASSUME Inv, NEW r \in Requests, Miss(r) PROVE Inv'
<1>1. /\ pc' = [pc EXCEPT ![r] = "diagnose"] /\ reply' = reply /\ view' = view /\ loc' = loc
      /\ results' = results /\ sessions' = sessions /\ req' = req /\ zone' = zone
    BY DEF Miss, GoTo
<1>2. reply' = [reply EXCEPT ![r] = "none"]
    BY <1>1 DEF Inv, TypeOK, Placed, PlacedAt, Miss
<1>3. PlacedAt(r)'
    BY <1>1 DEF Inv, TypeOK, Placed, PlacedAt, Miss
<1>4. "diagnose" \in Labels /\ "none" \in Codes
    BY DEF Labels, Codes
<1>5. /\ view' = [view EXCEPT ![r] = NoView] \/ view' = view
      /\ loc' = loc \/ (pc[r] = "zone" /\ loc' = [loc EXCEPT ![r] = zone])
    BY <1>1
<1> QED
    BY <1>1, <1>2, <1>3, <1>4, <1>5, QuietStep

\* Why it did not.
LEMMA DiagnoseKeeps == ASSUME Inv, NEW r \in Requests, Diagnose(r) PROVE Inv'
<1>1. /\ loc' = loc /\ results' = results /\ sessions' = sessions /\ req' = req /\ zone' = zone
      /\ pc[r] = "diagnose"
    BY DEF Diagnose
<1>2. /\ "done" \in Labels /\ "not_found" \in Codes
      /\ "current" \in Labels /\ "none" \in Codes
    BY DEF Labels, Codes
<1>3. CASE Answer(r, "not_found")
    <2>1. /\ pc' = [pc EXCEPT ![r] = "done"] /\ reply' = [reply EXCEPT ![r] = "not_found"]
          /\ view' = [view EXCEPT ![r] = NoView]
        BY <1>3 DEF Answer, Respond
    <2>2. PlacedAt(r)'
        BY <1>1, <2>1 DEF Inv, TypeOK, Placed, PlacedAt
    <2>3. /\ view' = [view EXCEPT ![r] = NoView] \/ view' = view
          /\ loc' = loc \/ (pc[r] = "zone" /\ loc' = [loc EXCEPT ![r] = zone])
        BY <1>1, <2>1
    <2> QED
        BY <1>1, <1>2, <2>1, <2>2, <2>3, QuietStep
<1>4. CASE GoTo(r, "current")
    <2>1. /\ pc' = [pc EXCEPT ![r] = "current"] /\ reply' = reply /\ view' = view
        BY <1>4 DEF GoTo
    <2>2. reply' = [reply EXCEPT ![r] = "none"]
        BY <1>1, <2>1 DEF Inv, TypeOK, Placed, PlacedAt
    <2>3. PlacedAt(r)'
        BY <1>1, <2>1 DEF Inv, TypeOK, Placed, PlacedAt
    <2>4. /\ view' = [view EXCEPT ![r] = NoView] \/ view' = view
          /\ loc' = loc \/ (pc[r] = "zone" /\ loc' = [loc EXCEPT ![r] = zone])
        BY <1>1, <2>1
    <2> QED
        BY <1>1, <1>2, <2>1, <2>2, <2>3, <2>4, QuietStep
<1> QED
    BY <1>3, <1>4 DEF Diagnose

\* A request is answered with a session, or without one, and writes none.
LEMMA AnswerStep ==
    ASSUME Inv, NEW r \in Requests,
           NEW shown \in {NoView, View(r, req[r].id, Stored(r))},
           shown # NoView => Stored(r) # NoRow,
           NEW code \in Codes, code # "validation_failed",
           pc[r] \notin {"zone", "done"},
           Respond(r, code, shown),
           UNCHANGED <<zone, sessions, req, loc, results, changes>>
    PROVE  Inv'
<1>1. /\ pc' = [pc EXCEPT ![r] = "done"] /\ reply' = [reply EXCEPT ![r] = code]
      /\ view' = [view EXCEPT ![r] = shown]
      /\ loc' = loc /\ sessions' = sessions /\ req' = req /\ zone' = zone
    BY DEF Respond
<1>2. PICK outcome \in Seq(Statuses) : results' = [results EXCEPT ![r] = outcome]
    BY DEF Inv, TypeOK
<1>3. PlacedAt(r)'
    BY <1>1 DEF Inv, TypeOK, Placed, PlacedAt
<1>4. "done" \in Labels /\ pc[r] # "zone"
    BY DEF Labels
<1>5. view' = [view EXCEPT ![r] = shown] \/ (view' = view /\ view[r] = NoView)
    BY <1>1
<1> QED
    BY <1>1, <1>2, <1>3, <1>4, <1>5, ShowStep

LEMMA ShowCurrentKeeps == ASSUME Inv, NEW r \in Requests, ShowCurrent(r) PROVE Inv'
<1>1. "version_conflict" \in Codes /\ pc[r] \notin {"zone", "done"}
    BY DEF Codes, ShowCurrent
<1>2. CASE Stored(r) = NoRow
    BY <1>1, <1>2, AnswerStep DEF ShowCurrent
<1>3. CASE Stored(r) # NoRow
    BY <1>1, <1>3, AnswerStep DEF ShowCurrent
<1> QED
    BY <1>2, <1>3

LEMMA ReadKeeps == ASSUME Inv, NEW r \in Requests, Read(r) PROVE Inv'
<1>1. "not_found" \in Codes /\ "ok" \in Codes /\ pc[r] \notin {"zone", "done"}
    BY DEF Codes, Read
<1>2. CASE Stored(r) = NoRow
    BY <1>1, <1>2, AnswerStep DEF Read, Answer
<1>3. CASE Stored(r) # NoRow
    BY <1>1, <1>3, AnswerStep DEF Read
<1> QED
    BY <1>2, <1>3

\* What a PATCH makes of a session is still what its last writer meant.
LEMMA EditedIsMeant ==
    ASSUME Inv, NEW r \in Requests, pc[r] = "write", Matches(r)
    PROVE  Edited(r) \in Row /\ RowMeant(req[r].id, Edited(r))
<1> DEFINE q == req[r]
           id == q.id
           row == sessions[id]
<1>1. q \in Input /\ id \in Ids /\ row \in Row /\ RowMeant(id, row)
    BY Asked DEF Matches, Stored, Inv, TypeOK, RowsMeant, Input
<1>2. CASE ~q.timed
    <2>1. Edited(r) = [row EXCEPT !.version = @ + 1]
        BY <1>2 DEF Edited, Stored
    <2>2. /\ Edited(r) \in Row
          /\ Edited(r).starts = row.starts /\ Edited(r).ends = row.ends /\ Edited(r).by = row.by
        BY <1>1, <2>1 DEF Row
    <2> QED
        BY <1>1, <2>2 DEF RowMeant
<1>3. CASE q.timed
    <2> DEFINE from == ParseInLocation(loc[r], q.starts)
               to == ParseInLocation(loc[r], q.ends)
    <2>1. loc[r] \in Zones /\ Valid(q, loc[r]) /\ zone \in Zones /\ q.op # "series"
        BY DEF Inv, TypeOK, Placed, PlacedAt
    <2>2. from \in Int /\ to \in Int
        BY <1>1, <2>1, ParsedIsInstant, WallClockAssumption DEF Input
    <2>3. PICK new : new = Edited(r)
        OBVIOUS
    <2>4. new = [starts |-> from, ends |-> to, version |-> row.version + 1, by |-> r]
        BY <1>1, <1>3, <2>3 DEF Edited, Stored, Row
    <2> HIDE DEF from, to, row, id, q
    <2>5. row.version + 1 \in Nat
        BY <1>1 DEF Row
    <2>6. new \in Row /\ new.starts = from /\ new.ends = to /\ new.by = r
        BY <2>1, <2>2, <2>4, <2>5 DEF Row
    <2>7. Meant(r)
        BY <1>3, <2>1 DEF Meant, q
    <2>8. RowMeant(id, new)
        BY <2>1, <2>6, <2>7 DEF RowMeant, Elapsed, from, to, q, id
    <2> QED
        BY <2>3, <2>6, <2>8 DEF q, id
<1> QED
    BY <1>2, <1>3

LEMMA WriteKeeps == ASSUME Inv, NEW r \in Requests, Write(r) PROVE Inv'
<1>1. /\ loc' = loc /\ results' = results /\ req' = req /\ zone' = zone
      /\ pc[r] = "write" /\ Matches(r) /\ pc[r] # "zone"
    BY DEF Write
<1>2. PICK outcome \in Seq(Statuses) : results' = [results EXCEPT ![r] = outcome]
    BY <1>1 DEF Inv, TypeOK
<1>3. PICK id \in Ids : id = req[r].id
    BY Asked DEF Inv, Input
<1>4. "done" \in Labels /\ "ok" \in Codes /\ "deleted" \in Codes
    BY DEF Labels, Codes
<1>5. CASE sessions' = [sessions EXCEPT ![req[r].id] = Edited(r)] /\ Respond(r, "ok", View(r, req[r].id, Edited(r)))
    <2>1. PICK row : row = Edited(r)
        OBVIOUS
    <2>2. row \in Row /\ RowMeant(id, row)
        BY <1>1, <1>3, <2>1, EditedIsMeant
    <2>3. PICK shown : shown = View(r, id, row)
        OBVIOUS
    <2>4. /\ row \in Row \cup {NoRow} /\ (row # NoRow => RowMeant(id, row))
          /\ shown \in {NoView, View(r, id, row)} /\ (shown # NoView => row \in Row /\ RowMeant(id, row))
        BY <2>2, <2>3
    <2>5. /\ sessions' = [sessions EXCEPT ![id] = row]
          /\ pc' = [pc EXCEPT ![r] = "done"] /\ reply' = [reply EXCEPT ![r] = "ok"]
          /\ view' = [view EXCEPT ![r] = shown]
        BY <1>3, <1>5, <2>1, <2>3 DEF Respond
    <2>6. view' = [view EXCEPT ![r] = shown] \/ (view' = view /\ view[r] = NoView)
        BY <2>5
    <2>7. PlacedAt(r)'
        BY <1>1, <2>5 DEF Inv, TypeOK, Placed, PlacedAt
    <2> QED
        BY <1>1, <1>2, <1>4, <2>4, <2>5, <2>6, <2>7, WriteStep
<1>6. CASE sessions' = [sessions EXCEPT ![req[r].id] = NoRow] /\ Answer(r, "deleted")
    <2>1. PICK row : row = NoRow
        OBVIOUS
    <2>2. PICK shown : shown = NoView
        OBVIOUS
    <2>3. /\ row \in Row \cup {NoRow} /\ (row # NoRow => RowMeant(id, row))
          /\ shown \in {NoView, View(r, id, row)} /\ (shown # NoView => row \in Row /\ RowMeant(id, row))
        BY <2>1, <2>2
    <2>4. /\ sessions' = [sessions EXCEPT ![id] = row]
          /\ pc' = [pc EXCEPT ![r] = "done"] /\ reply' = [reply EXCEPT ![r] = "deleted"]
          /\ view' = [view EXCEPT ![r] = shown]
        BY <1>3, <1>6, <2>1, <2>2 DEF Respond, Answer
    <2>5. view' = [view EXCEPT ![r] = shown] \/ (view' = view /\ view[r] = NoView)
        BY <2>4
    <2>6. PlacedAt(r)'
        BY <1>1, <2>4 DEF Inv, TypeOK, Placed, PlacedAt
    <2> QED
        BY <1>1, <1>2, <1>4, <2>3, <2>4, <2>5, <2>6, WriteStep
<1> QED
    BY <1>5, <1>6 DEF Write

LEMMA DurationIsInt == ASSUME NEW d \in Int PROVE Duration(d) \in Int /\ Duration(0) = 0
BY LocalTimeAssumption DEF Duration

LEMMA OccurrenceIsInt ==
    ASSUME NEW first \in Int, NEW n \in Int, NEW every \in Int, NEW weekly
    PROVE  /\ Occurrence(first, n, Step(every, weekly)) \in Int
           /\ n = 1 => Occurrence(first, n, Step(every, weekly)) = first
<1>1. PICK days : days = every * Day * (IF weekly THEN 7 ELSE 1)
    OBVIOUS
<1>2. days \in Int
    BY <1>1, LocalTimeAssumption
<1>3. PICK step \in Int : step = Step(every, weekly)
    BY <1>1, <1>2, DurationIsInt DEF Step
<1>4. (n - 1) * step \in Int /\ (n = 1 => (n - 1) * step = 0)
    BY <1>3
<1>5. Duration((n - 1) * step) \in Int /\ (n = 1 => Duration((n - 1) * step) = 0)
    BY <1>4, DurationIsInt
<1> QED
    BY <1>3, <1>5 DEF Occurrence

\* An occurrence lasts as long as the first, and the first is what was asked for.
LEMMA NewRowIsMeant ==
    ASSUME Inv, NEW r \in Requests, pc[r] = "insert"
    PROVE  /\ <<r, Nth(r)>> \in Ids
           /\ NewRow(r, Nth(r)) \in Row
           /\ RowMeant(<<r, Nth(r)>>, NewRow(r, Nth(r)))
<1>1. /\ req[r] \in Input /\ req[r].timed /\ (req[r].op = "create" => req[r].count = 1)
      /\ req[r].op \in {"create", "series"} /\ Len(results[r]) < req[r].count
      /\ loc[r] \in Zones /\ Valid(req[r], loc[r]) /\ zone \in Zones /\ results[r] \in Seq(Statuses)
    BY Asked DEF Inv, TypeOK, Placed, PlacedAt
<1>2. PICK n : n = Nth(r)
    OBVIOUS
<1>3. /\ n \in 1 .. MaxOccurrences /\ n \in Int
      /\ req[r].op = "create" => n = 1
    BY <1>1, <1>2, WallClockAssumption DEF Nth, Input
<1>4. PICK from \in Int : from = ParseInLocation(loc[r], req[r].starts)
    BY <1>1, ParsedIsInstant, WallClockAssumption DEF Input
<1>5. PICK to \in Int : to = ParseInLocation(loc[r], req[r].ends)
    BY <1>1, ParsedIsInstant, WallClockAssumption DEF Input
<1>6. PICK starts : starts = Occurrence(from, n, Step(req[r].every, req[r].weekly))
    OBVIOUS
<1>7. starts \in Int /\ (n = 1 => starts = from)
    BY <1>1, <1>3, <1>6, OccurrenceIsInt DEF Input
<1>8. PICK row : row = NewRow(r, n)
    OBVIOUS
<1>9. row = [starts |-> starts, ends |-> starts + (to - from), version |-> 1, by |-> r]
    BY <1>4, <1>5, <1>6, <1>8 DEF NewRow
<1>10. /\ row \in Row /\ row.by = r /\ row.starts = starts
       /\ row.ends - row.starts = to - from
    BY <1>1, <1>7, <1>9 DEF Row
<1>11. Meant(r) /\ Elapsed(r) = to - from
    BY <1>1, <1>4, <1>5 DEF Meant, Elapsed
<1>12. OwnTimes(r, <<r, n>>) => n = 1
    BY <1>1, <1>3 DEF OwnTimes
<1>13. starts = StartOf(r, n)
    BY <1>4, <1>6 DEF StartOf
<1>14. RowMeant(<<r, n>>, row)
    BY <1>4, <1>7, <1>10, <1>11, <1>12, <1>13 DEF RowMeant
<1>15. <<r, n>> \in Ids
    BY <1>3 DEF Ids
<1> QED
    BY <1>2, <1>8, <1>10, <1>14, <1>15

\* An occurrence settled is the answer, or is counted and the next one follows.
LEMMA OccurredAnswers ==
    ASSUME Inv, NEW r \in Requests, pc[r] = "insert",
           NEW status \in Statuses, NEW shown, status = "conflict" => shown = NoView,
           Occurred(r, status, shown), req' = req, loc' = loc
    PROVE  \E label \in Labels, code \in Codes, outcome \in Seq(Statuses), out \in {NoView, shown} :
               /\ pc' = [pc EXCEPT ![r] = label] /\ reply' = [reply EXCEPT ![r] = code]
               /\ view' = [view EXCEPT ![r] = out] \/ (view' = view /\ view[r] = NoView)
               /\ (out = NoView \/ out = shown)
               /\ results' = [results EXCEPT ![r] = outcome]
               /\ PlacedAt(r)'
<1>1. /\ req[r].op \in {"create", "series"} /\ Len(results[r]) < req[r].count
      /\ loc[r] \in Zones /\ Valid(req[r], loc[r]) /\ results[r] \in Seq(Statuses)
      /\ reply[r] = "none" /\ view[r] = NoView
    BY DEF Inv, TypeOK, Placed, PlacedAt
<1>2. PICK outcome \in Seq(Statuses) :
          results' = [results EXCEPT ![r] = outcome] /\ Len(outcome) = Len(results[r]) + 1
    <2>1. results' = [results EXCEPT ![r] = Append(results[r], status)]
        BY DEF Occurred
    <2>2. Append(results[r], status) \in Seq(Statuses) /\ Len(Append(results[r], status)) = Len(results[r]) + 1
        BY <1>1, AppendProperties
    <2> QED
        BY <2>1, <2>2
<1>3. /\ "done" \in Labels /\ "insert" \in Labels
      /\ "created" \in Codes /\ "session_conflict" \in Codes /\ "none" \in Codes
    BY DEF Labels, Codes
<1>4. CASE req[r].op = "create" /\ status = "created"
    <2>1. Respond(r, "created", shown)
        BY <1>4 DEF Occurred
    <2>2. /\ pc' = [pc EXCEPT ![r] = "done"] /\ reply' = [reply EXCEPT ![r] = "created"]
          /\ view' = [view EXCEPT ![r] = shown]
        BY <2>1 DEF Respond
    <2>3. PlacedAt(r)'
        BY <1>1, <2>2 DEF Inv, TypeOK, PlacedAt
    <2> QED
        BY <1>2, <1>3, <2>2, <2>3
<1>5. CASE req[r].op = "create" /\ status = "conflict"
    <2>1. Answer(r, "session_conflict")
        BY <1>5 DEF Occurred
    <2>2. /\ pc' = [pc EXCEPT ![r] = "done"] /\ reply' = [reply EXCEPT ![r] = "session_conflict"]
          /\ view' = [view EXCEPT ![r] = NoView]
        BY <2>1 DEF Answer, Respond
    <2>3. PlacedAt(r)'
        BY <1>1, <2>2 DEF Inv, TypeOK, PlacedAt
    <2> QED
        BY <1>2, <1>3, <2>2, <2>3
<1>6. CASE req[r].op = "series" /\ Nth(r) < req[r].count
    <2>1. GoTo(r, "insert")
        BY <1>6 DEF Occurred
    <2>2. /\ pc' = [pc EXCEPT ![r] = "insert"] /\ reply' = [reply EXCEPT ![r] = "none"]
          /\ reply' = reply /\ view' = view
        BY <1>1, <2>1 DEF GoTo, Inv, TypeOK
    <2>3. PlacedAt(r)'
        BY <1>1, <1>2, <1>6, <2>2 DEF Inv, TypeOK, PlacedAt, Nth
    <2> QED
        BY <1>1, <1>2, <1>3, <2>2, <2>3
<1>7. CASE req[r].op = "series" /\ ~(Nth(r) < req[r].count)
    <2>1. Answer(r, "created")
        BY <1>7 DEF Occurred
    <2>2. /\ pc' = [pc EXCEPT ![r] = "done"] /\ reply' = [reply EXCEPT ![r] = "created"]
          /\ view' = [view EXCEPT ![r] = NoView]
        BY <2>1 DEF Answer, Respond
    <2>3. PlacedAt(r)'
        BY <1>1, <2>2 DEF Inv, TypeOK, PlacedAt
    <2> QED
        BY <1>2, <1>3, <2>2, <2>3
<1> QED
    BY <1>1, <1>4, <1>5, <1>6, <1>7 DEF Statuses

LEMMA InsertKeeps == ASSUME Inv, NEW r \in Requests, Insert(r) PROVE Inv'
<1>1. /\ pc[r] = "insert" /\ pc[r] # "zone" /\ req' = req /\ zone' = zone /\ loc' = loc
    BY DEF Insert
<1>2. PICK id : id = <<r, Nth(r)>>
    OBVIOUS
<1>3. PICK row : row = NewRow(r, Nth(r))
    OBVIOUS
<1>4. PICK shown : shown = View(r, id, row)
    OBVIOUS
<1>5. id \in Ids /\ row \in Row /\ RowMeant(id, row)
    BY <1>1, <1>2, <1>3, NewRowIsMeant
<1>6. sessions' = [sessions EXCEPT ![id] = row] /\ Occurred(r, "created", shown)
    BY <1>2, <1>3, <1>4 DEF Insert
<1>7. "created" \in Statuses /\ ("created" = "conflict" => shown = NoView)
    BY DEF Statuses
<1>8. PICK label \in Labels, code \in Codes, outcome \in Seq(Statuses), out \in {NoView, shown} :
          /\ pc' = [pc EXCEPT ![r] = label] /\ reply' = [reply EXCEPT ![r] = code]
          /\ view' = [view EXCEPT ![r] = out] \/ (view' = view /\ view[r] = NoView)
          /\ (out = NoView \/ out = shown)
          /\ results' = [results EXCEPT ![r] = outcome]
          /\ PlacedAt(r)'
    BY <1>1, <1>6, <1>7, OccurredAnswers
<1>9. /\ row \in Row \cup {NoRow} /\ (row # NoRow => RowMeant(id, row))
      /\ out \in {NoView, View(r, id, row)} /\ (out # NoView => row \in Row /\ RowMeant(id, row))
    BY <1>4, <1>5
<1> QED
    BY <1>1, <1>5, <1>6, <1>8, <1>9, WriteStep

LEMMA ConflictKeeps == ASSUME Inv, NEW r \in Requests, Conflict(r) PROVE Inv'
<1>1. /\ pc[r] = "insert" /\ pc[r] # "zone" /\ req' = req /\ zone' = zone /\ loc' = loc
      /\ sessions' = sessions /\ Occurred(r, "conflict", NoView)
    BY DEF Conflict
<1>2. "conflict" \in Statuses /\ ("conflict" = "conflict" => NoView = NoView)
    BY DEF Statuses
<1>3. PICK label \in Labels, code \in Codes, outcome \in Seq(Statuses), out \in {NoView, NoView} :
          /\ pc' = [pc EXCEPT ![r] = label] /\ reply' = [reply EXCEPT ![r] = code]
          /\ view' = [view EXCEPT ![r] = out] \/ (view' = view /\ view[r] = NoView)
          /\ (out = NoView \/ out = NoView)
          /\ results' = [results EXCEPT ![r] = outcome]
          /\ PlacedAt(r)'
    BY <1>1, <1>2, OccurredAnswers
<1>4. out \in {NoView, View(r, req[r].id, Stored(r))} /\ (out # NoView => Stored(r) # NoRow)
    OBVIOUS
<1> QED
    BY <1>1, <1>3, <1>4, ShowStep

\* PATCH of the event: no handler's zone and no row moves with it.
LEMMA SetZoneKeeps == ASSUME Inv, NEW z \in Zones, SetZone(z) PROVE Inv'
<1>1. /\ zone' \in Zones /\ sessions' = sessions /\ req' = req /\ pc' = pc /\ loc' = loc
      /\ results' = results /\ reply' = reply /\ view' = view
    BY DEF SetZone
<1>2. TypeOK' /\ Placed'
    BY <1>1 DEF Inv, TypeOK, Placed, PlacedAt
<1>3. RowsMeant' /\ ViewsMeant'
    BY <1>1 DEF Inv, RowsMeant, RowMeant, ViewsMeant, ViewMeant, Meant, OwnTimes, Elapsed, StartOf
<1> QED
    BY <1>2, <1>3 DEF Inv

LEMMA InitInv == Init => Inv
<1> SUFFICES ASSUME Init PROVE Inv
    OBVIOUS
<1>1. TypeOK
    BY DEF Init, TypeOK, Labels, Codes
<1>2. Placed /\ RowsMeant /\ ViewsMeant
    BY DEF Init, Placed, PlacedAt, RowsMeant, ViewsMeant
<1> QED
    BY <1>1, <1>2 DEF Inv

LEMMA NextInv == Inv /\ [Next]_vars => Inv'
<1> SUFFICES ASSUME Inv, [Next]_vars PROVE Inv'
    OBVIOUS
<1>1. ASSUME NEW r \in Requests, Handle(r) PROVE Inv'
    <2>1. CASE LookUp(r)
        BY <2>1, LookUpKeeps
    <2>2. CASE Insert(r)
        BY <2>2, InsertKeeps
    <2>3. CASE Conflict(r)
        BY <2>3, ConflictKeeps
    <2>4. CASE Refuse(r)
        BY <2>4, RefuseKeeps
    <2>5. CASE Write(r)
        BY <2>5, WriteKeeps
    <2>6. CASE Miss(r)
        BY <2>6, MissKeeps
    <2>7. CASE Diagnose(r)
        BY <2>7, DiagnoseKeeps
    <2>8. CASE ShowCurrent(r)
        BY <2>8, ShowCurrentKeeps
    <2>9. CASE Read(r)
        BY <2>9, ReadKeeps
    <2> QED
        BY <1>1, <2>1, <2>2, <2>3, <2>4, <2>5, <2>6, <2>7, <2>8, <2>9 DEF Handle
<1>2. CASE \E z \in Zones : SetZone(z)
    BY <1>2, SetZoneKeeps
<1>3. CASE UNCHANGED vars
    BY <1>3 DEF vars, Inv, TypeOK, Placed, PlacedAt, RowsMeant, RowMeant, ViewsMeant, ViewMeant, Meant,
                OwnTimes, Elapsed, StartOf
<1> QED
    BY <1>1, <1>2, <1>3 DEF Next

\* Rows and answers hold what was meant in the zone that was read, whatever
\* becomes of the event's.
THEOREM InvHolds == Spec => []Inv
<1> QED
    BY InitInv, NextInv, PTL DEF Spec

(***************************************************************************)
(* The properties of the runs.                                             *)
(***************************************************************************)
LEMMA RejectedRightly == Inv => RejectedIffUnreal
<1> SUFFICES ASSUME Inv, NEW r \in Requests, loc[r] # NoZone
             PROVE  reply[r] = "validation_failed" <=>
                        req[r].timed /\ ~(/\ ShownAt(loc[r], req[r].starts) # {}
                                          /\ ShownAt(loc[r], req[r].ends) # {}
                                          /\ req[r].starts < req[r].ends)
    BY DEF RejectedIffUnreal
<1>1. /\ loc[r] \in Zones /\ loc[r] \in Zone /\ req[r].starts \in Int /\ req[r].ends \in Int
      /\ req[r] \in Input
    BY Asked, WallClockAssumption DEF Inv, TypeOK, Input
<1>2. reply[r] = "validation_failed" <=> ~Valid(req[r], loc[r])
    BY DEF Inv, Placed, PlacedAt
<1>3. Exists(loc[r], req[r].starts) <=> ShownAt(loc[r], req[r].starts) # {}
    BY <1>1, RealTimesResolve
<1>4. Exists(loc[r], req[r].ends) <=> ShownAt(loc[r], req[r].ends) # {}
    BY <1>1, RealTimesResolve
<1>5. Exists(loc[r], req[r].starts) /\ Exists(loc[r], req[r].ends) =>
          (req[r].starts < req[r].ends <=>
               ParseInLocation(loc[r], req[r].starts) < ParseInLocation(loc[r], req[r].ends))
    BY <1>1, OrderKept
<1> QED
    BY <1>2, <1>3, <1>4, <1>5 DEF Valid

\* handler/session.go and localtime.go: a request is rejected for its times
\* exactly if the clocks of the event's zone do not show them in this order.
THEOREM TimesRejectedRightly == Spec => []RejectedIffUnreal
<1> QED
    BY InvHolds, RejectedRightly, PTL

LEMMA ShownRight == Inv => ReadBack
BY DEF Inv, ViewsMeant, ViewMeant, ReadBack, OwnTimes, Elapsed

\* response/session.go: a session reads back as its last writer asked for it.
THEOREM ShownAsAsked == Spec => []ReadBack
<1> QED
    BY InvHolds, ShownRight, PTL

\* No series that anyone may ask for reaches the end of a time.Duration: with 52
\* occurrences, at every 293 weeks at most.
NoWrap ==
    \A r \in Requests : \A q \in Inputs[r] : MaxOccurrences * (q.every * Day * 7) < Half

LEMMA Unwrapped == ASSUME NEW d \in Int, 0 <= d, d < Half PROVE Duration(d) = d
BY LocalTimeAssumption DEF Duration

LEMMA Multiples ==
    ASSUME NEW m \in Nat, NEW k \in Nat, k <= m, NEW d \in Nat
    PROVE  k * d \in Nat /\ k * d <= m * d
<1>1. (m - k) * d \in Nat
    <2>1. m - k \in Nat
        OBVIOUS
    <2>2. \A i \in Nat : i * d \in Nat
        OBVIOUS
    <2> QED
        BY <2>1, <2>2
<1>2. (m - k) * d = m * d - k * d
    OBVIOUS
<1>3. k * d \in Nat /\ m * d \in Nat
    OBVIOUS
<1> QED
    BY <1>1, <1>2, <1>3

\* Then occurrences are whole days and weeks apart.
LEMMA DaysApart ==
    ASSUME NEW q \in Input, MaxOccurrences * (q.every * Day * 7) < Half,
           NEW n \in 1 .. MaxOccurrences, NEW first \in Int
    PROVE  Occurrence(first, n, Step(q.every, q.weekly)) = first + Span(q, n)
<1>1. PICK e \in Nat : e = q.every * Day
    BY LocalTimeAssumption DEF Input
<1>2. PICK days \in Nat : days = q.every * Day * (IF q.weekly THEN 7 ELSE 1) /\ days <= e * 7
    BY <1>1
<1>3. MaxOccurrences \in Nat /\ n - 1 \in Nat /\ n - 1 <= MaxOccurrences /\ 1 <= MaxOccurrences
    BY WallClockAssumption
<1>4. MaxOccurrences * days <= MaxOccurrences * (e * 7)
    <2>1. days * MaxOccurrences <= (e * 7) * MaxOccurrences
        BY <1>2, <1>3, Multiples
    <2> QED
        BY <2>1, <1>3
<1>5. MaxOccurrences * days < Half
    BY <1>1, <1>2, <1>3, <1>4, LocalTimeAssumption
<1>6. days < Half
    <2>1. 1 * days <= MaxOccurrences * days
        BY <1>2, <1>3, Multiples
    <2> QED
        BY <1>2, <1>3, <1>5, <2>1, LocalTimeAssumption
<1>7. (n - 1) * days \in Nat /\ (n - 1) * days < Half
    <2>1. (n - 1) * days \in Nat /\ (n - 1) * days <= MaxOccurrences * days
        BY <1>2, <1>3, Multiples
    <2> QED
        BY <1>3, <1>5, <2>1, LocalTimeAssumption
<1>8. Step(q.every, q.weekly) = days
    BY <1>2, <1>6, Unwrapped DEF Step
<1>9. Duration((n - 1) * days) = (n - 1) * days
    BY <1>7, Unwrapped
<1>10. Span(q, n) = (n - 1) * days
    BY <1>2, LocalTimeAssumption DEF Span, Input
<1> QED
    BY <1>8, <1>9, <1>10 DEF Occurrence

LEMMA DaysRight == ASSUME NoWrap PROVE Inv => OnTheirDays
<1> SUFFICES ASSUME Inv, NEW id \in Ids, sessions[id] # NoRow, req[sessions[id].by].op = "series"
             PROVE  LET row == sessions[id]
                        z == loc[row.by]
                        first == ParseInLocation(z, req[row.by].starts)
                    IN In(z, row.starts) = req[row.by].starts + Span(req[row.by], id[2])
                                           + (Offset(z, row.starts) - Offset(z, first))
    BY DEF OnTheirDays
<1>1. PICK row : row = sessions[id]
    OBVIOUS
<1>2. PICK q : q = req[row.by]
    OBVIOUS
<1>3. PICK z : z = loc[row.by]
    OBVIOUS
<1>4. RowMeant(id, row) /\ Meant(row.by)
    BY <1>1 DEF Inv, RowsMeant, RowMeant
<1>5. /\ q \in Input /\ q.starts \in Int /\ z \in Zone /\ Exists(z, q.starts)
      /\ MaxOccurrences * (q.every * Day * 7) < Half
    BY <1>2, <1>3, <1>4, Asked, WallClockAssumption DEF Meant, Valid, Input, Inv, TypeOK, NoWrap
<1>6. PICK first \in Int : first = ParseInLocation(z, q.starts)
    BY <1>5, ParsedIsInstant
<1>7. id[2] \in 1 .. MaxOccurrences
    BY DEF Ids
<1>8. row.starts = Occurrence(first, id[2], Step(q.every, q.weekly))
    BY <1>1, <1>2, <1>3, <1>4, <1>6 DEF RowMeant, StartOf
<1>9. row.starts = first + Span(q, id[2])
    BY <1>5, <1>7, <1>8, DaysApart
<1>10. first + Offset(z, first) = q.starts
    BY <1>5, <1>6 DEF Exists, In
<1>11. Span(q, id[2]) \in Int
    BY <1>5, <1>7, LocalTimeAssumption DEF Span, Input
<1>12. Offset(z, row.starts) \in Int /\ Offset(z, first) \in Int
    BY <1>5 DEF Offset, Zone
<1>13. In(z, row.starts) = q.starts + Span(q, id[2]) + (Offset(z, row.starts) - Offset(z, first))
    BY <1>5, <1>6, <1>9, <1>10, <1>11, <1>12 DEF In
<1> QED
    BY <1>1, <1>2, <1>3, <1>6, <1>13

\* session_repo.go:392: as long as no step wraps, an occurrence is on its day, at
\* the hour of the first but for what the clocks were moved by.
THEOREM OccurrencesOnTheirDays == ASSUME NoWrap PROVE Spec => []OnTheirDays
<1>1. Inv => OnTheirDays
    BY DaysRight
<1> QED
    BY <1>1, InvHolds, PTL
=============================================================================

---------------------------- MODULE RosterProofs ----------------------------
(***************************************************************************)
(* Proofs about Roster.tla for every set of requests, events, people,      *)
(* inputs and initial memberships.                                         *)
(***************************************************************************)
EXTENDS Roster, FiniteSetTheorems, TLAPS

(***************************************************************************)
(* The inductive invariant.  AtLeastOneAdmin speaks of committed rows; the *)
(* guard that protects it was evaluated some statements before the commit. *)
(* That it still holds then (Committable) rests on the events row being    *)
(* held by one request at a time, Create's foreign key included            *)
(* (EventExclusive), so that nobody else's commit touches that event.      *)
(***************************************************************************)
\* A request runs the statements of its own operation, on an event it was
\* allowed to see, and has a tuple exactly in the statements that need one.
OnTrack ==
    \A r \in Requests :
        /\ Writing(r) <=> pc[r] \in {"seat", "event", "commit"}
        /\ pc[r] \in {"insert", "reason", "seat", "event"} => req[r].op = "add"
        /\ pc[r] \in {"lock", "write", "diagnose", "current"} => req[r].op \in {"assign", "remove"}
        /\ pc[r] = "found" => req[r].op = "found"
        /\ pc[r] \notin {"authorize", "done"} /\ req[r].op # "found" => req[r].event \in events

\* Seats belong to events that exist and have left a trace in the audit log.
SeatsKnown ==
    \A i \in MemberIds : roster[i] # NoMember => roster[i].event \in events /\ audit[i] # << >>

EventExclusive ==
    \A r, u \in Requests, e \in Events :
        r # u /\ HoldsEvent(r, e) => ~HoldsEvent(u, e) /\ ~SharesEvent(u, e)

\* What an open transaction has written may be committed as it is.
Committable(r) ==
    /\ req[r].op = "add" => roster[pend[r].id] = NoMember /\ pend[r].new = NewRow(r)
    /\ req[r].op = "found" =>
         /\ roster[pend[r].id] = NoMember
         /\ pend[r].new \in Member /\ pend[r].new.event \notin events
         /\ pend[r].new.role = "admin" /\ pend[r].new.version = 1
    /\ req[r].op \in {"assign", "remove"} =>
         /\ pend[r].id = req[r].id /\ Present(r) /\ KeepsAdmin(r)
         /\ pend[r].new = IF req[r].op = "remove" THEN NoMember
                          ELSE Ranked(roster[req[r].id], req[r].role)

\* Two open transactions write different rows, and found different events.
WritersApart ==
    \A r, u \in Requests : r # u /\ Writing(r) /\ Writing(u) =>
        /\ pend[r].id # pend[u].id
        /\ req[r].op = "found" /\ req[u].op = "found" => pend[r].new.event # pend[u].new.event

\* r has been through the check of the unique index.
SeatTaken(r) == req[r].op = "add" /\ pc[r] \in {"event", "commit"}

SeatsSecured ==
    \A r \in Requests : SeatTaken(r) =>
        /\ ~Occupied(r)
        /\ \A u \in Requests \ {r} : SeatTaken(u) => ~SameSeat(pend[u].new, pend[r].new)

\* A write that found nothing to do would find nothing still.
MissStands == \A r \in Requests : pc[r] = "diagnose" => ~Matches(r)

Inv ==
    /\ TypeOK /\ OnTrack /\ SeatsKnown
    /\ EventExclusive /\ WritersApart /\ SeatsSecured /\ MissStands
    /\ \A r \in Requests : Writing(r) => Committable(r)
    /\ OneSeatPerUser /\ AtLeastOneAdmin

Labels == {"authorize", "found", "insert", "reason", "seat", "event", "lock",
           "write", "diagnose", "current", "commit", "done"}

(***************************************************************************)
(* Rows and initial states.                                                *)
(***************************************************************************)

\* What a request asks for has the shape the handlers validated.
LEMMA RequestType == ASSUME TypeOK, NEW r \in Requests PROVE req[r] \in Input
BY RosterAssumption DEF TypeOK

\* Create inserts a membership at version 1.
LEMMA NewRowType == ASSUME TypeOK, NEW r \in Requests
                    PROVE  NewRow(r) \in Member /\ NewRow(r).version = 1
BY RequestType DEF NewRow, Member, Input

\* A new role changes neither the seat nor its event.
LEMMA RankedType ==
    ASSUME NEW row \in Member, NEW role \in Roles
    PROVE  /\ Ranked(row, role) \in Member
           /\ Ranked(row, role).role = role
           /\ Ranked(row, role).event = row.event
           /\ Ranked(row, role).user = row.user
           /\ Ranked(row, role).version = row.version + 1
<1>1. /\ row = [event |-> row.event, user |-> row.user, role |-> row.role, version |-> row.version]
      /\ row.event \in Events /\ row.user \in Users /\ row.version \in Nat
    BY DEF Member
<1>2. Ranked(row, role) =
         [event |-> row.event, user |-> row.user, role |-> role, version |-> row.version + 1]
    <2> DEFINE b == [row EXCEPT !.role = role]
    <2>1. b = [event |-> row.event, user |-> row.user, role |-> role, version |-> row.version]
        BY <1>1
    <2>2. Ranked(row, role) = [b EXCEPT !.version = b.version + 1]
        BY DEF Ranked
    <2> HIDE DEF b
    <2> QED
        BY <2>1, <2>2
<1>3. row.version + 1 \in Nat \ {0}
    BY <1>1
<1> QED
    BY <1>1, <1>2, <1>3 DEF Member

\* A fresh id has no row and is not being written.
LEMMA FreshIdFree ==
    ASSUME SeatsKnown, NEW i \in MemberIds, FreshId(i)
    PROVE  roster[i] = NoMember
BY DEF SeatsKnown, FreshId

\* The invariant holds when the requests arrive.
LEMMA InitInv == Init => Inv
<1> SUFFICES ASSUME Init PROVE Inv
    OBVIOUS
<1>1. \A i \in MemberIds : Seated[i] # NoMember => Seated[i].role \in Roles
    BY SeatedAssumption DEF Member
<1>2. audit \in [MemberIds -> Seq(AuditEntry)]
    <2>1. ASSUME NEW i \in MemberIds, Seated[i] # NoMember
          PROVE  [by |-> NoWrite, action |-> "create", before |-> "none", after |-> Seated[i].role] \in AuditEntry
        BY <1>1, <2>1 DEF AuditEntry
    <2>2. ASSUME NEW i \in MemberIds PROVE audit[i] \in Seq(AuditEntry)
        <3>1. CASE Seated[i] = NoMember
            BY <3>1 DEF Init
        <3>2. CASE Seated[i] # NoMember
            <4> DEFINE x == [by |-> NoWrite, action |-> "create", before |-> "none", after |-> Seated[i].role]
            <4>1. audit[i] = <<x>>
                BY <3>2 DEF Init
            <4>2. x \in AuditEntry
                BY <2>1, <3>2
            <4> HIDE DEF x
            <4> QED
                BY <4>1, <4>2
        <3> QED
            BY <3>1, <3>2
    <2> QED
        BY <2>2 DEF Init
<1>3. TypeOK
    BY <1>2, RosterAssumption, SeatedAssumption DEF Init, TypeOK, Replies
<1>4. \A r \in Requests : pc[r] \in {"found", "authorize"} /\ ~Writing(r)
    BY DEF Init, Writing
<1>5. OnTrack
    BY <1>4 DEF OnTrack, Init
<1>6. SeatsKnown
    BY SeatedAssumption DEF SeatsKnown, Init
<1>7. EventExclusive /\ WritersApart /\ SeatsSecured /\ MissStands
    BY <1>4 DEF EventExclusive, WritersApart, SeatsSecured, SeatTaken, MissStands, HoldsEvent
<1>8. OneSeatPerUser /\ AtLeastOneAdmin
    BY SeatedAssumption DEF OneSeatPerUser, AtLeastOneAdmin, Init
<1> QED
    BY <1>3, <1>4, <1>5, <1>6, <1>7, <1>8 DEF Inv

(***************************************************************************)
(* Locks.                                                                  *)
(***************************************************************************)

\* Whoever moves keeps the events rows exclusive if it takes FOR UPDATE only
\* where nobody holds the row, and FOR KEY SHARE only where nobody holds it
\* FOR UPDATE.
LEMMA ExclusiveStep ==
    ASSUME TypeOK, EventExclusive, NEW r \in Requests, NEW l,
           UNCHANGED req, pc' = [pc EXCEPT ![r] = l],
           req[r].op \in {"assign", "remove"} /\ l \in {"write", "diagnose", "commit"} =>
              \/ pc[r] \in {"write", "diagnose", "commit"}
              \/ \A u \in Requests : ~HoldsEvent(u, req[r].event) /\ ~SharesEvent(u, req[r].event),
           req[r].op = "add" /\ l = "commit" =>
              \A u \in Requests : ~HoldsEvent(u, req[r].event)
    PROVE  EventExclusive'
<1> SUFFICES ASSUME NEW a \in Requests, NEW b \in Requests, NEW e \in Events, a # b, HoldsEvent(a, e)'
             PROVE  ~HoldsEvent(b, e)' /\ ~SharesEvent(b, e)'
    BY DEF EventExclusive
<1>1. pc'[r] = l /\ \A u \in Requests \ {r} : pc'[u] = pc[u]
    BY DEF TypeOK
<1>2. \A u \in Requests \ {r} : (HoldsEvent(u, e)' <=> HoldsEvent(u, e)) /\ (SharesEvent(u, e)' <=> SharesEvent(u, e))
    BY <1>1 DEF HoldsEvent, SharesEvent
<1>3. CASE a # r /\ b # r
    BY <1>2, <1>3 DEF EventExclusive
<1>4. CASE a = r
    <2>1. req[r].op \in {"assign", "remove"} /\ req[r].event = e /\ l \in {"write", "diagnose", "commit"}
        BY <1>1, <1>4 DEF HoldsEvent
    <2>2. ~HoldsEvent(b, e) /\ ~SharesEvent(b, e)
        BY <1>4, <2>1 DEF EventExclusive, HoldsEvent
    <2> QED
        BY <1>2, <1>4, <2>2
<1>5. CASE b = r
    <2>1. HoldsEvent(a, e)
        BY <1>2, <1>5
    <2>2. ~HoldsEvent(r, e) /\ ~SharesEvent(r, e)
        BY <1>5, <2>1 DEF EventExclusive
    <2>3. ~HoldsEvent(b, e)'
        BY <1>1, <1>5, <2>1, <2>2 DEF HoldsEvent
    <2>4. ~SharesEvent(b, e)'
        BY <1>1, <1>5, <2>1 DEF SharesEvent
    <2> QED
        BY <2>3, <2>4
<1> QED
    BY <1>3, <1>4, <1>5

\* A request that writes nothing and ends nothing goes to its next statement.
LEMMA MoveStep ==
    ASSUME Inv, NEW r \in Requests, NEW l \in Labels,
           UNCHANGED <<events, roster, audit, req, pend>>, pc' = [pc EXCEPT ![r] = l],
           TypeOK', EventExclusive', SeatsSecured',
           Writing(r) <=> l \in {"seat", "event", "commit"},
           l \in {"insert", "reason", "seat", "event"} => req[r].op = "add",
           l \in {"lock", "write", "diagnose", "current"} => req[r].op \in {"assign", "remove"},
           l # "found",
           l \notin {"authorize", "done"} /\ req[r].op # "found" => req[r].event \in events,
           l = "diagnose" => ~Matches(r)
    PROVE  Inv'
<1>1. pc'[r] = l /\ \A u \in Requests \ {r} : pc'[u] = pc[u]
    BY DEF Inv, TypeOK
<1>2. OnTrack'
    BY <1>1 DEF Inv, OnTrack, Writing
<1>3. SeatsKnown' /\ OneSeatPerUser' /\ AtLeastOneAdmin'
    BY DEF Inv, SeatsKnown, OneSeatPerUser, AtLeastOneAdmin
<1>4. WritersApart'
    BY DEF Inv, WritersApart, Writing
<1>5. \A u \in Requests : (Matches(u)' <=> Matches(u)) /\ (Committable(u)' <=> Committable(u))
    BY DEF Matches, Present, KeepsAdmin, Committable, NewRow
<1>6. MissStands'
    BY <1>1, <1>5 DEF Inv, MissStands
<1>7. \A u \in Requests : Writing(u)' => Committable(u)'
    BY <1>5 DEF Inv, Writing
<1> QED
    BY <1>2, <1>3, <1>4, <1>6, <1>7 DEF Inv

\* Steps of one request that change no table and no tuple.
LEMMA MovesInv ==
    ASSUME Inv, NEW r \in Requests,
           \/ Authorize(r) \/ InsertNothing(r) \/ Reason(r) \/ TakeSeat(r) \/ ShareEvent(r)
           \/ Lock(r) \/ WriteMiss(r) \/ Diagnose(r) \/ ShowCurrent(r)
    PROVE  Inv' /\ UNCHANGED <<events, roster>>
<1>0. /\ UNCHANGED <<events, roster, audit, req, pend>>
      /\ TypeOK'
    <2>1. UNCHANGED <<events, roster, audit, req, pend, users>>
        BY DEF Authorize, InsertNothing, Reason, TakeSeat, ShareEvent, Lock, WriteMiss, Diagnose, ShowCurrent, db
    <2>2. /\ pc' \in [Requests -> Labels]
          /\ reply' \in [Requests -> Replies]
        BY DEF Authorize, InsertNothing, Reason, TakeSeat, ShareEvent, Lock, WriteMiss, Diagnose, ShowCurrent,
               Answer, GoTo, Inv, TypeOK, Replies, Labels
    <2>3. shown' \in [Requests -> Member \cup {NoMember}]
        <3>1. CASE ShowCurrent(r)
            <4>1. req[r].id \in MemberIds
                BY RequestType DEF Inv, Input
            <4> QED
                BY <3>1, <4>1 DEF ShowCurrent, Inv, TypeOK
        <3>2. CASE ~ShowCurrent(r)
            BY <3>2 DEF Authorize, InsertNothing, Reason, TakeSeat, ShareEvent, Lock, WriteMiss, Diagnose, Inv, TypeOK
        <3> QED
            BY <3>1, <3>2
    <2> QED
        BY <2>1, <2>2, <2>3 DEF Inv, TypeOK, Labels
<1> DEFINE Goes(l) == pc' = [pc EXCEPT ![r] = l]
<1>1. \A l : Goes(l) => pc'[r] = l /\ \A u \in Requests \ {r} : pc'[u] = pc[u]
    BY DEF Inv, TypeOK
<1>2. ASSUME NEW l, Goes(l), ~(req[r].op = "add" /\ l \in {"event", "commit"}) PROVE SeatsSecured'
    BY <1>0, <1>1, <1>2 DEF Inv, SeatsSecured, SeatTaken, Occupied
<1>3. CASE Authorize(r)
    <2>1. PICK l \in {"insert", "lock", "done"} : Goes(l) /\ (l # "done" => Can(r)) /\ (l = "insert" <=> Can(r) /\ req[r].op = "add")
        BY <1>3 DEF Authorize, Answer, GoTo
    <2>2. Can(r) => req[r].op \in {"add", "assign", "remove"} /\ req[r].event \in events
        <3>1. ASSUME NEW i \in SeatOf(req[r].actor, req[r].event), req[r].op \in Permitted[roster[i].role]
              PROVE  req[r].op \in {"add", "assign", "remove"} /\ req[r].event \in events
            <4>1. roster[i] \in Member /\ roster[i].event = req[r].event /\ i \in MemberIds
                BY DEF SeatOf, Inv, TypeOK
            <4>2. roster[i].role \in Roles
                BY <4>1 DEF Member
            <4>3. roster[i] # NoMember
                BY DEF SeatOf
            <4> QED
                BY <3>1, <4>1, <4>2, <4>3 DEF Permitted, Roles, Inv, SeatsKnown
        <3> QED
            BY <3>1 DEF Can
    <2>3. EventExclusive'
        BY <1>0, <2>1, ExclusiveStep DEF Inv
    <2>4. SeatsSecured'
        BY <1>2, <2>1
    <2>5. ~Writing(r)
        BY <1>3 DEF Authorize, Inv, OnTrack
    <2> QED
        BY <1>0, <2>1, <2>2, <2>3, <2>4, <2>5, MoveStep DEF Labels
<1>4. CASE InsertNothing(r)
    <2>1. Goes("reason") /\ pc[r] = "insert"
        BY <1>4 DEF InsertNothing, GoTo
    <2>2. req[r].op = "add" /\ req[r].event \in events /\ ~Writing(r)
        BY <2>1 DEF Inv, OnTrack
    <2>3. EventExclusive'
        BY <1>0, <2>1, ExclusiveStep DEF Inv
    <2>4. SeatsSecured'
        BY <1>2, <2>1
    <2> QED
        BY <1>0, <2>1, <2>2, <2>3, <2>4, MoveStep DEF Labels
<1>5. CASE Reason(r) \/ ShowCurrent(r)
    <2>1. Goes("done") /\ pc[r] \in {"reason", "current"}
        BY <1>5 DEF Reason, ShowCurrent, Answer
    <2>2. ~Writing(r)
        BY <2>1 DEF Inv, OnTrack
    <2>3. EventExclusive'
        BY <1>0, <2>1, ExclusiveStep DEF Inv
    <2>4. SeatsSecured'
        BY <1>2, <2>1
    <2> QED
        BY <1>0, <2>1, <2>2, <2>3, <2>4, MoveStep DEF Labels
<1>6. CASE TakeSeat(r)
    <2>1. Goes("event") /\ pc[r] = "seat" /\ ~OpenSeat(r) /\ ~Occupied(r)
        BY <1>6 DEF TakeSeat, GoTo
    <2>2. req[r].op = "add" /\ req[r].event \in events /\ Writing(r)
        BY <2>1 DEF Inv, OnTrack
    <2>3. EventExclusive'
        BY <1>0, <2>1, <2>2, ExclusiveStep DEF Inv
    <2>4. SeatsSecured'
        <3>1. \A u \in Requests \ {r} : SeatTaken(u)' <=> SeatTaken(u)
            BY <1>0, <1>1, <2>1 DEF SeatTaken
        <3>2. \A u \in Requests \ {r} : SeatTaken(u) => Writing(u) /\ ~SameSeat(pend[u].new, pend[r].new)
            BY <2>1 DEF SeatTaken, OpenSeat, Inv, OnTrack
        <3> QED
            BY <1>0, <2>1, <3>1, <3>2 DEF Inv, SeatsSecured, Occupied, SameSeat
    <2> QED
        BY <1>0, <2>1, <2>2, <2>3, <2>4, MoveStep DEF Labels
<1>7. CASE ShareEvent(r)
    <2>1. Goes("commit") /\ pc[r] = "event" /\ \A u \in Requests : ~HoldsEvent(u, req[r].event)
        BY <1>7 DEF ShareEvent, GoTo
    <2>2. req[r].op = "add" /\ req[r].event \in events /\ Writing(r)
        BY <2>1 DEF Inv, OnTrack
    <2>3. EventExclusive'
        BY <1>0, <2>1, <2>2, ExclusiveStep DEF Inv
    <2>4. SeatsSecured'
        <3>1. \A u \in Requests : SeatTaken(u)' <=> SeatTaken(u)
            BY <1>0, <1>1, <2>1, <2>2 DEF SeatTaken
        <3> QED
            BY <1>0, <3>1 DEF Inv, SeatsSecured, Occupied
    <2> QED
        BY <1>0, <2>1, <2>2, <2>3, <2>4, MoveStep DEF Labels
<1>8. CASE Lock(r)
    <2>1. /\ Goes("write") /\ pc[r] = "lock"
          /\ \A u \in Requests : ~HoldsEvent(u, req[r].event) /\ ~SharesEvent(u, req[r].event)
        BY <1>8 DEF Lock, GoTo
    <2>2. req[r].op \in {"assign", "remove"} /\ req[r].event \in events /\ ~Writing(r)
        BY <2>1 DEF Inv, OnTrack
    <2>3. EventExclusive'
        BY <1>0, <2>1, <2>2, ExclusiveStep DEF Inv
    <2>4. SeatsSecured'
        BY <1>2, <2>1
    <2> QED
        BY <1>0, <2>1, <2>2, <2>3, <2>4, MoveStep DEF Labels
<1>9. CASE WriteMiss(r)
    <2>1. Goes("diagnose") /\ pc[r] = "write" /\ ~Matches(r)
        BY <1>9 DEF WriteMiss, GoTo
    <2>2. req[r].op \in {"assign", "remove"} /\ req[r].event \in events /\ ~Writing(r)
        BY <2>1 DEF Inv, OnTrack
    <2>3. EventExclusive'
        BY <1>0, <2>1, <2>2, ExclusiveStep DEF Inv
    <2>4. SeatsSecured'
        BY <1>2, <2>1
    <2> QED
        BY <1>0, <2>1, <2>2, <2>3, <2>4, MoveStep DEF Labels
<1>10. CASE Diagnose(r)
    <2>1. PICK l \in {"current", "done"} : Goes(l) /\ pc[r] = "diagnose"
        BY <1>10 DEF Diagnose, GoTo, Answer
    <2>2. req[r].op \in {"assign", "remove"} /\ req[r].event \in events /\ ~Writing(r)
        BY <2>1 DEF Inv, OnTrack
    <2>3. EventExclusive'
        BY <1>0, <2>1, <2>2, ExclusiveStep DEF Inv
    <2>4. SeatsSecured'
        BY <1>2, <2>1
    <2> QED
        BY <1>0, <2>1, <2>2, <2>3, <2>4, MoveStep DEF Labels
<1> QED
    BY <1>0, <1>3, <1>4, <1>5, <1>6, <1>7, <1>8, <1>9, <1>10

\* A transaction that is rolled back takes its tuple and its locks with it.
LEMMA LeaveInv ==
    ASSUME Inv, NEW r \in Requests, RejectSeat(r) \/ HangUp(r)
    PROVE  Inv' /\ UNCHANGED <<events, roster>>
<1>1. /\ UNCHANGED <<events, roster, audit, users, req, shown>>
      /\ pc' = [pc EXCEPT ![r] = "done"]
      /\ pend' = [pend EXCEPT ![r] = NoWrite]
    BY DEF RejectSeat, HangUp, Answer, db
<1>2. reply' \in [Requests -> Replies]
    BY DEF RejectSeat, HangUp, Answer, Inv, TypeOK, Replies
<1>3. TypeOK'
    BY <1>1, <1>2 DEF Inv, TypeOK
<1>4. /\ pc'[r] = "done" /\ pend'[r] = NoWrite
      /\ \A u \in Requests \ {r} : pc'[u] = pc[u] /\ pend'[u] = pend[u]
    BY <1>1 DEF Inv, TypeOK
<1>5. EventExclusive'
    BY <1>1, ExclusiveStep DEF Inv
<1>6. OnTrack'
    BY <1>1, <1>4 DEF Inv, OnTrack, Writing
<1>7. SeatsKnown' /\ OneSeatPerUser' /\ AtLeastOneAdmin'
    BY <1>1 DEF Inv, SeatsKnown, OneSeatPerUser, AtLeastOneAdmin
<1>8. WritersApart'
    BY <1>1, <1>4 DEF Inv, WritersApart, Writing
<1>9. SeatsSecured'
    BY <1>1, <1>4 DEF Inv, SeatsSecured, SeatTaken, Occupied
<1>10. MissStands'
    BY <1>1, <1>4 DEF Inv, MissStands, Matches, Present, KeepsAdmin
<1>11. \A u \in Requests : Writing(u)' => Committable(u)'
    <2> SUFFICES ASSUME NEW u \in Requests, Writing(u)' PROVE Committable(u)'
        OBVIOUS
    <2>1. u # r /\ Writing(u)
        BY <1>4 DEF Writing
    <2>2. Committable(u)
        BY <2>1 DEF Inv
    <2> QED
        BY <1>1, <1>4, <2>1, <2>2 DEF Committable, Present, KeepsAdmin, NewRow
<1> QED
    BY <1>1, <1>3, <1>5, <1>6, <1>7, <1>8, <1>9, <1>10, <1>11 DEF Inv

\* A transaction writes its tuple: nobody else writes that row, and the tuple
\* may be committed as things stand.
LEMMA BeginInv ==
    ASSUME Inv, NEW r \in Requests, Found(r) \/ Insert(r) \/ WriteRow(r)
    PROVE  Inv' /\ UNCHANGED <<events, roster>>
<1> DEFINE Puts(w, l) == pend' = [pend EXCEPT ![r] = w] /\ pc' = [pc EXCEPT ![r] = l]
<1>1. UNCHANGED <<events, roster, audit, users, req, reply, shown>>
    BY DEF Found, Insert, WriteRow, GoTo, db
<1>2. ASSUME NEW w \in Write, NEW l \in {"seat", "commit"}, Puts(w, l),
             pc[r] \in {"found", "insert", "write"}, EventExclusive',
             \A u \in Requests \ {r} : Writing(u) =>
                /\ pend[u].id # w.id
                /\ req[r].op = "found" /\ req[u].op = "found" => pend[u].new.event # w.new.event,
             Committable(r)',
             req[r].op = "add" <=> l = "seat",
             req[r].op # "found" => req[r].event \in events
      PROVE  Inv'
    <2>1. /\ pc'[r] = l /\ pend'[r] = w
          /\ \A u \in Requests \ {r} : pc'[u] = pc[u] /\ pend'[u] = pend[u]
        BY <1>2 DEF Inv, TypeOK
    <2>2. w # NoWrite
        BY RosterAssumption
    <2>3. TypeOK'
        BY <1>1, <1>2 DEF Inv, TypeOK
    <2>4. \A u \in Requests : Writing(u)' <=> u = r \/ Writing(u)
        BY <2>1, <2>2 DEF Writing
    <2>5. OnTrack'
        BY <1>1, <1>2, <2>1, <2>4 DEF Inv, OnTrack
    <2>6. SeatsKnown' /\ OneSeatPerUser' /\ AtLeastOneAdmin'
        BY <1>1 DEF Inv, SeatsKnown, OneSeatPerUser, AtLeastOneAdmin
    <2>7. WritersApart'
        BY <1>1, <1>2, <2>1, <2>4 DEF Inv, WritersApart
    <2>8. \A u \in Requests : SeatTaken(u)' <=> u # r /\ SeatTaken(u)
        BY <1>1, <1>2, <2>1 DEF SeatTaken
    <2>9. SeatsSecured'
        BY <1>1, <2>1, <2>8 DEF Inv, SeatsSecured, Occupied
    <2>10. MissStands'
        BY <1>1, <1>2, <2>1 DEF Inv, MissStands, Matches, Present, KeepsAdmin
    <2>11. \A u \in Requests : Writing(u)' => Committable(u)'
        <3> SUFFICES ASSUME NEW u \in Requests \ {r}, Writing(u) PROVE Committable(u)'
            BY <1>2, <2>4
        <3>1. Committable(u)
            BY DEF Inv
        <3> QED
            BY <1>1, <2>1, <3>1 DEF Committable, Present, KeepsAdmin, NewRow
    <2> QED
        BY <1>2, <2>3, <2>5, <2>6, <2>7, <2>9, <2>10, <2>11 DEF Inv
<1>3. ~Writing(r)
    BY DEF Found, Insert, WriteRow, Inv, OnTrack
<1>4. CASE Found(r)
    <2>1. PICK e \in Events \ events, i \in MemberIds :
            /\ FreshId(i)
            /\ \A u \in Requests : Writing(u) /\ pend[u].new # NoMember => pend[u].new.event # e
            /\ pend' = [pend EXCEPT ![r] =
                 [id |-> i, new |-> [event |-> e, user |-> req[r].actor, role |-> "admin", version |-> 1]]]
        BY <1>4 DEF Found
    <2> DEFINE m == [event |-> e, user |-> req[r].actor, role |-> "admin", version |-> 1]
               w == [id |-> i, new |-> m]
    <2>2. m \in Member /\ m.event = e /\ m.role = "admin" /\ m.version = 1
        BY RequestType DEF Member, Input, Inv, Roles
    <2>3. w \in Write /\ w.id = i /\ w.new = m
        BY <2>2 DEF Write
    <2>4. pc[r] = "found" /\ pc' = [pc EXCEPT ![r] = "commit"]
        BY <1>4 DEF Found, GoTo
    <2>5. req[r].op = "found"
        BY <2>4 DEF Inv, OnTrack
    <2>6. pend' = [pend EXCEPT ![r] = w]
        BY <2>1
    <2> HIDE DEF m, w
    <2>7. EventExclusive'
        BY <1>1, <2>4, <2>5, ExclusiveStep DEF Inv
    <2>8. ASSUME NEW u \in Requests \ {r}, Writing(u)
          PROVE  /\ pend[u].id # w.id
                 /\ req[r].op = "found" /\ req[u].op = "found" => pend[u].new.event # w.new.event
        <3>1. pend[u].id # w.id
            BY <2>1, <2>3, <2>8 DEF FreshId
        <3>2. req[u].op = "found" => pend[u].new \in Member
            BY <2>8 DEF Inv, Committable
        <3> QED
            BY <2>1, <2>2, <2>3, <2>8, <3>1, <3>2, NoMemberAssumption
    <2>9. pend'[r] = w
        BY <2>6 DEF Inv, TypeOK
    <2>10. roster[i] = NoMember
        BY <2>1, FreshIdFree DEF Inv
    <2>11. Committable(r)'
        BY <1>1, <2>1, <2>2, <2>3, <2>5, <2>9, <2>10 DEF Committable
    <2> QED
        BY <1>1, <1>2, <2>3, <2>4, <2>5, <2>6, <2>7, <2>8, <2>11
<1>5. CASE Insert(r)
    <2>1. PICK i \in MemberIds : FreshId(i) /\ pend' = [pend EXCEPT ![r] = [id |-> i, new |-> NewRow(r)]]
        BY <1>5 DEF Insert
    <2> DEFINE w == [id |-> i, new |-> NewRow(r)]
    <2>2. w \in Write /\ w.id = i /\ w.new = NewRow(r)
        BY NewRowType DEF Write, Inv
    <2>3. pc[r] = "insert" /\ pc' = [pc EXCEPT ![r] = "seat"]
        BY <1>5 DEF Insert, GoTo
    <2>4. req[r].op = "add" /\ req[r].event \in events
        BY <2>3 DEF Inv, OnTrack
    <2>5. pend' = [pend EXCEPT ![r] = w]
        BY <2>1
    <2> HIDE DEF w
    <2>6. EventExclusive'
        BY <1>1, <2>3, <2>4, ExclusiveStep DEF Inv
    <2>7. \A u \in Requests \ {r} : Writing(u) => pend[u].id # w.id
        BY <2>1, <2>2 DEF FreshId
    <2>8. pend'[r] = w
        BY <2>5 DEF Inv, TypeOK
    <2>9. roster[i] = NoMember
        BY <2>1, FreshIdFree DEF Inv
    <2>10. Committable(r)'
        BY <1>1, <2>2, <2>4, <2>8, <2>9 DEF Committable, NewRow
    <2> QED
        BY <1>1, <1>2, <2>2, <2>3, <2>4, <2>5, <2>6, <2>7, <2>10
<1>6. CASE WriteRow(r)
    <2> DEFINE n == IF req[r].op = "remove" THEN NoMember ELSE Ranked(roster[req[r].id], req[r].role)
               w == [id |-> req[r].id, new |-> n]
    <2>1. pc[r] = "write" /\ pc' = [pc EXCEPT ![r] = "commit"] /\ pend' = [pend EXCEPT ![r] = w] /\ Matches(r)
        BY <1>6 DEF WriteRow, GoTo
    <2>2. req[r].op \in {"assign", "remove"} /\ req[r].event \in events
        BY <2>1 DEF Inv, OnTrack
    <2>3. req[r].id \in MemberIds /\ req[r].role \in Roles /\ req[r].event \in Events
        BY RequestType DEF Inv, Input
    <2>4. roster[req[r].id] \in Member
        BY <2>1, <2>3 DEF Matches, Present, Inv, TypeOK
    <2>5. n \in Member \cup {NoMember}
        BY <2>3, <2>4, RankedType
    <2>6. w \in Write /\ w.id = req[r].id /\ w.new = n
        BY <2>3, <2>5 DEF Write
    <2>7. Committable(r)'
        <3>1. pend'[r] = w
            BY <2>1 DEF Inv, TypeOK
        <3>2. Present(r)' /\ KeepsAdmin(r)'
            BY <1>1, <2>1 DEF Matches, Present, KeepsAdmin
        <3> HIDE DEF w
        <3> QED
            BY <1>1, <2>2, <2>6, <3>1, <3>2 DEF Committable
    <2>8. EventExclusive'
        BY <1>1, <2>1, <2>2, ExclusiveStep DEF Inv
    <2>9. ASSUME NEW u \in Requests \ {r}, Writing(u) PROVE pend[u].id # w.id
        <3>1. HoldsEvent(r, req[r].event)
            BY <2>1, <2>2 DEF HoldsEvent
        <3>2. pc[u] \in {"seat", "event", "commit"} /\ Committable(u)
            BY <2>9 DEF Inv, OnTrack
        <3>3. CASE req[u].op \in {"assign", "remove"}
            <4>1. pc[u] = "commit"
                BY <3>2, <3>3 DEF Inv, OnTrack
            <4>2. req[u].event # req[r].event
                BY <2>3, <3>1, <3>3, <4>1 DEF Inv, EventExclusive, HoldsEvent
            <4> QED
                BY <2>1, <2>6, <3>2, <3>3, <4>2 DEF Committable, Matches, Present
        <3>4. CASE req[u].op \in {"add", "found"}
            BY <2>1, <2>6, <3>2, <3>4 DEF Committable, Matches, Present
        <3> QED
            BY <3>3, <3>4, RequestType DEF Inv, Input
    <2> HIDE DEF w
    <2> QED
        BY <1>1, <1>2, <2>1, <2>2, <2>6, <2>7, <2>8, <2>9
<1> QED
    BY <1>1, <1>4, <1>5, <1>6

(***************************************************************************)
(* Commits.                                                                *)
(***************************************************************************)

\* While r holds the events row of e, somebody else's commit touches no seat
\* of e: an assignment or removal would have to hold the row too, an add to
\* share it, and a founding concerns an event r cannot know.
LEMMA CommitFreezes ==
    ASSUME Inv, NEW u \in Requests, pc[u] = "commit", Apply(u),
           NEW r \in Requests \ {u}, NEW e \in Events, HoldsEvent(r, e)
    PROVE  \A j \in MemberIds :
              \/ roster[j] # NoMember /\ roster[j].event = e
              \/ roster'[j] # NoMember /\ roster'[j].event = e
              => roster'[j] = roster[j]
<1> SUFFICES ASSUME NEW j \in MemberIds,
                    \/ roster[j] # NoMember /\ roster[j].event = e
                    \/ roster'[j] # NoMember /\ roster'[j].event = e,
                    roster'[j] # roster[j]
             PROVE  FALSE
    OBVIOUS
<1>1. Writing(u) /\ Committable(u)
    BY DEF Inv, OnTrack
<1>2. pend[u] \in Write
    BY <1>1 DEF Inv, TypeOK, Writing
<1>3. roster' = [roster EXCEPT ![pend[u].id] = pend[u].new]
    BY DEF Apply
<1>4. j = pend[u].id /\ roster'[j] = pend[u].new
    BY <1>2, <1>3 DEF Inv, TypeOK, Write
<1>5. req[r].event = e /\ e \in events
    BY DEF HoldsEvent, Inv, OnTrack
<1>6. ~HoldsEvent(u, e) /\ ~SharesEvent(u, e)
    BY DEF Inv, EventExclusive
<1>7. CASE req[u].op = "add"
    BY <1>1, <1>4, <1>6, <1>7 DEF Committable, NewRow, SharesEvent
<1>8. CASE req[u].op = "found"
    BY <1>1, <1>4, <1>5, <1>8 DEF Committable
<1>9. CASE req[u].op \in {"assign", "remove"}
    <2>1. req[u].event # e
        BY <1>6, <1>9 DEF HoldsEvent
    <2>2. roster[j] # NoMember /\ roster[j].event # e
        BY <1>1, <1>4, <1>9, <2>1 DEF Committable, Present
    <2>3. roster[j] \in Member /\ req[u].role \in Roles
        BY <2>2, RequestType DEF Inv, TypeOK, Input
    <2>4. Ranked(roster[j], req[u].role).event # e
        BY <2>2, <2>3, RankedType
    <2> QED
        BY <1>1, <1>4, <1>9, <2>2, <2>4 DEF Committable
<1> QED
    BY <1>7, <1>8, <1>9, RequestType DEF Inv, Input

\* So the event's admins and what r's write would find stay as they are.
LEMMA GuardStands ==
    ASSUME Inv, NEW u \in Requests, pc[u] = "commit", Apply(u), UNCHANGED req,
           NEW r \in Requests \ {u}, HoldsEvent(r, req[r].event)
    PROVE  /\ Admins(roster', req[r].event) = Admins(roster, req[r].event)
           /\ Seats(roster', req[r].event) = Seats(roster, req[r].event)
           /\ Present(r)' <=> Present(r)
           /\ Present(r) => roster'[req[r].id] = roster[req[r].id]
<1>1. req[r].id \in MemberIds /\ req[r].event \in Events
    BY RequestType DEF Inv, Input
<1>2. \A j \in MemberIds :
              \/ roster[j] # NoMember /\ roster[j].event = req[r].event
              \/ roster'[j] # NoMember /\ roster'[j].event = req[r].event
              => roster'[j] = roster[j]
    BY <1>1, CommitFreezes
<1>3. Admins(roster', req[r].event) = Admins(roster, req[r].event)
    BY <1>2 DEF Admins
<1>4. Seats(roster', req[r].event) = Seats(roster, req[r].event)
    <2>1. {j \in MemberIds : roster'[j] # NoMember /\ roster'[j].event = req[r].event}
          = {j \in MemberIds : roster[j] # NoMember /\ roster[j].event = req[r].event}
        BY <1>2
    <2> QED
        BY <1>2, <2>1 DEF Seats
<1>5. (Present(r)' <=> Present(r)) /\ (Present(r) => roster'[req[r].id] = roster[req[r].id])
    BY <1>1, <1>2 DEF Present
<1> QED
    BY <1>3, <1>4, <1>5

\* What a commit does to the one row it changes.
LEMMA CommitKinds ==
    ASSUME Inv, NEW r \in Requests, pc[r] = "commit", Apply(r)
    PROVE  LET i == pend[r].id  old == roster[pend[r].id]  new == pend[r].new IN
           /\ i \in MemberIds /\ new \in Member \cup {NoMember}
           /\ roster' = [roster EXCEPT ![i] = new]
           /\ \/ /\ req[r].op = "found" /\ old = NoMember /\ new \in Member
                 /\ new.role = "admin" /\ new.version = 1 /\ new.event \notin events
                 /\ events' = events \cup {new.event}
              \/ /\ req[r].op = "add" /\ old = NoMember /\ new = NewRow(r) /\ new \in Member
                 /\ new.version = 1 /\ new.event \in events /\ ~Occupied(r) /\ UNCHANGED events
              \/ /\ req[r].op = "assign" /\ old \in Member /\ old # NoMember /\ i = req[r].id
                 /\ old.event = req[r].event /\ req[r].role \in Roles
                 /\ new = Ranked(old, req[r].role) /\ new \in Member
                 /\ new.event = old.event /\ new.user = old.user /\ new.role = req[r].role
                 /\ KeepsAdmin(r) /\ UNCHANGED events
              \/ /\ req[r].op = "remove" /\ old \in Member /\ old # NoMember /\ i = req[r].id
                 /\ old.event = req[r].event /\ new = NoMember
                 /\ KeepsAdmin(r) /\ UNCHANGED events
<1>1. Writing(r) /\ Committable(r)
    BY DEF Inv, OnTrack
<1>2. pend[r] \in Write
    BY <1>1 DEF Inv, TypeOK, Writing
<1>3. roster' = [roster EXCEPT ![pend[r].id] = pend[r].new]
    BY DEF Apply
<1>4. roster[pend[r].id] \in Member \cup {NoMember}
    BY <1>2 DEF Write, Inv, TypeOK
<1>5. req[r] \in Input
    BY RequestType DEF Inv
<1>6. CASE req[r].op = "found"
    BY <1>1, <1>2, <1>3, <1>6 DEF Committable, Write, Apply
<1>7. CASE req[r].op = "add"
    <2>1. ~Occupied(r) /\ req[r].event \in events
        BY <1>7 DEF Inv, SeatsSecured, SeatTaken, OnTrack
    <2>2. NewRow(r) \in Member /\ NewRow(r).version = 1 /\ NewRow(r).event = req[r].event
        BY NewRowType DEF Inv, NewRow
    <2>3. events' = events
        BY <1>7 DEF Apply
    <2> QED
        BY <1>1, <1>2, <1>3, <1>7, <2>1, <2>2, <2>3 DEF Committable, Write
<1>8. CASE req[r].op = "assign"
    <2>1. roster[pend[r].id] \in Member /\ roster[pend[r].id] # NoMember /\ pend[r].id = req[r].id
          /\ roster[pend[r].id].event = req[r].event
        BY <1>1, <1>4, <1>8 DEF Committable, Present
    <2>2. req[r].role \in Roles
        BY <1>5 DEF Input
    <2>3. pend[r].new = Ranked(roster[pend[r].id], req[r].role) /\ KeepsAdmin(r)
        BY <1>1, <1>8, <2>1 DEF Committable
    <2>4. events' = events
        BY <1>8 DEF Apply
    <2> QED
        BY <1>2, <1>3, <1>8, <2>1, <2>2, <2>3, <2>4, RankedType DEF Write
<1>9. CASE req[r].op = "remove"
    <2>1. roster[pend[r].id] \in Member /\ roster[pend[r].id] # NoMember /\ pend[r].id = req[r].id
          /\ roster[pend[r].id].event = req[r].event
        BY <1>1, <1>4, <1>9 DEF Committable, Present
    <2>2. pend[r].new = NoMember /\ KeepsAdmin(r)
        BY <1>1, <1>9, <2>1 DEF Committable
    <2>3. events' = events
        BY <1>9 DEF Apply
    <2> QED
        BY <1>2, <1>3, <1>9, <2>1, <2>2, <2>3 DEF Write
<1> QED
    BY <1>5, <1>6, <1>7, <1>8, <1>9 DEF Input

\* A commit leaves every event governed: a new event brings its admin, and a
\* demotion or removal leaves the other admin its guard had seen.
LEMMA CommitGoverns ==
    ASSUME Inv, NEW r \in Requests, pc[r] = "commit", Apply(r)
    PROVE  AtLeastOneAdmin'
<1> DEFINE i == pend[r].id
           old == roster[i]
           new == pend[r].new
<1>1. i \in MemberIds /\ roster' = [roster EXCEPT ![i] = new] /\ roster \in [MemberIds -> Member \cup {NoMember}]
    BY CommitKinds DEF Inv, TypeOK
<1>2. roster'[i] = new /\ \A j \in MemberIds \ {i} : roster'[j] = roster[j]
    BY <1>1
<1>3. ASSUME NEW e \in events, i \notin Admins(roster, e) PROVE Admins(roster', e) # {}
    <2>1. Admins(roster, e) \subseteq Admins(roster', e)
        BY <1>2, <1>3 DEF Admins
    <2> QED
        BY <2>1 DEF Inv, AtLeastOneAdmin, Governed
<1>4. ASSUME NEW e, i \in Admins(roster', e) PROVE Admins(roster', e) # {}
    BY <1>4
<1>5. CASE old = NoMember
    <2>1. \A e \in events : Admins(roster', e) # {}
        BY <1>3, <1>5 DEF Admins
    <2>2. events' = events \/ (events' = events \cup {new.event} /\ new # NoMember /\ new.role = "admin")
        BY <1>5, CommitKinds, NoMemberAssumption
    <2>3. new # NoMember /\ new.role = "admin" => i \in Admins(roster', new.event)
        BY <1>1, <1>2 DEF Admins
    <2> QED
        BY <2>1, <2>2, <2>3 DEF AtLeastOneAdmin, Governed
<1>6. CASE old # NoMember
    <2>1. /\ events' = events /\ old.event = req[r].event /\ i = req[r].id /\ KeepsAdmin(r)
          /\ \/ req[r].op = "remove"
             \/ new # NoMember /\ new.role = req[r].role /\ new.event = old.event
        BY <1>6, CommitKinds, NoMemberAssumption
    <2>2. \A e \in events : e # old.event => i \notin Admins(roster, e)
        BY DEF Admins
    <2>3. CASE old.role # "admin"
        <3>1. \A e \in events : i \notin Admins(roster, e)
            BY <2>3 DEF Admins
        <3> QED
            BY <1>3, <2>1, <3>1 DEF AtLeastOneAdmin, Governed
    <2>4. CASE req[r].op = "assign" /\ req[r].role = "admin"
        <3>1. i \in Admins(roster', old.event)
            BY <1>1, <1>2, <2>1, <2>4 DEF Admins
        <3> QED
            BY <1>3, <2>1, <2>2, <3>1 DEF AtLeastOneAdmin, Governed
    <2>5. CASE Admins(roster, old.event) \ {i} # {}
        <3>1. Admins(roster, old.event) \ {i} \subseteq Admins(roster', old.event)
            BY <1>2 DEF Admins
        <3> QED
            BY <1>3, <2>1, <2>2, <2>5, <3>1 DEF AtLeastOneAdmin, Governed
    <2> QED
        BY <2>1, <2>3, <2>4, <2>5 DEF KeepsAdmin
<1> QED
    BY <1>5, <1>6

\* A commit seats nobody twice, and takes no seat another transaction has
\* been told is free.
LEMMA CommitSeats ==
    ASSUME Inv, NEW r \in Requests, pc[r] = "commit", Apply(r)
    PROVE  /\ OneSeatPerUser'
           /\ \A j \in MemberIds : roster'[j] # NoMember => roster'[j].event \in events'
           /\ \A u \in Requests \ {r} : SeatTaken(u) =>
                \A j \in MemberIds : roster'[j] # NoMember => ~SameSeat(roster'[j], pend[u].new)
<1> DEFINE i == pend[r].id
           old == roster[i]
           new == pend[r].new
<1>1. i \in MemberIds /\ roster' = [roster EXCEPT ![i] = new] /\ roster \in [MemberIds -> Member \cup {NoMember}]
    BY CommitKinds DEF Inv, TypeOK
<1>2. roster'[i] = new /\ \A j \in MemberIds \ {i} : roster'[j] = roster[j]
    BY <1>1
<1>3. events \subseteq events'
    BY CommitKinds
<1>4. new # NoMember => new.event \in events'
    BY <1>3, CommitKinds DEF Inv, SeatsKnown
<1>5. ASSUME NEW j \in MemberIds \ {i}, new # NoMember, roster[j] # NoMember PROVE ~SameSeat(new, roster[j])
    <2>1. CASE req[r].op = "add"
        BY <1>5, <2>1, CommitKinds DEF Occupied, SameSeat
    <2>2. CASE req[r].op = "found"
        BY <1>5, <2>2, CommitKinds DEF SameSeat, Inv, SeatsKnown
    <2>3. CASE req[r].op = "assign"
        <3>1. old # NoMember /\ new.event = old.event /\ new.user = old.user
            BY <2>3, CommitKinds
        <3>2. ~SameSeat(old, roster[j])
            BY <1>1, <1>5, <3>1 DEF Inv, OneSeatPerUser, OneSeatEach
        <3> QED
            BY <3>1, <3>2 DEF SameSeat
    <2> QED
        BY <1>5, <2>1, <2>2, <2>3, CommitKinds
<1>6. OneSeatPerUser'
    <2> SUFFICES ASSUME NEW a \in MemberIds, NEW b \in MemberIds, a # b, roster'[a] # NoMember, roster'[b] # NoMember
                 PROVE  ~SameSeat(roster'[a], roster'[b])
        BY DEF OneSeatPerUser, OneSeatEach
    <2>1. CASE a = i
        BY <1>2, <1>5, <2>1
    <2>2. CASE b = i
        BY <1>2, <1>5, <2>2 DEF SameSeat
    <2>3. CASE a # i /\ b # i
        BY <1>2, <2>3 DEF Inv, OneSeatPerUser, OneSeatEach
    <2> QED
        BY <2>1, <2>2, <2>3
<1>7. ASSUME NEW u \in Requests \ {r}, SeatTaken(u), NEW j \in MemberIds, roster'[j] # NoMember
      PROVE  ~SameSeat(roster'[j], pend[u].new)
    <2>1. ~Occupied(u)
        BY <1>7 DEF Inv, SeatsSecured
    <2>2. CASE j # i \/ roster'[j] = roster[j]
        BY <1>2, <1>7, <2>1, <2>2 DEF Occupied
    <2>3. CASE j = i /\ req[r].op = "add"
        BY <1>2, <1>7, <2>3 DEF Inv, SeatsSecured, SeatTaken, SameSeat
    <2>4. CASE j = i /\ req[r].op = "found"
        <3>1. pend[u].new.event \in events
            <4>1. Committable(u) /\ req[u].event \in events /\ req[u].op = "add"
                BY <1>7 DEF Inv, OnTrack, SeatTaken
            <4> QED
                BY <4>1 DEF Committable, NewRow
        <3> QED
            BY <1>2, <2>4, <3>1, CommitKinds DEF SameSeat
    <2>5. CASE j = i /\ req[r].op = "assign"
        <3>1. old # NoMember /\ new.event = old.event /\ new.user = old.user
            BY <2>5, CommitKinds
        <3>2. ~SameSeat(old, pend[u].new)
            BY <1>1, <2>1, <3>1 DEF Occupied
        <3> QED
            BY <1>2, <2>5, <3>1, <3>2 DEF SameSeat
    <2> QED
        BY <1>2, <1>7, <2>2, <2>3, <2>4, <2>5, CommitKinds
<1>8. \A j \in MemberIds : roster'[j] # NoMember => roster'[j].event \in events'
    BY <1>2, <1>3, <1>4 DEF Inv, SeatsKnown
<1> QED
    BY <1>6, <1>7, <1>8

\* A commit keeps the invariant: what the other transactions rely on is not
\* what it changes.
LEMMA CommitInv ==
    ASSUME Inv, NEW r \in Requests, Commit(r) \/ HangUpInCommit(r)
    PROVE  Inv'
<1>1. /\ pc[r] = "commit" /\ Apply(r)
      /\ UNCHANGED <<users, req, shown>>
      /\ pc' = [pc EXCEPT ![r] = "done"]
      /\ pend' = [pend EXCEPT ![r] = NoWrite]
    BY DEF Commit, HangUpInCommit, Answer, Apply
<1>2. /\ pc'[r] = "done" /\ pend'[r] = NoWrite
      /\ \A u \in Requests \ {r} : pc'[u] = pc[u] /\ pend'[u] = pend[u]
    BY <1>1 DEF Inv, TypeOK
<1> DEFINE i == pend[r].id
           new == pend[r].new
           entry == [by |-> r, action |-> ActionName(r), before |-> RoleIn(roster[i]), after |-> RoleIn(new)]
<1>3. /\ i \in MemberIds /\ new \in Member \cup {NoMember}
      /\ roster' = [roster EXCEPT ![i] = new]
      /\ events \subseteq events' /\ events' \subseteq Events
    <2>1. events' \subseteq Events
        BY <1>1, CommitKinds DEF Inv, TypeOK, Member
    <2> QED
        BY <1>1, <2>1, CommitKinds
<1>4. audit' = [audit EXCEPT ![i] = Append(@, entry)]
    BY <1>1 DEF Apply
<1>5. entry \in AuditEntry
    <2>1. RoleIn(roster[i]) \in Roles \cup {"none"} /\ RoleIn(new) \in Roles \cup {"none"}
        BY <1>3 DEF RoleIn, Inv, TypeOK, Member
    <2>2. ActionName(r) \in {"create", "update", "delete"}
        BY DEF ActionName
    <2> QED
        BY <2>1, <2>2 DEF AuditEntry
<1> HIDE DEF entry
<1>6. audit' \in [MemberIds -> Seq(AuditEntry)] /\ audit'[i] # << >>
    <2>1. audit \in [MemberIds -> Seq(AuditEntry)] /\ audit[i] \in Seq(AuditEntry)
        BY <1>3 DEF Inv, TypeOK
    <2>2. Append(audit[i], entry) \in Seq(AuditEntry) /\ Append(audit[i], entry) # << >>
        BY <1>5, <2>1
    <2>3. audit' = [audit EXCEPT ![i] = Append(audit[i], entry)]
        BY <1>4
    <2> QED
        BY <1>3, <2>1, <2>2, <2>3
<1>7. reply' \in [Requests -> Replies]
    BY DEF Commit, HangUpInCommit, Answer, Success, Inv, TypeOK, Replies
<1>8. TypeOK'
    BY <1>1, <1>3, <1>6, <1>7 DEF Inv, TypeOK
<1>9. OnTrack'
    BY <1>1, <1>2, <1>3 DEF Inv, OnTrack, Writing
<1>10. SeatsKnown'
    <2>1. \A j \in MemberIds \ {i} : roster'[j] = roster[j] /\ audit'[j] = audit[j]
        BY <1>3, <1>4 DEF Inv, TypeOK
    <2>2. \A j \in MemberIds : roster'[j] # NoMember => audit'[j] # << >>
        BY <1>6, <2>1 DEF Inv, SeatsKnown
    <2> QED
        BY <1>1, <2>2, CommitSeats DEF SeatsKnown
<1>11. EventExclusive'
    BY <1>1, ExclusiveStep DEF Inv
<1>12. WritersApart'
    BY <1>1, <1>2 DEF Inv, WritersApart, Writing
<1>13. SeatsSecured'
    <2>1. \A u \in Requests : SeatTaken(u)' => u # r /\ SeatTaken(u)
        BY <1>1, <1>2 DEF SeatTaken
    <2>2. \A u \in Requests : SeatTaken(u)' => ~Occupied(u)'
        BY <1>1, <1>2, <2>1, CommitSeats DEF Occupied
    <2> QED
        BY <1>2, <2>1, <2>2 DEF Inv, SeatsSecured
<1>14. MissStands'
    <2> SUFFICES ASSUME NEW u \in Requests, pc'[u] = "diagnose" PROVE ~Matches(u)'
        BY DEF MissStands
    <2>1. u # r /\ pc[u] = "diagnose" /\ req[u].op \in {"assign", "remove"} /\ ~Matches(u)
        BY <1>2 DEF Inv, OnTrack, MissStands
    <2>2. HoldsEvent(u, req[u].event)
        BY <2>1 DEF HoldsEvent
    <2>3. /\ Admins(roster', req[u].event) = Admins(roster, req[u].event)
          /\ Present(u)' <=> Present(u)
          /\ Present(u) => roster'[req[u].id] = roster[req[u].id]
        BY <1>1, <2>1, <2>2, GuardStands
    <2> QED
        BY <1>1, <2>1, <2>3 DEF Matches, KeepsAdmin
<1>15. \A u \in Requests : Writing(u)' => Committable(u)'
    <2> SUFFICES ASSUME NEW u \in Requests, Writing(u)' PROVE Committable(u)'
        OBVIOUS
    <2>1. u # r /\ Writing(u) /\ Writing(r)
        BY <1>1, <1>2 DEF Writing, Inv, OnTrack
    <2>2. Committable(u) /\ pend[u].id # i
        BY <2>1 DEF Inv, WritersApart
    <2>3. pend[u].id \in MemberIds
        BY <2>1 DEF Inv, TypeOK, Writing, Write
    <2>4. roster'[pend[u].id] = roster[pend[u].id]
        BY <1>3, <2>2, <2>3 DEF Inv, TypeOK
    <2>5. CASE req[u].op = "add"
        BY <1>1, <1>2, <2>1, <2>2, <2>4, <2>5 DEF Committable, NewRow
    <2>6. CASE req[u].op = "found"
        <3>1. pend[u].new.event \notin events'
            BY <1>1, <2>1, <2>2, <2>6, CommitKinds DEF Inv, WritersApart, Committable
        <3> QED
            BY <1>1, <1>2, <2>1, <2>2, <2>4, <2>6, <3>1 DEF Committable
    <2>7. CASE req[u].op \in {"assign", "remove"}
        <3>1. pc[u] = "commit"
            BY <2>1, <2>7 DEF Inv, OnTrack
        <3>2. HoldsEvent(u, req[u].event)
            BY <2>7, <3>1 DEF HoldsEvent
        <3>3. /\ Admins(roster', req[u].event) = Admins(roster, req[u].event)
              /\ Present(u)' <=> Present(u)
              /\ Present(u) => roster'[req[u].id] = roster[req[u].id]
            BY <1>1, <2>1, <3>2, GuardStands
        <3>4. Present(u) /\ KeepsAdmin(u)
            BY <2>2, <2>7 DEF Committable
        <3>5. KeepsAdmin(u)'
            BY <1>1, <3>3, <3>4 DEF KeepsAdmin
        <3> QED
            BY <1>1, <1>2, <2>1, <2>2, <2>7, <3>3, <3>4, <3>5 DEF Committable
    <2> QED
        BY <2>5, <2>6, <2>7, RequestType DEF Inv, Input
<1>16. OneSeatPerUser' /\ AtLeastOneAdmin'
    BY <1>1, CommitSeats, CommitGoverns
<1> QED
    BY <1>8, <1>9, <1>10, <1>11, <1>12, <1>13, <1>14, <1>15, <1>16 DEF Inv

\* Somebody signs in, or nothing happens.
LEMMA IdleInv == ASSUME Inv, (\E u \in Users : SignIn(u)) \/ UNCHANGED vars PROVE Inv' /\ UNCHANGED <<events, roster>>
<1>1. UNCHANGED <<events, roster, audit, req, pc, pend, reply, shown>>
    BY DEF SignIn, vars, db
<1>2. users' \subseteq Users
    BY DEF SignIn, vars, Inv, TypeOK
<1>3. TypeOK'
    BY <1>1, <1>2 DEF Inv, TypeOK
<1>4. OnTrack' /\ SeatsKnown' /\ OneSeatPerUser' /\ AtLeastOneAdmin'
    BY <1>1 DEF Inv, OnTrack, SeatsKnown, Writing, OneSeatPerUser, AtLeastOneAdmin
<1>5. EventExclusive'
    BY <1>1 DEF Inv, EventExclusive, HoldsEvent, SharesEvent
<1>6. WritersApart' /\ SeatsSecured'
    BY <1>1 DEF Inv, WritersApart, Writing, SeatsSecured, SeatTaken, Occupied
<1>7. \A u \in Requests : (Matches(u)' <=> Matches(u)) /\ (Committable(u)' <=> Committable(u)) /\ (Writing(u)' <=> Writing(u))
    BY <1>1 DEF Matches, Present, KeepsAdmin, Committable, NewRow, Writing
<1>8. MissStands' /\ \A u \in Requests : Writing(u)' => Committable(u)'
    BY <1>1, <1>7 DEF Inv, MissStands
<1> QED
    BY <1>1, <1>3, <1>4, <1>5, <1>6, <1>8 DEF Inv

\* Every step keeps the invariant, and only commits change the roster.
LEMMA NextInv ==
    ASSUME Inv, [Next]_vars
    PROVE  /\ Inv'
           /\ \/ UNCHANGED <<events, roster>>
              \/ \E r \in Requests : pc[r] = "commit" /\ Apply(r)
<1>1. CASE UNCHANGED vars
    BY <1>1, IdleInv
<1>2. ASSUME NEW u \in Users, SignIn(u) PROVE Inv' /\ UNCHANGED <<events, roster>>
    BY <1>2, IdleInv
<1>3. ASSUME NEW r \in Requests,
             \/ Authorize(r) \/ InsertNothing(r) \/ Reason(r) \/ TakeSeat(r) \/ ShareEvent(r)
             \/ Lock(r) \/ WriteMiss(r) \/ Diagnose(r) \/ ShowCurrent(r)
      PROVE  Inv' /\ UNCHANGED <<events, roster>>
    BY <1>3, MovesInv
<1>4. ASSUME NEW r \in Requests, RejectSeat(r) \/ HangUp(r) PROVE Inv' /\ UNCHANGED <<events, roster>>
    BY <1>4, LeaveInv
<1>5. ASSUME NEW r \in Requests, Found(r) \/ Insert(r) \/ WriteRow(r) PROVE Inv' /\ UNCHANGED <<events, roster>>
    BY <1>5, BeginInv
<1>6. ASSUME NEW r \in Requests, Commit(r) \/ HangUpInCommit(r) PROVE Inv' /\ pc[r] = "commit" /\ Apply(r)
    BY <1>6, CommitInv DEF Commit, HangUpInCommit
<1>7. CASE Idle
    BY <1>1, <1>7 DEF Idle
<1> QED
    BY <1>1, <1>2, <1>3, <1>4, <1>5, <1>6, <1>7 DEF Next, Step

(***************************************************************************)
(* Every step of the roster is a step of the membership it implements.     *)
(***************************************************************************)

\* Membership and Roster each extend MemberRows; its operators mean the same.
LEMMA SameMembers ==
    /\ Roll!Roles = Roles /\ Roll!Member = Member
    /\ \A row, role : Roll!Ranked(row, role) = Ranked(row, role)
    /\ \A table, e : Roll!Admins(table, e) = Admins(table, e)
    /\ \A a, b : Roll!SameSeat(a, b) <=> SameSeat(a, b)
    /\ \A table : Roll!OneSeatEach(table) <=> OneSeatEach(table)
    /\ \A existing, table : Roll!Governed(existing, table) <=> Governed(existing, table)
BY DEF Roll!Roles, Roles, Roll!Member, Member, Roll!Ranked, Ranked, Roll!Admins, Admins,
       Roll!SameSeat, SameSeat, Roll!OneSeatEach, OneSeatEach, Roll!Governed, Governed

\* A commit founds, seats, ranks or removes, under the guard the abstract
\* operation evaluates at that very step.
LEMMA CommitIsRollStep ==
    ASSUME Inv, NEW r \in Requests, pc[r] = "commit", Apply(r)
    PROVE  Roll!Next
<1> DEFINE i == pend[r].id
           old == roster[i]
           new == pend[r].new
<1>1. i \in MemberIds /\ roster' = [roster EXCEPT ![i] = new] /\ roster'[i] = new
    BY CommitKinds DEF Inv, TypeOK
<1>2. old # NoMember => (KeepsAdmin(r) /\ i = req[r].id /\ old.event = req[r].event =>
                            \/ old.role # "admin"
                            \/ req[r].op = "assign" /\ req[r].role = "admin"
                            \/ Roll!OtherAdmin(i))
    BY SameMembers DEF KeepsAdmin, Roll!OtherAdmin
<1>3. CASE req[r].op = "found"
    <2>1. /\ roster[i] = NoMember /\ new \in Roll!Member /\ new.role = "admin" /\ new.version = 1
          /\ new.event \notin events /\ events' = events \cup {new.event}
        BY <1>3, CommitKinds, SameMembers
    <2>2. Roll!Found(i, new)
        BY <1>1, <2>1 DEF Roll!Found
    <2> QED
        BY <1>1, <2>2 DEF Roll!Next
<1>4. CASE req[r].op = "add"
    <2>1. /\ roster[i] = NoMember /\ new \in Roll!Member /\ new.version = 1
          /\ new.event \in events /\ events' = events /\ ~Occupied(r)
        BY <1>4, CommitKinds, SameMembers
    <2>2. Roll!Vacant(new)
        BY <2>1, SameMembers DEF Roll!Vacant, Occupied
    <2>3. Roll!Join(i, new)
        BY <1>1, <2>1, <2>2 DEF Roll!Join
    <2> QED
        BY <1>1, <2>3 DEF Roll!Next
<1>5. CASE req[r].op = "assign"
    <2>1. /\ old # NoMember /\ old.event = req[r].event /\ i = req[r].id /\ KeepsAdmin(r)
          /\ req[r].role \in Roll!Roles /\ new = Roll!Ranked(old, req[r].role) /\ events' = events
        BY <1>5, CommitKinds, SameMembers
    <2>2. roster' = [roster EXCEPT ![i] = Roll!Ranked(@, req[r].role)]
        BY <1>1, <2>1
    <2>3. Roll!Rank(i, req[r].role)
        BY <1>2, <2>1, <2>2 DEF Roll!Rank
    <2> QED
        BY <1>1, <2>1, <2>3 DEF Roll!Next
<1>6. CASE req[r].op = "remove"
    <2>1. /\ old # NoMember /\ old.event = req[r].event /\ i = req[r].id /\ KeepsAdmin(r)
          /\ new = NoMember /\ events' = events
        BY <1>6, CommitKinds
    <2>2. Roll!Leave(i)
        BY <1>1, <1>2, <1>6, <2>1 DEF Roll!Leave
    <2> QED
        BY <1>1, <2>2 DEF Roll!Next
<1> QED
    BY <1>3, <1>4, <1>5, <1>6, RequestType DEF Inv, Input

(***************************************************************************)
(* The theorems.                                                           *)
(***************************************************************************)

\* The inductive invariant holds in every state of every behaviour.
THEOREM InvHolds == Spec => []Inv
<1>1. Init => Inv
    BY InitInv
<1>2. Inv /\ [Next]_vars => Inv'
    BY NextInv
<1> QED
    BY <1>1, <1>2, PTL DEF Spec

\* Type correctness of the tables and of every goroutine's state.
THEOREM TypeCorrect == Spec => []TypeOK
<1>1. Inv => TypeOK
    BY DEF Inv
<1> QED
    BY <1>1, InvHolds, PTL

\* Last-admin protection: whatever runs at once, and whoever hangs up, every
\* event that exists has an admin.
THEOREM NeverOrphaned == Spec => []AtLeastOneAdmin
<1>1. Inv => AtLeastOneAdmin
    BY DEF Inv
<1> QED
    BY <1>1, InvHolds, PTL

\* No two memberships of one person in one event.
THEOREM NeverSeatedTwice == Spec => []OneSeatPerUser
<1>1. Inv => OneSeatPerUser
    BY DEF Inv
<1> QED
    BY <1>1, InvHolds, PTL

\* AssignRole and Delete see a roster that stands still from the moment they
\* hold the events row to the end of their transaction.
THEOREM RosterFrozen == Spec => FrozenWhileLocked
<1> DEFINE Frozen == \A r \in Requests, e \in Events :
             HoldsEvent(r, e) /\ pc'[r] # "done" => Seats(roster, e) = Seats(roster', e)
<1>1. Inv /\ [Next]_vars => [Frozen]_vars
    <2> SUFFICES ASSUME Inv, Next, NEW r \in Requests, NEW e \in Events, HoldsEvent(r, e), pc'[r] # "done"
                 PROVE  Seats(roster, e) = Seats(roster', e)
        OBVIOUS
    <2>1. CASE UNCHANGED <<events, roster>>
        BY <2>1 DEF Seats
    <2>2. ASSUME NEW u \in Requests, Commit(u) \/ HangUpInCommit(u) PROVE Seats(roster, e) = Seats(roster', e)
        <3>1. pc[u] = "commit" /\ Apply(u) /\ UNCHANGED req /\ pc'[u] = "done"
            BY <2>2 DEF Commit, HangUpInCommit, Answer, Inv, TypeOK
        <3>2. u # r /\ req[r].event = e
            BY <3>1 DEF HoldsEvent
        <3> QED
            BY <3>1, <3>2, GuardStands
    <2>3. \/ UNCHANGED <<events, roster>>
          \/ \E u \in Requests : Commit(u) \/ HangUpInCommit(u)
        BY MovesInv, LeaveInv, BeginInv, IdleInv DEF Next, Step, Idle
    <2> QED
        BY <2>1, <2>2, <2>3
<1> QED
    BY <1>1, InvHolds, PTL DEF Spec, FrozenWhileLocked

\* The answer last_admin is given for no other reason.
THEOREM LastAdminIsTrue == Spec => LastAdminAnswerTrue
<1> DEFINE True == \A r \in Requests :
         reply[r] # "last_admin" /\ reply'[r] = "last_admin" =>
           /\ Admins(roster, req[r].event) = {req[r].id}
           /\ roster[req[r].id].version = req[r].version
           /\ req[r].op = "remove" \/ req[r].role # "admin"
<1>1. Inv /\ [Next]_vars => [True]_vars
    <2> SUFFICES ASSUME Inv, Next, NEW r \in Requests, reply[r] # "last_admin", reply'[r] = "last_admin"
                 PROVE  /\ Admins(roster, req[r].event) = {req[r].id}
                        /\ roster[req[r].id].version = req[r].version
                        /\ req[r].op = "remove" \/ req[r].role # "admin"
        OBVIOUS
    <2>1. \E u \in Requests : \E code : reply' = [reply EXCEPT ![u] = code] /\ (code = "last_admin" => Diagnose(u))
        <3>1. ASSUME NEW u \in Requests, Step(u) \/ HangUp(u) \/ HangUpInCommit(u)
              PROVE  reply' = reply \/ \E code : reply' = [reply EXCEPT ![u] = code] /\ (code = "last_admin" => Diagnose(u))
            BY <3>1 DEF Step, Authorize, Found, Insert, InsertNothing, Reason, RejectSeat, TakeSeat, ShareEvent,
               Lock, WriteRow, WriteMiss, Diagnose, ShowCurrent, Commit, HangUp, HangUpInCommit, Answer, GoTo, Success
        <3>2. (\E u \in Users : SignIn(u)) \/ Idle => reply' = reply
            BY DEF SignIn, Idle, vars
        <3>3. reply' # reply
            OBVIOUS
        <3> QED
            BY <3>1, <3>2, <3>3 DEF Next
    <2>2. Diagnose(r)
        BY <2>1 DEF Inv, TypeOK
    <2>3. pc[r] = "diagnose" /\ Present(r) /\ roster[req[r].id].version = req[r].version
        BY <2>2 DEF Diagnose, GoTo, Answer, Inv, TypeOK
    <2>4. ~KeepsAdmin(r)
        BY <2>3 DEF Inv, MissStands, Matches
    <2>5. req[r].id \in MemberIds /\ req[r].op \in {"assign", "remove"}
        BY <2>3, RequestType DEF Inv, OnTrack, Input
    <2>6. req[r].id \in Admins(roster, req[r].event)
        BY <2>3, <2>4, <2>5 DEF KeepsAdmin, Admins, Present
    <2> QED
        BY <2>3, <2>4, <2>5, <2>6 DEF KeepsAdmin
<1> QED
    BY <1>1, InvHolds, PTL DEF Spec, LastAdminAnswerTrue

\* The member endpoints implement the abstract membership.
THEOREM RosterImplementsMembership == Spec => ImplementsMembership
<1>1. Init => Roll!Init
    <2> SUFFICES ASSUME Init PROVE Roll!Init
        OBVIOUS
    <2>1. Inv
        BY InitInv
    <2> QED
        BY <2>1, SameMembers DEF Inv, TypeOK, SeatsKnown, OneSeatPerUser, AtLeastOneAdmin, Roll!Init
<1>2. Inv /\ [Next]_vars => [Roll!Next]_(Roll!vars)
    BY NextInv, CommitIsRollStep DEF Roll!vars
<1> QED
    BY <1>1, <1>2, InvHolds, PTL DEF Spec, ImplementsMembership, Roll!Spec

(***************************************************************************)
(* The log.  A request writes once, in its last statement, so until it has *)
(* answered nothing in the log is its own; and the id under which Create   *)
(* will record a membership has no history yet.                            *)
(***************************************************************************)
Ledger ==
    /\ AuditTrail
    /\ \A r \in Requests :
         /\ pc[r] # "done" => reply[r] = "none" /\ WritesBy(r) = {}
         /\ Writing(r) /\ req[r].op \in {"found", "add"} => audit[pend[r].id] = << >>
    /\ AnswersTellTruth

Successes == {"created", "ok", "no_content"}

\* Somebody's writes are the places of the log that name him.
LEMMA WritesInLog ==
    ASSUME NEW u
    PROVE  /\ \A w : w \in WritesBy(u) <=>
                \E j \in MemberIds : \E m \in 1 .. Len(audit[j]) : w = <<j, m>> /\ audit[j][m].by = u
           /\ \A w : w \in WritesBy(u)' <=>
                \E j \in MemberIds : \E m \in 1 .. Len(audit'[j]) : w = <<j, m>> /\ audit'[j][m].by = u
BY DEF WritesBy

\* The memberships the requests find were created by nobody among them.
LEMMA InitLedger == Init => Ledger
<1> SUFFICES ASSUME Init PROVE Ledger
    OBVIOUS
<1>1. /\ roster = Seated /\ pend = [r \in Requests |-> NoWrite] /\ reply = [r \in Requests |-> "none"]
      /\ audit = [i \in MemberIds |-> IF Seated[i] = NoMember THEN << >>
                  ELSE <<[by |-> NoWrite, action |-> "create", before |-> "none", after |-> Seated[i].role]>>]
    BY DEF Init
<1>2. \A i \in MemberIds : Seated[i] # NoMember => Seated[i].version = 1 /\ Seated[i].role \in Roles
    BY SeatedAssumption DEF Member
<1>3. AuditTrail
    <2>1. ASSUME NEW i \in MemberIds PROVE AuditTrail!(i)
        <3>1. CASE Seated[i] = NoMember
            BY <1>1, <3>1
        <3>2. CASE Seated[i] # NoMember
            BY <1>1, <1>2, <3>2 DEF Roles
        <3> QED
            BY <3>1, <3>2
    <2> QED
        BY <2>1 DEF AuditTrail
<1>4. ASSUME NEW r \in Requests PROVE WritesBy(r) = {}
    <2>1. \A i \in MemberIds : \A n \in 1 .. Len(audit[i]) : audit[i][n].by # r
        BY <1>1, RosterAssumption
    <2> QED
        BY <2>1, WritesInLog
<1>5. AnswersTellTruth
    BY <1>1, <1>4, FS_EmptySet DEF AnswersTellTruth
<1> QED
    BY <1>1, <1>3, <1>4, <1>5 DEF Ledger, Writing

\* A step that records nothing keeps the ledger as long as it reports no
\* success and reserves only ids without a history.
LEMMA QuietStep ==
    ASSUME Ledger, UNCHANGED <<roster, audit, req>>,
           \A u \in Requests :
             /\ \/ pc'[u] = pc[u] /\ reply'[u] = reply[u]
                \/ /\ pc[u] # "done" /\ reply'[u] \notin Successes
                   /\ pc'[u] # "done" => reply'[u] = reply[u]
             /\ pend'[u] \in {pend[u], NoWrite} \/ req[u].op \notin {"found", "add"} \/ audit[pend'[u].id] = << >>
    PROVE  Ledger'
<1>1. AuditTrail'
    BY DEF Ledger, AuditTrail
<1>2. \A u \in Requests : WritesBy(u)' = WritesBy(u)
    BY DEF WritesBy
<1>3. ASSUME NEW u \in Requests
      PROVE  /\ pc'[u] # "done" => reply'[u] = "none" /\ WritesBy(u)' = {}
             /\ Writing(u)' /\ req'[u].op \in {"found", "add"} => audit'[pend'[u].id] = << >>
    BY <1>2 DEF Ledger, Writing
<1>4. ASSUME NEW u \in Requests PROVE AnswersTellTruth!(u)'
    <2>1. AnswersTellTruth!(u)
        BY DEF Ledger, AnswersTellTruth
    <2>2. CASE reply'[u] = reply[u]
        BY <1>2, <2>1, <2>2
    <2>3. CASE pc[u] # "done" /\ reply'[u] \notin Successes
        BY <1>2, <2>3, FS_EmptySet DEF Ledger, Successes
    <2> QED
        BY <2>2, <2>3
<1> QED
    BY <1>1, <1>3, <1>4 DEF Ledger, AnswersTellTruth

\* The log of membership i grows by r's entry: old becomes new.
Recorded(r, i, n, old, new) ==
    /\ old = roster[i] /\ n = Len(audit[i])
    /\ roster'[i] = new /\ \A j \in MemberIds \ {i} : roster'[j] = roster[j]
    /\ \A j \in MemberIds \ {i} : audit'[j] = audit[j]
    /\ Len(audit'[i]) = n + 1 /\ \A m \in 1 .. n : audit'[i][m] = audit[i][m]
    /\ audit'[i][n + 1].by = r /\ audit'[i][n + 1].action = ActionName(r)
    /\ audit'[i][n + 1].before = RoleIn(old) /\ audit'[i][n + 1].after = RoleIn(new)
    /\ \/ ActionName(r) = "create" /\ old = NoMember /\ new \in Member /\ new.version = 1 /\ n = 0
       \/ ActionName(r) = "update" /\ old \in Member /\ new \in Member /\ new.version = old.version + 1
       \/ ActionName(r) = "delete" /\ old \in Member /\ new = NoMember

\* A commit appends one entry to the log of the row it changes.
LEMMA CommitEntry ==
    ASSUME Inv, Ledger, NEW r \in Requests, pc[r] = "commit", Apply(r)
    PROVE  \E i \in MemberIds, n \in Nat, old, new \in Member \cup {NoMember} :
              i = pend[r].id /\ Recorded(r, i, n, old, new)
<1> DEFINE i == pend[r].id  old == roster[i]  new == pend[r].new  n == Len(audit[i])
           e == [by |-> r, action |-> ActionName(r), before |-> RoleIn(old), after |-> RoleIn(new)]
<1>1. i \in MemberIds /\ new \in Member \cup {NoMember} /\ roster' = [roster EXCEPT ![i] = new]
    BY CommitKinds
<1>2. audit[i] \in Seq(AuditEntry) /\ n \in Nat /\ old \in Member \cup {NoMember}
    BY <1>1 DEF Inv, TypeOK
<1>3. audit' = [audit EXCEPT ![i] = Append(audit[i], e)]
    BY DEF Apply
<1>4. /\ audit'[i] = Append(audit[i], e) /\ \A j \in MemberIds \ {i} : audit'[j] = audit[j]
      /\ roster'[i] = new /\ \A j \in MemberIds \ {i} : roster'[j] = roster[j]
    BY <1>1, <1>3 DEF Inv, TypeOK
<1>5. e.by = r /\ e.action = ActionName(r) /\ e.before = RoleIn(old) /\ e.after = RoleIn(new)
    OBVIOUS
<1> HIDE DEF e
<1>6. /\ Len(audit'[i]) = n + 1 /\ \A m \in 1 .. n : audit'[i][m] = audit[i][m]
      /\ audit'[i][n + 1] = e
    BY <1>2, <1>4
<1>7. \/ ActionName(r) = "create" /\ old = NoMember /\ new \in Member /\ new.version = 1 /\ n = 0
      \/ ActionName(r) = "update" /\ old \in Member /\ new \in Member /\ new.version = old.version + 1
      \/ ActionName(r) = "delete" /\ old \in Member /\ new = NoMember
    <2>1. CASE req[r].op \in {"found", "add"}
        <3>1. old = NoMember /\ new \in Member /\ new.version = 1
            BY <2>1, CommitKinds
        <3>2. audit[i] = << >>
            BY <2>1 DEF Ledger, Inv, OnTrack
        <3> QED
            BY <2>1, <3>1, <3>2 DEF ActionName
    <2>2. CASE req[r].op = "assign"
        <3>1. old \in Member /\ new \in Member /\ req[r].role \in Roles /\ new = Ranked(old, req[r].role)
            BY <2>2, CommitKinds
        <3>2. new.version = old.version + 1
            BY <3>1, RankedType
        <3> QED
            BY <2>2, <3>1, <3>2 DEF ActionName
    <2>3. CASE req[r].op = "remove"
        BY <2>3, CommitKinds DEF ActionName
    <2> QED
        BY <2>1, <2>2, <2>3, RequestType DEF Inv, Input
<1> HIDE DEF i, old, new, n
<1>8. i = pend[r].id /\ old = roster[i] /\ n = Len(audit[i])
    BY DEF i, old, n
<1> QED
    BY <1>1, <1>2, <1>4, <1>5, <1>6, <1>7, <1>8 DEF Recorded

\* The entry is the next chapter of the membership's history.
LEMMA RecordedInAudit ==
    ASSUME Ledger, NEW r \in Requests, NEW i \in MemberIds, NEW n \in Nat,
           NEW old \in Member \cup {NoMember}, NEW new \in Member \cup {NoMember}, Recorded(r, i, n, old, new)
    PROVE  AuditTrail'
<1>1. /\ \A m \in 1 .. n :
           /\ audit[i][m].before = IF m = 1 THEN "none" ELSE audit[i][m - 1].after
           /\ audit[i][m].action = "create" <=> m = 1
           /\ audit[i][m].action = "delete" <=> audit[i][m].after = "none"
      /\ old # NoMember => n = old.version /\ audit[i][n].after = old.role
    BY DEF Ledger, AuditTrail, Recorded
<1>2. /\ roster'[i] = new /\ Len(audit'[i]) = n + 1 /\ \A m \in 1 .. n : audit'[i][m] = audit[i][m]
      /\ audit'[i][n + 1].action = ActionName(r)
      /\ audit'[i][n + 1].before = RoleIn(old) /\ audit'[i][n + 1].after = RoleIn(new)
    BY DEF Recorded
<1>3. \A row \in Member : RoleIn(row) = row.role /\ row.role # "none" /\ row # NoMember
    BY NoMemberAssumption DEF RoleIn, Member, Roles
<1>4. RoleIn(NoMember) = "none"
    BY DEF RoleIn
<1>5. /\ RoleIn(old) = IF n = 0 THEN "none" ELSE audit[i][n].after
      /\ ActionName(r) = "create" <=> n = 0
      /\ ActionName(r) = "delete" <=> RoleIn(new) = "none"
      /\ IF new = NoMember THEN ActionName(r) = "delete" ELSE new.version = n + 1 /\ new.role = RoleIn(new)
    <2>1. CASE old = NoMember
        BY <1>3, <1>4, <2>1, NoMemberAssumption DEF Recorded
    <2>2. CASE old # NoMember
        <3>1. old \in Member /\ old.version \in Nat \ {0} /\ n = old.version /\ audit[i][n].after = old.role
            BY <1>1, <2>2 DEF Member
        <3> QED
            BY <1>3, <1>4, <2>2, <3>1, NoMemberAssumption DEF Recorded
    <2> QED
        BY <2>1, <2>2
<1>6. AuditTrail!(i)'
    <2>1. ASSUME NEW m \in 1 .. Len(audit'[i])
          PROVE  /\ audit'[i][m].before = IF m = 1 THEN "none" ELSE audit'[i][m - 1].after
                 /\ audit'[i][m].action = "create" <=> m = 1
                 /\ audit'[i][m].action = "delete" <=> audit'[i][m].after = "none"
        <3>1. CASE m \in 1 .. n
            <4>1. m # 1 => m - 1 \in 1 .. n
                BY <3>1
            <4>2. audit'[i][m] = audit[i][m] /\ (m # 1 => audit'[i][m - 1] = audit[i][m - 1])
                BY <1>2, <3>1, <4>1
            <4> QED
                BY <1>1, <3>1, <4>2
        <3>2. CASE m = n + 1
            <4>1. n # 0 => n \in 1 .. n /\ audit'[i][n] = audit[i][n] /\ m - 1 = n
                BY <1>2, <3>2
            <4> QED
                BY <1>2, <1>5, <3>2, <4>1
        <3> QED
            BY <1>2, <2>1, <3>1, <3>2
    <2>2. IF roster'[i] = NoMember
          THEN audit'[i] # << >> => audit'[i][Len(audit'[i])].action = "delete"
          ELSE Len(audit'[i]) = roster'[i].version /\ audit'[i][Len(audit'[i])].after = roster'[i].role
        BY <1>2, <1>5
    <2> QED
        BY <2>1, <2>2
<1>7. ASSUME NEW j \in MemberIds \ {i} PROVE AuditTrail!(j)'
    <2>1. AuditTrail!(j) /\ roster'[j] = roster[j] /\ audit'[j] = audit[j]
        BY DEF Ledger, AuditTrail, Recorded
    <2> QED
        BY <2>1
<1> QED
    BY <1>6, <1>7 DEF AuditTrail

\* An entry is the first write of its author and of nobody else.
LEMMA RecordedOnce ==
    ASSUME Ledger, NEW r \in Requests, pc[r] # "done", NEW i \in MemberIds, NEW n \in Nat,
           NEW old \in Member \cup {NoMember}, NEW new \in Member \cup {NoMember}, Recorded(r, i, n, old, new)
    PROVE  /\ WritesBy(r)' = {<<i, n + 1>>}
           /\ \A u \in Requests \ {r} : WritesBy(u)' = WritesBy(u)
<1>1. /\ n = Len(audit[i]) /\ Len(audit'[i]) = n + 1 /\ \A m \in 1 .. n : audit'[i][m] = audit[i][m]
      /\ audit'[i][n + 1].by = r
      /\ \A j \in MemberIds \ {i} : audit'[j] = audit[j]
    BY DEF Recorded
<1>2. ASSUME NEW u, NEW w
      PROVE  w \in WritesBy(u)' <=> w \in WritesBy(u) \/ (w = <<i, n + 1>> /\ u = r)
    <2>1. ASSUME NEW j \in MemberIds, NEW m
          PROVE  m \in 1 .. Len(audit'[j]) /\ audit'[j][m].by = u <=>
                   \/ m \in 1 .. Len(audit[j]) /\ audit[j][m].by = u
                   \/ j = i /\ m = n + 1 /\ u = r
        <3>1. CASE j # i
            BY <1>1, <3>1
        <3>2. CASE j = i
            <4>1. m \in 1 .. Len(audit'[i]) <=> m \in 1 .. n \/ m = n + 1
                BY <1>1
            <4> QED
                BY <1>1, <3>2, <4>1
        <3> QED
            BY <3>1, <3>2
    <2> QED
        BY <2>1, WritesInLog
<1>3. WritesBy(r)' = {<<i, n + 1>>}
    <2>1. WritesBy(r) = {}
        BY DEF Ledger
    <2> QED
        BY <1>2, <2>1
<1>4. ASSUME NEW u \in Requests \ {r} PROVE WritesBy(u)' = WritesBy(u)
    <2>1. \A w : w \in WritesBy(u)' <=> w \in WritesBy(u)
        BY <1>2
    <2> QED
        BY <2>1
<1> QED
    BY <1>3, <1>4

\* A commit keeps the ledger, whether its client is there to hear of it or
\* not.
LEMMA CommitLedger ==
    ASSUME Inv, Inv', Ledger, NEW r \in Requests, Commit(r) \/ HangUpInCommit(r)
    PROVE  Ledger'
<1>1. /\ pc[r] = "commit" /\ Apply(r) /\ req' = req
      /\ pend' = [pend EXCEPT ![r] = NoWrite]
      /\ pc'[r] = "done" /\ \A u \in Requests \ {r} : pc'[u] = pc[u] /\ reply'[u] = reply[u]
      /\ reply'[r] \in Successes \cup {"gone"}
    BY DEF Commit, HangUpInCommit, Answer, Apply, Success, Successes, Inv, TypeOK
<1>2. PICK i \in MemberIds, n \in Nat, old, new \in Member \cup {NoMember} :
         i = pend[r].id /\ Recorded(r, i, n, old, new)
    BY <1>1, CommitEntry
<1>3. AuditTrail'
    BY <1>2, RecordedInAudit
<1>4. /\ WritesBy(r)' = {<<i, n + 1>>}
      /\ \A u \in Requests \ {r} : WritesBy(u)' = WritesBy(u)
    BY <1>1, <1>2, RecordedOnce
<1>5. /\ pend'[r] = NoWrite /\ \A u \in Requests \ {r} : pend'[u] = pend[u]
      /\ Writing(r)
    BY <1>1 DEF Inv, TypeOK, OnTrack
<1>6. ASSUME NEW u \in Requests
      PROVE  /\ pc'[u] # "done" => reply'[u] = "none" /\ WritesBy(u)' = {}
             /\ Writing(u)' /\ req'[u].op \in {"found", "add"} => audit'[pend'[u].id] = << >>
    <2>1. CASE u = r
        BY <1>1, <1>5, <2>1 DEF Writing
    <2>2. CASE u # r
        <3>1. pc'[u] # "done" => reply'[u] = "none" /\ WritesBy(u)' = {}
            BY <1>1, <1>4, <2>2 DEF Ledger
        <3>2. ASSUME Writing(u), req[u].op \in {"found", "add"} PROVE audit'[pend[u].id] = << >>
            <4>1. pend[u].id \in MemberIds /\ pend[u].id # i
                BY <1>2, <1>5, <2>2, <3>2 DEF Inv, TypeOK, WritersApart, Writing, Write
            <4> QED
                BY <1>2, <3>2, <4>1 DEF Ledger, Recorded
        <3> QED
            BY <1>1, <1>5, <2>2, <3>1, <3>2 DEF Writing
    <2> QED
        BY <2>1, <2>2
<1>7. ASSUME NEW u \in Requests PROVE AnswersTellTruth!(u)'
    <2>1. CASE u = r
        <3>1. Cardinality(WritesBy(u)') = 1
            BY <1>4, <2>1, FS_Singleton
        <3> QED
            BY <1>1, <2>1, <3>1 DEF Successes
    <2>2. CASE u # r
        <3>1. AnswersTellTruth!(u)
            BY DEF Ledger, AnswersTellTruth
        <3> QED
            BY <1>1, <1>4, <2>2, <3>1
    <2> QED
        BY <2>1, <2>2
<1> QED
    BY <1>3, <1>6, <1>7 DEF Ledger, AnswersTellTruth

\* The ledger is inductive.
LEMMA NextLedger == Inv /\ Inv' /\ Ledger /\ [Next]_vars => Ledger'
<1> SUFFICES ASSUME Inv, Inv', Ledger, [Next]_vars PROVE Ledger'
    OBVIOUS
<1>1. CASE UNCHANGED vars \/ \E u \in Users : SignIn(u)
    <2>1. UNCHANGED <<roster, audit, req, pc, pend, reply>>
        BY <1>1 DEF vars, SignIn, db
    <2> QED
        BY <2>1, QuietStep
<1>2. ASSUME NEW r \in Requests,
             \/ Authorize(r) \/ InsertNothing(r) \/ Reason(r) \/ TakeSeat(r) \/ ShareEvent(r)
             \/ Lock(r) \/ WriteRow(r) \/ WriteMiss(r) \/ Diagnose(r) \/ ShowCurrent(r)
             \/ RejectSeat(r) \/ HangUp(r) \/ Found(r) \/ Insert(r)
      PROVE  Ledger'
    <2>1. UNCHANGED <<roster, audit, req>>
        BY <1>2 DEF Authorize, InsertNothing, Reason, TakeSeat, ShareEvent, Lock, WriteRow, WriteMiss, Diagnose,
                    ShowCurrent, RejectSeat, HangUp, Found, Insert, db
    <2>2. /\ pc[r] # "done"
          /\ \E l, code : /\ pc' = [pc EXCEPT ![r] = l]
                          /\ \/ reply' = reply
                             \/ l = "done" /\ code \notin Successes /\ reply' = [reply EXCEPT ![r] = code]
        <3>1. \A l : GoTo(r, l) => pc' = [pc EXCEPT ![r] = l] /\ reply' = reply
            BY DEF GoTo
        <3>2. \A code \in {"forbidden", "cannot_assign_role", "user_not_found", "already_member", "not_found",
                           "version_conflict", "last_admin", "gone"} :
                 Answer(r, code) => /\ pc' = [pc EXCEPT ![r] = "done"] /\ code \notin Successes
                                    /\ reply' = [reply EXCEPT ![r] = code]
            BY DEF Answer, Successes
        <3>3. pc[r] # "done"
            BY <1>2 DEF Authorize, InsertNothing, Reason, TakeSeat, ShareEvent, Lock, WriteRow, WriteMiss, Diagnose,
                    ShowCurrent, RejectSeat, HangUp, Found, Insert
        <3>4. CASE \E l : GoTo(r, l)
            BY <3>1, <3>3, <3>4
        <3>5. CASE \E code \in {"forbidden", "cannot_assign_role", "user_not_found", "already_member", "not_found",
                           "version_conflict", "last_admin", "gone"} : Answer(r, code)
            BY <3>2, <3>3, <3>5
        <3> QED
            BY <1>2, <3>4, <3>5
            DEF Authorize, InsertNothing, Reason, TakeSeat, ShareEvent, Lock, WriteRow, WriteMiss, Diagnose,
                ShowCurrent, RejectSeat, HangUp, Found, Insert
    <2>3. ASSUME NEW u \in Requests
          PROVE  \/ pc'[u] = pc[u] /\ reply'[u] = reply[u]
                 \/ /\ pc[u] # "done" /\ reply'[u] \notin Successes
                    /\ pc'[u] # "done" => reply'[u] = reply[u]
        <3>1. reply[r] = "none" /\ "none" \notin Successes
            BY <2>2 DEF Ledger, Successes
        <3> QED
            BY <2>2, <3>1 DEF Inv, TypeOK
    <2>4. ASSUME NEW u \in Requests
          PROVE  pend'[u] \in {pend[u], NoWrite} \/ req[u].op \notin {"found", "add"} \/ audit[pend'[u].id] = << >>
        <3>1. CASE Found(r) \/ Insert(r)
            <4>1. \E i \in MemberIds : \E new : FreshId(i) /\ pend' = [pend EXCEPT ![r] = [id |-> i, new |-> new]]
                BY <3>1 DEF Insert, Found
            <4>2. PICK i \in MemberIds : FreshId(i) /\ \E new : pend' = [pend EXCEPT ![r] = [id |-> i, new |-> new]]
                BY <4>1
            <4>3. pend'[r].id = i /\ audit[i] = << >> /\ \A v \in Requests \ {r} : pend'[v] = pend[v]
                BY <4>2 DEF FreshId, Inv, TypeOK
            <4> QED
                BY <4>3
        <3>2. CASE WriteRow(r)
            <4>1. req[r].op \notin {"found", "add"} /\ \A v \in Requests \ {r} : pend'[v] = pend[v]
                BY <3>2 DEF WriteRow, Inv, TypeOK, OnTrack
            <4> QED
                BY <4>1
        <3>3. CASE ~(Found(r) \/ Insert(r) \/ WriteRow(r))
            BY <1>2, <3>3 DEF Authorize, InsertNothing, Reason, TakeSeat, ShareEvent, Lock, WriteMiss,
                Diagnose, ShowCurrent, RejectSeat, HangUp, Inv, TypeOK
        <3> QED
            BY <3>1, <3>2, <3>3
    <2> QED
        BY <2>1, <2>3, <2>4, QuietStep
<1>3. ASSUME NEW r \in Requests, Commit(r) \/ HangUpInCommit(r) PROVE Ledger'
    BY <1>3, CommitLedger
<1>4. CASE Idle
    BY <1>1, <1>4 DEF Idle
<1> QED
    BY <1>1, <1>2, <1>3, <1>4 DEF Next, Step

\* What the log and the answers say holds in every state.
THEOREM LedgerHolds == Spec => []Ledger
<1>1. Init => Ledger
    BY InitLedger
<1>2. Inv /\ Inv' /\ Ledger /\ [Next]_vars => Ledger'
    BY NextLedger
<1> QED
    BY <1>1, <1>2, InvHolds, PTL DEF Spec

\* The audit rows of a membership are its whole history, up to its removal.
THEOREM AuditIsComplete == Spec => []AuditTrail
<1>1. Ledger => AuditTrail
    BY DEF Ledger
<1> QED
    BY <1>1, LedgerHolds, PTL

\* A success was recorded exactly once and a rejection never.
THEOREM AnswersAreTrue == Spec => []AnswersTellTruth
<1>1. Ledger => AnswersTellTruth
    BY DEF Ledger
<1> QED
    BY <1>1, LedgerHolds, PTL
=============================================================================

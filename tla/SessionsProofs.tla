--------------------------- MODULE SessionsProofs ---------------------------
(***************************************************************************)
(* Proofs about Sessions.tla for every set of requests, rooms, speakers,   *)
(* inputs and initially booked sessions.                                   *)
(***************************************************************************)
EXTENDS Sessions, FiniteSetTheorems, TLAPS

Pcs == {"series", "insert", "write", "diagnose", "current", "room", "speaker", "commit", "done"}
Writes == [id : Ids, row : Tuple]

(***************************************************************************)
(* Rows.                                                                   *)
(***************************************************************************)

\* A tuple whose speaker exists is a row of the table.
LEMMA TupleIsRow == ASSUME NEW t \in Tuple, t.speaker \in Speakers PROVE t \in Row
BY DEF Tuple, Row

\* Clashing is mutual (the && and = operators of the constraints commute).
LEMMA ClashSymmetric ==
    ASSUME NEW k, NEW a, NEW b
    PROVE  Clash(k, a, b) <=> Clash(k, b, a)
BY DEF Clash, Overlap

\* What Create inserts has the shape of a tuple, whichever occurrence it is.
LEMMA NewRowType ==
    ASSUME TypeOK, NEW r \in Requests, req[r].room \in Rooms
    PROVE  NewRow(r) \in Tuple /\ NewRow(r).version = 1 /\ NewRow(r).live
<1> req[r] \in Input
    BY RequestsAssumption DEF TypeOK
<1>1. Occurrence(req[r], Len(results[r])) \in TimeRange
    <2>1. Len(results[r]) \in Nat
        BY DEF TypeOK
    <2> DEFINE d == Len(results[r]) * req[r].step
    <2>2. d \in Int
        BY <2>1 DEF Input
    <2> HIDE DEF d
    <2>3. req[r].range \in TimeRange
        BY DEF Input
    <2> QED
        BY <2>2, <2>3 DEF Occurrence, TimeRange, d
<1> QED
    BY <1>1, RequestsAssumption DEF NewRow, Tuple, Input

\* What Update and Delete write differs from the old row where it may.
LEMMA WrittenRowType ==
    ASSUME TypeOK, NEW r \in Requests, rows[req[r].id] # NoRow
    PROVE  LET old == rows[req[r].id]  new == WrittenRow(r) IN
           /\ old \in Row /\ new \in Row
           /\ new.version = old.version + 1
           /\ new.room = old.room /\ new.speaker = old.speaker /\ new.series = old.series
           /\ req[r].op = "delete" => ~new.live /\ new.range = old.range
           /\ req[r].op # "delete" => new.live = old.live
<1>1. req[r] \in Input
    BY RequestsAssumption DEF TypeOK
<1>2. rows[req[r].id] \in Row
    BY <1>1 DEF TypeOK, Input
<1> DEFINE old == rows[req[r].id]
           bumped == Bump(old)
<1>3. /\ bumped \in Row
      /\ bumped.version = old.version + 1
      /\ bumped.room = old.room /\ bumped.speaker = old.speaker /\ bumped.series = old.series
      /\ bumped.live = old.live /\ bumped.range = old.range
    BY <1>2 DEF Row, Bump
<1>4. WrittenRow(r) = IF req[r].op = "delete" THEN [bumped EXCEPT !.live = FALSE]
                      ELSE IF req[r].retime THEN [bumped EXCEPT !.range = req[r].range]
                      ELSE bumped
    BY DEF WrittenRow
<1> HIDE DEF bumped
<1>5. CASE req[r].op = "delete"
    BY <1>2, <1>3, <1>4, <1>5 DEF Row
<1>6. CASE req[r].op # "delete"
    BY <1>1, <1>2, <1>3, <1>4, <1>6 DEF Row, Input
<1> QED
    BY <1>5, <1>6

(***************************************************************************)
(* How a request leaves its transaction.                                   *)
(***************************************************************************)

\* Where a request goes when its transaction is over.
Exits(r) == {"done"} \cup (IF req[r].op = "series" THEN {"insert"} ELSE {})

\* Conclude sends the request to its next occurrence or to its end and
\* touches nobody else.
LEMMA ConcludeStep ==
    ASSUME TypeOK, NEW r \in Requests, NEW code \in Replies, Conclude(r, code)
    PROVE  /\ \E p \in Exits(r) : pc' = [pc EXCEPT ![r] = p]
           /\ results' \in [Requests -> Seq({"created", "session_conflict"})]
           /\ reply' \in [Requests -> Replies]
<1>1. results' \in [Requests -> Seq({"created", "session_conflict"})]
    BY DEF Conclude, TypeOK
<1>2. reply' \in [Requests -> Replies]
    BY DEF Conclude, Answer, TypeOK, Replies
<1>3. \E p \in Exits(r) : pc' = [pc EXCEPT ![r] = p]
    BY DEF Conclude, Answer, Exits
<1> QED
    BY <1>1, <1>2, <1>3

\* A failing statement ends the transaction, leaves every table alone and
\* answers something.
LEMMA FailStep ==
    ASSUME TypeOK, NEW r \in Requests, NEW code \in Replies, Fail(r, code)
    PROVE  /\ \E p \in Exits(r) : pc' = [pc EXCEPT ![r] = p]
           /\ pend' = [pend EXCEPT ![r] = NoWrite]
           /\ UNCHANGED <<rows, audit, exceptions, series, req, shown>>
           /\ TypeOK'
<1>1. WriteError(r, code) \in Replies
    BY DEF WriteError, Replies
<1>2. /\ \E p \in Exits(r) : pc' = [pc EXCEPT ![r] = p]
      /\ results' \in [Requests -> Seq({"created", "session_conflict"})]
      /\ reply' \in [Requests -> Replies]
    BY <1>1, ConcludeStep DEF Fail
<1>3. UNCHANGED <<rows, audit, exceptions, series, req, shown>>
    BY DEF Fail, db
<1>4. pend' = [pend EXCEPT ![r] = NoWrite]
    BY DEF Fail, EndTx
<1>5. waits' \in [Requests -> Requests \cup {NoOne}]
    BY DEF Fail, EndTx, TypeOK
<1>6. TypeOK'
    BY <1>2, <1>3, <1>4, <1>5 DEF TypeOK, Exits
<1> QED
    BY <1>2, <1>3, <1>4, <1>6

(***************************************************************************)
(* The inductive invariant.  NoDoubleBooking speaks of committed rows only *)
(* and says nothing of the tuple a transaction is about to commit; that    *)
(* its slot is still free then is SlotsSecured, and that committing it     *)
(* replaces the row the check had set aside is WritersOwnRows.             *)
(***************************************************************************)
\* A request runs the statements of its own operation.
OnTrack ==
    \A r \in Requests :
        /\ pc[r] \in {"insert", "series"} => req[r].op \in {"create", "series"}
        /\ pc[r] \in {"write", "diagnose", "current"} => req[r].op \in {"update", "delete"}

Inv == TypeOK /\ OnTrack /\ WritersOwnRows /\ SlotsSecured /\ NoDoubleBooking

InTx == {"room", "speaker", "commit"}

\* The invariant holds when the requests arrive.
LEMMA InitInv == Init => Inv
<1> SUFFICES ASSUME Init PROVE Inv
    OBVIOUS
<1>1. rows \in [Ids -> Row \cup {NoRow}] /\ NoDoubleBooking
    BY BookedAssumption DEF Init, NoDoubleBooking
<1>2. pc \in [Requests -> {"insert", "series", "write"}]
    BY DEF Init, FirstStatement
<1>3. \A r \in Requests : ~Writing(r)
    BY DEF Init, Writing
<1>4. WritersOwnRows
    BY <1>2, <1>3 DEF WritersOwnRows
<1>5. SlotsSecured
    BY <1>3 DEF SlotsSecured, Past
<1>6. audit \in [Ids -> Seq(AuditEntry)]
    <2>1. \A i \in Ids : Booked[i] # NoRow =>
             [actor |-> NoOne, action |-> "create", before |-> NoRow, after |-> Booked[i]] \in AuditEntry
        BY BookedAssumption DEF AuditEntry
    <2> QED
        BY <2>1 DEF Init
<1>7. series \subseteq SeriesIds
    <2>1. \A i \in Ids : Booked[i] # NoRow => Booked[i].series \in SeriesIds \cup {NoSeries}
        BY BookedAssumption DEF Row
    <2> QED
        BY <2>1 DEF Init
<1>8. /\ exceptions \in [Ids -> Seq([status : {"modified", "cancelled"}, original : Int])]
      /\ results \in [Requests -> Seq({"created", "session_conflict"})]
    BY DEF Init
<1>9. TypeOK
    BY <1>1, <1>2, <1>6, <1>7, <1>8 DEF Init, TypeOK, Replies
<1>10. OnTrack
    <2>1. \A r \in Requests : req[r].op \in {"create", "update", "delete", "series"}
        BY RequestsAssumption DEF Init, Input
    <2> QED
        BY <2>1 DEF Init, OnTrack, FirstStatement
<1> QED
    BY <1>1, <1>4, <1>5, <1>9, <1>10 DEF Inv

(***************************************************************************)
(* Steps by what they do to the transaction of r.                          *)
(***************************************************************************)

\* A request outside a transaction stays outside; nothing is written.
LEMMA StayOut ==
    ASSUME Inv, NEW r \in Requests, NEW p \in Pcs \ InTx,
           pc[r] \notin InTx,
           \/ p = "done"
           \/ {pc[r], p} \subseteq {"series", "insert"}
           \/ {pc[r], p} \subseteq {"write", "diagnose", "current"},
           pc' = [pc EXCEPT ![r] = p],
           UNCHANGED <<rows, req, pend>>
    PROVE  OnTrack' /\ WritersOwnRows' /\ SlotsSecured' /\ NoDoubleBooking'
<1>1. \A u \in Requests : pc'[u] \in InTx <=> pc[u] \in InTx
    BY DEF Inv, TypeOK
<1>2. \A u \in Requests : pc[u] \in InTx => pc'[u] = pc[u]
    BY DEF Inv, TypeOK
<1>3. \A u \in Requests : Writing(u)' <=> Writing(u)
    BY DEF Writing
<1>4. WritersOwnRows'
    BY <1>1, <1>2, <1>3 DEF Inv, WritersOwnRows, InTx
<1>5. \A u \in Requests, k \in Index : Past(u, k)' => Past(u, k)
    BY <1>1, <1>2, <1>3 DEF Past, InTx, Index
<1>6. SlotsSecured'
    BY <1>5 DEF Inv, SlotsSecured
<1>7. NoDoubleBooking'
    BY DEF Inv, NoDoubleBooking, ClashFree
<1>8. OnTrack'
    BY DEF Inv, TypeOK, OnTrack
<1> QED
    BY <1>4, <1>6, <1>7, <1>8

\* A transaction is given up: its tuple goes, nothing else changes.
LEMMA LeaveTx ==
    ASSUME Inv, NEW r \in Requests, NEW p \in Exits(r),
           pc' = [pc EXCEPT ![r] = p], pend' = [pend EXCEPT ![r] = NoWrite],
           UNCHANGED <<rows, req>>
    PROVE  OnTrack' /\ WritersOwnRows' /\ SlotsSecured' /\ NoDoubleBooking'
<1>1. ~Writing(r)' /\ pc'[r] \notin InTx
    BY DEF Inv, TypeOK, Writing, InTx, Exits
<1>2. \A u \in Requests \ {r} : pend'[u] = pend[u] /\ pc'[u] = pc[u] /\ (Writing(u)' <=> Writing(u))
    BY DEF Inv, TypeOK, Writing
<1>3. WritersOwnRows'
    BY <1>1, <1>2 DEF Inv, WritersOwnRows, InTx
<1>4. \A u \in Requests, k \in Index : Past(u, k)' => u # r /\ Past(u, k)
    BY <1>1, <1>2 DEF Past
<1>5. SlotsSecured'
    BY <1>2, <1>4 DEF Inv, SlotsSecured
<1>6. NoDoubleBooking'
    BY DEF Inv, NoDoubleBooking, ClashFree
<1>7. OnTrack'
    BY DEF Inv, TypeOK, OnTrack, Exits
<1> QED
    BY <1>3, <1>5, <1>6, <1>7

\* A new tuple enters the room index: it owns its row and is past nothing.
LEMMA InsertStep ==
    ASSUME Inv, NEW r \in Requests, Insert(r)
    PROVE  Inv'
<1>1. PICK i \in Ids :
        /\ rows[i] = NoRow
        /\ \A u \in Requests : Writing(u) => pend[u].id # i
        /\ pend' = [pend EXCEPT ![r] = [id |-> i, row |-> NewRow(r)]]
    <2>1. NewKey \in Unused
        BY DEF NewKey, Insert
    <2> QED
        BY <2>1 DEF Insert, Unused
<1>2. NewRow(r) \in Tuple /\ NewRow(r).version = 1 /\ NewRow(r).live
    BY NewRowType DEF Insert, Inv
<1>3. [id |-> i, row |-> NewRow(r)] \in Writes
    BY <1>2 DEF Writes
<1>4. pend' \in [Requests -> Writes \cup {NoWrite}] /\ pend'[r].id = i /\ pend'[r].row = NewRow(r)
    BY <1>1, <1>3 DEF Inv, TypeOK, Writes
<1>5. UNCHANGED <<rows, audit, exceptions, series, req, waits, results, reply, shown>>
    BY DEF Insert, db
<1>6. pc' = [pc EXCEPT ![r] = "room"] /\ pc'[r] = "room"
    BY DEF Insert, Inv, TypeOK
<1>7. TypeOK'
    BY <1>4, <1>5, <1>6 DEF Inv, TypeOK, Writes
<1>8. \A u \in Requests \ {r} : pend'[u] = pend[u] /\ pc'[u] = pc[u] /\ (Writing(u)' <=> Writing(u))
    BY <1>1, <1>6 DEF Inv, TypeOK, Writing
<1>9. Writing(r)'
    BY <1>1, <1>3, RequestsAssumption DEF Writing, Inv, TypeOK, Writes
<1>10. WritersOwnRows'
    <2>1. req[r].op \in {"create", "series"}
        BY DEF Insert, Inv, OnTrack
    <2> QED
        BY <1>1, <1>2, <1>4, <1>5, <1>6, <1>8, <1>9, <2>1 DEF Inv, WritersOwnRows
<1>11. SlotsSecured'
    <2>1. \A u \in Requests, k \in Index : Past(u, k)' => u # r /\ Past(u, k)
        BY <1>6, <1>8 DEF Past
    <2> QED
        BY <1>5, <1>8, <2>1 DEF Inv, SlotsSecured
<1>12. NoDoubleBooking'
    BY <1>5 DEF Inv, NoDoubleBooking, ClashFree
<1>13. OnTrack'
    BY <1>5, <1>6, <1>8 DEF Inv, OnTrack
<1> QED
    BY <1>7, <1>10, <1>11, <1>12, <1>13 DEF Inv

\* A versioned write takes the row lock.  If it does not move the session it
\* is past both checks at once: the old row holds its slot for it.
LEMMA WriteStep ==
    ASSUME Inv, NEW r \in Requests, Write(r)
    PROVE  Inv'
<1> DEFINE i == req[r].id  old == rows[i]  new == WrittenRow(r)
<1>1. i \in Ids /\ old \in Row /\ old # NoRow /\ old.live /\ old.version = req[r].version
    BY RequestsAssumption, NullsAssumption DEF Inv, TypeOK, Input, Write, Matches, Visible
<1>2. /\ new \in Row
      /\ new.version = old.version + 1
      /\ new.room = old.room /\ new.speaker = old.speaker /\ new.series = old.series
      /\ req[r].op = "delete" => ~new.live /\ new.range = old.range
      /\ req[r].op # "delete" => new.live
    BY <1>1, WrittenRowType DEF Inv
<1>3. req[r].op \in {"update", "delete"}
    BY DEF Inv, OnTrack, Write
<1>4. /\ pend' = [pend EXCEPT ![r] = [id |-> i, row |-> new]]
      /\ UNCHANGED <<rows, audit, exceptions, series, req, waits, results, reply, shown>>
    BY DEF Write, db
<1>5. \E p \in {"room", "commit"} :
        /\ pc' = [pc EXCEPT ![r] = p]
        /\ p = "commit" => new.range = old.range
        /\ p = "room" => req[r].op = "update"
    BY <1>2 DEF Write
<1> HIDE DEF new
<1>6. new \in Tuple
    BY <1>2, RequestsAssumption DEF Row, Tuple
<1>7. [id |-> i, row |-> new] \in Writes
    BY <1>1, <1>6 DEF Writes
<1>8. pend' \in [Requests -> Writes \cup {NoWrite}] /\ pend'[r].id = i /\ pend'[r].row = new
    BY <1>4, <1>7 DEF Inv, TypeOK, Writes
<1>9. TypeOK'
    BY <1>4, <1>5, <1>8 DEF Inv, TypeOK, Writes
<1>10. \A u \in Requests \ {r} : pend'[u] = pend[u] /\ pc'[u] = pc[u] /\ (Writing(u)' <=> Writing(u))
    BY <1>4, <1>5 DEF Inv, TypeOK, Writing
<1>11. Writing(r)' /\ ~Writing(r)
    BY <1>4, <1>7, RequestsAssumption DEF Writing, Inv, TypeOK, Writes, WritersOwnRows, Write
<1>12. pc'[r] \in {"room", "commit"} /\ (pc'[r] = "commit" => new.range = old.range)
       /\ (pc'[r] = "room" => req[r].op = "update")
    BY <1>5 DEF Inv, TypeOK
<1>13. \A u \in Requests \ {r} : Writing(u) => pend[u].id # i
    BY DEF Write, Holds
<1>14. WritersOwnRows'
    <2>1. ASSUME NEW u \in Requests \ {r} PROVE WritersOwnRows!(u)'
        BY <1>4, <1>8, <1>10, <1>13 DEF Inv, WritersOwnRows
    <2>2. WritersOwnRows!(r)'
        <3>1. new.live \/ (pc'[r] = "commit" /\ new.range = old.range)
            BY <1>2, <1>3, <1>12
        <3>2. new.speaker \in Speakers
            BY <1>2 DEF Row
        <3>3. new.live <=> req[r].op # "delete"
            BY <1>2, <1>3
        <3> QED
            BY <1>1, <1>2, <1>3, <1>4, <1>8, <1>10, <1>11, <1>12, <1>13, <3>1, <3>2, <3>3
            DEF WritersOwnRows
    <2> QED
        BY <2>1, <2>2 DEF WritersOwnRows
<1>15. SlotsSecured'
    <2>1. \A u \in Requests \ {r}, k \in Index : Past(u, k)' => Past(u, k)
        BY <1>10 DEF Past
    <2>2. ASSUME NEW k \in Index, Past(r, k)' PROVE new.range = old.range
        BY <1>12, <2>2 DEF Past, Index
    <2>3. ASSUME NEW k \in Index, NEW j, ~Clash(k, j, old), Past(r, k)' PROVE ~Clash(k, j, new)
        BY <1>1, <1>2, <2>2, <2>3 DEF Clash, Index
    <2>4. \A k \in Index : Past(r, k)' =>
             \A j \in Ids \ {i} : rows[j] # NoRow => ~Clash(k, rows[j], new)
        BY <1>1, <2>3 DEF Inv, NoDoubleBooking, ClashFree
    <2>5. \A k \in Index, u \in Requests \ {r} : Past(r, k)' /\ Past(u, k)' => ~Clash(k, pend[u].row, new)
        <3> SUFFICES ASSUME NEW k \in Index, NEW u \in Requests \ {r}, Past(r, k)', Past(u, k)'
                     PROVE  ~Clash(k, pend[u].row, new)
            OBVIOUS
        <3>1. Past(u, k) /\ pend[u].id # i
            BY <1>13, <2>1 DEF Past
        <3>2. ~Clash(k, old, pend[u].row)
            BY <1>1, <3>1 DEF Inv, SlotsSecured
        <3> QED
            BY <2>3, <3>2, ClashSymmetric
    <2> QED
        BY <1>4, <1>8, <1>10, <2>1, <2>4, <2>5, ClashSymmetric DEF Inv, SlotsSecured
<1>16. NoDoubleBooking'
    BY <1>4 DEF Inv, NoDoubleBooking, ClashFree
<1>17. OnTrack'
    BY <1>4, <1>10, <1>12 DEF Inv, OnTrack
<1> QED
    BY <1>9, <1>14, <1>15, <1>16, <1>17 DEF Inv

\* What a check that found nobody establishes for index k.
LEMMA UnopposedClear ==
    ASSUME Inv, NEW r \in Requests, NEW k \in Index, Unopposed(r, k)
    PROVE  /\ \A i \in Ids \ {pend[r].id} : rows[i] # NoRow => ~Clash(k, rows[i], pend[r].row)
           /\ \A u \in Requests \ {r} : InIndex(u, k) => ~Clash(k, pend[u].row, pend[r].row)
<1>1. ASSUME NEW i \in Ids \ {pend[r].id}, rows[i] # NoRow, Clash(k, rows[i], pend[r].row)
      PROVE  FALSE
    <2>1. PICK u \in Requests : Writing(u) /\ pend[u].id = i
        BY <1>1 DEF Unopposed, SettledClash
    <2>2. u # r
        BY <1>1, <2>1
    <2> QED
        BY <1>1, <2>1, <2>2 DEF Unopposed, OpenClash
<1>2. \A u \in Requests \ {r} : InIndex(u, k) => ~Clash(k, pend[u].row, pend[r].row)
    BY DEF Unopposed, OpenClash, InIndex
<1> QED
    BY <1>1, <1>2

\* Going past the check of index k with nobody in the way keeps the invariant.
LEMMA PassStep ==
    ASSUME Inv, NEW r \in Requests,
           \/ PassRoom(r)
           \/ PassSpeaker(r)
    PROVE  Inv'
<1>1. PICK k \in Index :
        /\ Unopposed(r, k)
        /\ pc' = [pc EXCEPT ![r] = IF k = "room" THEN "speaker" ELSE "commit"]
        /\ k = "speaker" => pend[r].row.speaker \in Speakers
    BY DEF PassRoom, PassSpeaker, Index
<1>2. UNCHANGED <<rows, audit, exceptions, series, req, pend, waits, results, reply, shown>>
    BY DEF PassRoom, PassSpeaker, db
<1>3. pc[r] = k /\ k \in {"room", "speaker"}
    BY <1>1 DEF Unopposed, Index
<1>4. pc'[r] = (IF k = "room" THEN "speaker" ELSE "commit") /\ \A u \in Requests \ {r} : pc'[u] = pc[u]
    BY <1>1 DEF Inv, TypeOK
<1>5. \A u \in Requests : Writing(u)' <=> Writing(u)
    BY <1>2 DEF Writing
<1>6. TypeOK'
    BY <1>1, <1>2 DEF Inv, TypeOK
<1>7. OnTrack'
    BY <1>2, <1>3, <1>4 DEF Inv, OnTrack
<1>8. WritersOwnRows'
    <2>1. ASSUME NEW u \in Requests \ {r} PROVE WritersOwnRows!(u)'
        BY <1>2, <1>4, <1>5 DEF Inv, WritersOwnRows
    <2>2. WritersOwnRows!(r)'
        BY <1>1, <1>2, <1>3, <1>4, <1>5 DEF Inv, WritersOwnRows
    <2> QED
        BY <2>1, <2>2 DEF WritersOwnRows
<1>9. \A u \in Requests, m \in Index : Past(u, m)' => Past(u, m) \/ (u = r /\ m = k)
    BY <1>3, <1>4, <1>5 DEF Past, Index
<1>10. \A u \in Requests, m \in Index : Past(u, m) => InIndex(u, m)
    BY DEF Past, InIndex
<1>11. SlotsSecured'
    <2> SUFFICES ASSUME NEW u \in Requests, NEW m \in Index, Past(u, m)'
                 PROVE  /\ \A i \in Ids \ {pend[u].id} : rows[i] # NoRow => ~Clash(m, rows[i], pend[u].row)
                        /\ \A v \in Requests \ {u} : Past(v, m)' => ~Clash(m, pend[v].row, pend[u].row)
        BY <1>2 DEF SlotsSecured
    <2>1. CASE u = r /\ m = k
        BY <1>1, <1>9, <1>10, <2>1, UnopposedClear
    <2>2. CASE Past(u, m)
        <3>1. \A i \in Ids \ {pend[u].id} : rows[i] # NoRow => ~Clash(m, rows[i], pend[u].row)
            BY <2>2 DEF Inv, SlotsSecured
        <3>2. ASSUME NEW v \in Requests \ {u}, Past(v, m)'
              PROVE  ~Clash(m, pend[v].row, pend[u].row)
            <4>1. CASE Past(v, m)
                BY <2>2, <4>1 DEF Inv, SlotsSecured
            <4>2. CASE v = r /\ m = k
                BY <1>1, <1>10, <2>2, <4>2, UnopposedClear, ClashSymmetric
            <4> QED
                BY <1>9, <3>2, <4>1, <4>2
        <3> QED
            BY <3>1, <3>2
    <2> QED
        BY <1>9, <2>1, <2>2
<1>12. NoDoubleBooking'
    BY <1>2 DEF Inv, NoDoubleBooking, ClashFree
<1> QED
    BY <1>6, <1>7, <1>8, <1>11, <1>12 DEF Inv

\* A commit puts the secured tuple in the table.
LEMMA ApplyStep ==
    ASSUME Inv, NEW r \in Requests, NEW p \in Exits(r),
           pc[r] = "commit", Apply(r),
           pc' = [pc EXCEPT ![r] = p], pend' = [pend EXCEPT ![r] = NoWrite], UNCHANGED req
    PROVE  /\ OnTrack' /\ WritersOwnRows' /\ SlotsSecured' /\ NoDoubleBooking'
           /\ pend[r].id \in Ids /\ pend[r].row \in Row
           /\ rows' = [rows EXCEPT ![pend[r].id] = pend[r].row]
<1> DEFINE i == pend[r].id  new == pend[r].row
<1>1. Writing(r) /\ i \in Ids /\ new \in Tuple /\ new.speaker \in Speakers
    BY RequestsAssumption DEF Inv, TypeOK, WritersOwnRows, Writing
<1>2. new \in Row
    BY <1>1, TupleIsRow
<1>3. rows' = [rows EXCEPT ![i] = new]
    BY DEF Apply
<1>4. rows'[i] = new /\ new # NoRow /\ \A j \in Ids \ {i} : rows'[j] = rows[j]
    BY <1>1, <1>2, <1>3, NullsAssumption DEF Inv, TypeOK
<1>5. ~Writing(r)' /\ pc'[r] \notin InTx
    BY DEF Inv, TypeOK, Writing, InTx, Exits
<1>6. \A u \in Requests \ {r} : pend'[u] = pend[u] /\ pc'[u] = pc[u] /\ (Writing(u)' <=> Writing(u))
    BY DEF Inv, TypeOK, Writing
<1>7. \A u \in Requests \ {r} : Writing(u) => pend[u].id \in Ids \ {i}
    BY <1>1, RequestsAssumption DEF Inv, TypeOK, WritersOwnRows, Writing
<1>8. \A k \in Index : Past(r, k)
    BY <1>1 DEF Past
<1>9. WritersOwnRows'
    BY <1>4, <1>5, <1>6, <1>7 DEF Inv, WritersOwnRows, InTx
<1>10. SlotsSecured'
    <2>1. \A u \in Requests, k \in Index : Past(u, k)' => u # r /\ Past(u, k) /\ Writing(u)
        BY <1>5, <1>6 DEF Past
    <2>2. \A u \in Requests \ {r}, k \in Index : Past(u, k) => ~Clash(k, new, pend[u].row)
        BY <1>8 DEF Inv, SlotsSecured
    <2> QED
        BY <1>4, <1>6, <2>1, <2>2 DEF Inv, SlotsSecured
<1>11. NoDoubleBooking'
    <2>1. \A j \in Ids \ {i}, k \in Index : rows[j] # NoRow => ~Clash(k, rows[j], new)
        BY <1>8 DEF Inv, SlotsSecured
    <2> QED
        BY <1>4, <2>1, ClashSymmetric DEF Inv, NoDoubleBooking, ClashFree
<1>12. OnTrack'
    BY <1>6 DEF Inv, TypeOK, OnTrack, Exits
<1> QED
    BY <1>1, <1>2, <1>3, <1>9, <1>10, <1>11, <1>12

\* The tables keep their types when a transaction commits.
LEMMA ApplyType ==
    ASSUME Inv, NEW r \in Requests, pc[r] = "commit", Apply(r)
    PROVE  /\ rows' \in [Ids -> Row \cup {NoRow}]
           /\ audit' \in [Ids -> Seq(AuditEntry)]
           /\ exceptions' \in [Ids -> Seq([status : {"modified", "cancelled"}, original : Int])]
           /\ series' = series
<1> DEFINE i == pend[r].id  old == rows[i]  new == pend[r].row
<1>1. i \in Ids /\ new \in Row /\ old \in Row \cup {NoRow}
    <2>1. Writing(r) /\ i \in Ids /\ new \in Tuple /\ new.speaker \in Speakers
        BY RequestsAssumption DEF Inv, TypeOK, WritersOwnRows, Writing
    <2> QED
        BY <2>1, TupleIsRow DEF Inv, TypeOK
<1>2. rows' \in [Ids -> Row \cup {NoRow}]
    BY <1>1 DEF Apply, Inv, TypeOK
<1>3. ActionName(r) \in {"create", "update", "delete"}
    BY RequestsAssumption DEF ActionName, Inv, TypeOK, Input
<1>4. audit' \in [Ids -> Seq(AuditEntry)]
    <2> DEFINE e == [actor |-> r, action |-> ActionName(r), before |-> old, after |-> new]
    <2>1. e \in AuditEntry
        BY <1>1, <1>3 DEF AuditEntry
    <2>2. audit' = [audit EXCEPT ![i] = Append(audit[i], e)]
        BY DEF Apply
    <2> HIDE DEF e
    <2>3. Append(audit[i], e) \in Seq(AuditEntry)
        BY <1>1, <2>1 DEF Inv, TypeOK
    <2> QED
        BY <2>2, <2>3 DEF Inv, TypeOK
<1>5. exceptions' \in [Ids -> Seq([status : {"modified", "cancelled"}, original : Int])]
    <2>1. CASE ~(ActionName(r) # "create" /\ old.series # NoSeries)
        BY <2>1 DEF Apply, Inv, TypeOK
    <2>2. CASE ActionName(r) # "create" /\ old.series # NoSeries
        <3> DEFINE e == [status |-> IF req[r].op = "delete" THEN "cancelled" ELSE "modified",
                         original |-> old.range.from]
        <3>1. old \in Row
            <4>1. req[r].op \notin {"create", "series"}
                BY <2>2 DEF ActionName
            <4>2. old # NoRow
                BY <4>1 DEF Inv, WritersOwnRows
            <4> QED
                BY <1>1, <4>2
        <3>2. e \in [status : {"modified", "cancelled"}, original : Int]
            BY <3>1 DEF Row, TimeRange
        <3>3. exceptions' = [exceptions EXCEPT ![i] = Append(exceptions[i], e)]
            BY <2>2 DEF Apply
        <3> HIDE DEF e
        <3>4. Append(exceptions[i], e) \in Seq([status : {"modified", "cancelled"}, original : Int])
            BY <1>1, <3>2 DEF Inv, TypeOK
        <3> QED
            BY <3>3, <3>4 DEF Inv, TypeOK
    <2> QED
        BY <2>1, <2>2
<1>6. series' = series
    BY DEF Apply
<1> QED
    BY <1>2, <1>4, <1>5, <1>6

\* A commit, acknowledged or not, keeps the invariant.
LEMMA CommitStep ==
    ASSUME Inv, NEW r \in Requests, Commit(r) \/ HangUpInCommit(r)
    PROVE  /\ Inv'
           /\ pend[r].id \in Ids /\ pend[r].row \in Row
           /\ rows' = [rows EXCEPT ![pend[r].id] = pend[r].row]
<1>1. /\ \E p \in Exits(r) : pc' = [pc EXCEPT ![r] = p]
      /\ results' \in [Requests -> Seq({"created", "session_conflict"})]
      /\ reply' \in [Requests -> Replies]
    <2>1. CASE Commit(r)
        <3>1. Success(req[r].op) \in Replies
            BY DEF Success, Replies
        <3> QED
            BY <2>1, <3>1, ConcludeStep DEF Commit, Inv
    <2>2. CASE HangUpInCommit(r)
        BY <2>2 DEF HangUpInCommit, Answer, Exits, Inv, TypeOK, Replies
    <2> QED
        BY <2>1, <2>2
<1>2. pc[r] = "commit" /\ Apply(r) /\ EndTx(r) /\ UNCHANGED <<req, shown>>
    BY DEF Commit, HangUpInCommit
<1>3. pend' = [pend EXCEPT ![r] = NoWrite] /\ waits' \in [Requests -> Requests \cup {NoOne}]
    BY <1>2 DEF EndTx, Inv, TypeOK
<1>4. TypeOK'
    BY <1>1, <1>2, <1>3, ApplyType DEF Inv, TypeOK, Exits
<1> QED
    BY <1>1, <1>2, <1>3, <1>4, ApplyStep DEF Inv

(***************************************************************************)
(* Every step.                                                             *)
(***************************************************************************)

\* A failing statement keeps the invariant.
LEMMA FailInv == ASSUME Inv, NEW r \in Requests, NEW code \in Replies, Fail(r, code) PROVE Inv' /\ UNCHANGED rows
<1>1. PICK p \in Exits(r) : pc' = [pc EXCEPT ![r] = p]
    BY FailStep DEF Inv
<1>2. pend' = [pend EXCEPT ![r] = NoWrite] /\ UNCHANGED <<rows, req>> /\ TypeOK'
    BY FailStep DEF Inv
<1> QED
    BY <1>1, <1>2, LeaveTx DEF Inv

\* The invariant is inductive, and only a commit changes the table.
LEMMA NextInv ==
    ASSUME Inv, [Next]_vars
    PROVE  /\ Inv'
           /\ \/ UNCHANGED rows
              \/ \E r \in Requests : Commit(r) \/ HangUpInCommit(r)
<1>1. CASE UNCHANGED vars
    BY <1>1 DEF Inv, TypeOK, OnTrack, WritersOwnRows, SlotsSecured, NoDoubleBooking, ClashFree,
                Past, Writing, vars
<1>2. ASSUME NEW r \in Requests, InsertSeries(r) PROVE Inv' /\ UNCHANGED rows
    <2>1. pc[r] = "series" /\ \E p \in {"insert", "done"} : pc' = [pc EXCEPT ![r] = p]
        BY <1>2 DEF InsertSeries, Answer
    <2>2. UNCHANGED <<rows, req, pend>>
        BY <1>2 DEF InsertSeries
    <2>3. series' \subseteq SeriesIds /\ reply' \in [Requests -> Replies]
        <3>1. series' \in {series, series \cup {r}}
            BY <1>2 DEF InsertSeries
        <3>2. reply' = reply \/ reply' = [reply EXCEPT ![r] = "internal"]
            BY <1>2 DEF InsertSeries, Answer
        <3> QED
            BY <3>1, <3>2, RequestsAssumption DEF Inv, TypeOK, Replies
    <2>4. UNCHANGED <<audit, exceptions, waits, results, shown>>
        BY <1>2 DEF InsertSeries
    <2>5. TypeOK'
        BY <2>1, <2>2, <2>3, <2>4 DEF Inv, TypeOK
    <2> QED
        BY <2>1, <2>2, <2>5, StayOut DEF Inv, Pcs, InTx
<1>3. ASSUME NEW r \in Requests, InsertNoRoom(r) PROVE Inv' /\ UNCHANGED rows
    BY <1>3, FailInv DEF InsertNoRoom, Replies
<1>4. ASSUME NEW r \in Requests, Insert(r) PROVE Inv' /\ UNCHANGED rows
    BY <1>4, InsertStep DEF Insert, db
<1>5. ASSUME NEW r \in Requests, WriteMiss(r) PROVE Inv' /\ UNCHANGED rows
    <2>1. pc[r] = "write" /\ pc' = [pc EXCEPT ![r] = "diagnose"] /\ UNCHANGED <<rows, req, pend>>
        BY <1>5 DEF WriteMiss, db
    <2>2. TypeOK'
        BY <1>5 DEF WriteMiss, db, Inv, TypeOK
    <2> QED
        BY <2>1, <2>2, StayOut DEF Inv, Pcs, InTx
<1>6. ASSUME NEW r \in Requests, Write(r) PROVE Inv' /\ UNCHANGED rows
    BY <1>6, WriteStep DEF Write, db
<1>7. ASSUME NEW r \in Requests, Diagnose(r) PROVE Inv' /\ UNCHANGED rows
    <2>1. pc[r] = "diagnose" /\ \E p \in {"current", "done"} : pc' = [pc EXCEPT ![r] = p]
        BY <1>7 DEF Diagnose, Answer
    <2>2. UNCHANGED <<rows, req, pend>>
        BY <1>7 DEF Diagnose, db
    <2>3. TypeOK'
        BY <1>7 DEF Diagnose, Answer, db, Inv, TypeOK, Replies
    <2> QED
        BY <2>1, <2>2, <2>3, StayOut DEF Inv, Pcs, InTx
<1>8. ASSUME NEW r \in Requests, ShowCurrent(r) PROVE Inv' /\ UNCHANGED rows
    <2>1. pc[r] = "current" /\ pc' = [pc EXCEPT ![r] = "done"] /\ UNCHANGED <<rows, req, pend>>
        BY <1>8 DEF ShowCurrent, Answer, db
    <2>2. req[r].id \in Ids
        BY RequestsAssumption DEF Inv, TypeOK, Input
    <2>3. TypeOK'
        BY <1>8, <2>2 DEF ShowCurrent, Answer, db, Inv, TypeOK, Replies
    <2> QED
        BY <2>1, <2>3, StayOut DEF Inv, Pcs, InTx
<1>9. ASSUME NEW r \in Requests, NEW u \in Requests, AwaitRow(r, u) \/ \E k \in Index : AwaitClash(r, k, u)
      PROVE  Inv' /\ UNCHANGED rows
    <2>1. UNCHANGED <<rows, audit, exceptions, series, req, pc, pend, results, reply, shown>>
        BY <1>9 DEF AwaitRow, AwaitClash, db
    <2>2. waits' = [waits EXCEPT ![r] = u]
        BY <1>9 DEF AwaitRow, AwaitClash
    <2>3. TypeOK'
        BY <2>1, <2>2 DEF Inv, TypeOK
    <2> QED
        BY <2>1, <2>3 DEF Inv, OnTrack, WritersOwnRows, SlotsSecured, NoDoubleBooking, ClashFree, Past, Writing
<1>10. ASSUME NEW r \in Requests, NEW k \in Index, RejectClash(r, k) PROVE Inv' /\ UNCHANGED rows
    BY <1>10, FailInv DEF RejectClash, Replies
<1>11. ASSUME NEW r \in Requests, PassRoom(r) \/ PassSpeaker(r) PROVE Inv' /\ UNCHANGED rows
    BY <1>11, PassStep DEF PassRoom, PassSpeaker, db
<1>12. ASSUME NEW r \in Requests, RejectSpeaker(r) \/ DeadlockDetected(r) PROVE Inv' /\ UNCHANGED rows
    BY <1>12, FailInv DEF RejectSpeaker, DeadlockDetected, Replies
<1>13. ASSUME NEW r \in Requests, Commit(r) \/ HangUpInCommit(r) PROVE Inv'
    BY <1>13, CommitStep
<1>14. ASSUME NEW r \in Requests, HangUp(r) PROVE Inv' /\ UNCHANGED rows
    <2>1. /\ pc' = [pc EXCEPT ![r] = "done"]
          /\ pend' = [pend EXCEPT ![r] = NoWrite]
          /\ UNCHANGED <<rows, req>>
        BY <1>14 DEF HangUp, Answer, EndTx, db
    <2>2. TypeOK'
        BY <1>14 DEF HangUp, Answer, EndTx, db, Inv, TypeOK, Replies
    <2> QED
        BY <2>1, <2>2, LeaveTx DEF Inv, Exits
<1>15. CASE Idle
    BY <1>1, <1>15 DEF Idle
<1> QED
    BY <1>1, <1>2, <1>3, <1>4, <1>5, <1>6, <1>7, <1>8, <1>9, <1>10, <1>11, <1>12, <1>13, <1>14, <1>15
    DEF Next, Step

(***************************************************************************)
(* The theorems.                                                           *)
(***************************************************************************)

\* The inductive invariant holds in every state of every behaviour.
THEOREM InvHolds == Spec => []Inv
<1>1. Init => Inv
    BY InitInv
<1>2. Inv /\ [Next]_vars => Inv'
    BY NextInv
<1> QED
    BY <1>1, <1>2, PTL DEF Spec

\* Type correctness of the tables and of every goroutine's state.
THEOREM TypeCorrect == Spec => []TypeOK
<1>1. Inv => TypeOK
    BY DEF Inv
<1> QED
    BY <1>1, InvHolds, PTL

\* No room and no speaker is ever double-booked (EXCLUDE constraints of
\* sessions_no_overlap_excl.up.sql under Create, Update and Delete).
THEOREM NeverDoubleBooked == Spec => []NoDoubleBooking
<1>1. Inv => NoDoubleBooking
    BY DEF Inv
<1> QED
    BY <1>1, InvHolds, PTL

\* A checked slot stays free of everybody else until its transaction ends.
THEOREM SlotsStaySecured == Spec => []SlotsSecured
<1>1. Inv => SlotsSecured
    BY DEF Inv
<1> QED
    BY <1>1, InvHolds, PTL

\* An open transaction owns the row it is about to replace.
THEOREM WritersKeepRows == Spec => []WritersOwnRows
<1>1. Inv => WritersOwnRows
    BY DEF Inv
<1> QED
    BY <1>1, InvHolds, PTL

\* Calendar.tla speaks of the same rows.
LEMMA SameRows ==
    /\ Cal!Row = Row /\ Cal!TimeRange = TimeRange /\ Cal!Index = Index
    /\ \A k, a, b : Cal!Clash(k, a, b) <=> Clash(k, a, b)
    /\ \A a : Cal!Bump(a) = Bump(a)
    /\ \A t : Cal!ClashFree(t) <=> ClashFree(t)
BY DEF Cal!Row, Row, Cal!TimeRange, TimeRange, Cal!Index, Index, Cal!Clash, Clash, Cal!Overlap, Overlap,
       Cal!Bump, Bump, Cal!ClashFree, ClashFree, Cal!Rooms, Rooms

\* A row is its six columns.
LEMMA RowExtensional ==
    ASSUME NEW a \in Row, NEW b \in Row,
           a.room = b.room, a.speaker = b.speaker, a.range = b.range,
           a.version = b.version, a.live = b.live, a.series = b.series
    PROVE  a = b
BY DEF Row

\* A commit is one step of the calendar.
LEMMA CommitIsCalendarStep ==
    ASSUME Inv, NEW r \in Requests, Commit(r) \/ HangUpInCommit(r)
    PROVE  Cal!Next
<1> DEFINE i == pend[r].id  old == rows[i]  new == pend[r].row
<1>1. i \in Ids /\ new \in Row /\ rows' = [rows EXCEPT ![i] = new] /\ rows'[i] = new
    BY CommitStep DEF Inv, TypeOK
<1>2. Writing(r) /\ pc[r] = "commit"
    BY DEF Inv, WritersOwnRows, Commit, HangUpInCommit
<1>3. \A j \in Ids \ {i} : \A k \in Index : rows[j] # NoRow => ~Clash(k, rows[j], new)
    BY <1>2 DEF Inv, SlotsSecured, Past
<1>4. Cal!Free(i, rows'[i])
    BY <1>1, <1>3, SameRows DEF Cal!Free
<1>5. CASE req[r].op \in {"create", "series"}
    <2>1. old = NoRow /\ new.version = 1 /\ new.live
        BY <1>2, <1>5 DEF Inv, WritersOwnRows
    <2>2. rows'[i] \in Cal!Row /\ rows'[i].version = 1 /\ rows'[i].live
        BY <1>1, <2>1, SameRows
    <2>3. rows' = [rows EXCEPT ![i] = rows'[i]] /\ rows[i] = NoRow
        BY <1>1, <2>1
    <2>4. Cal!Book(i, rows'[i])
        BY <1>4, <2>2, <2>3 DEF Cal!Book
    <2> QED
        BY <1>1, <2>4 DEF Cal!Next
<1>6. CASE req[r].op \notin {"create", "series"}
    <2>1. /\ old # NoRow /\ old.live
          /\ new.version = old.version + 1
          /\ new.room = old.room /\ new.speaker = old.speaker /\ new.series = old.series
          /\ new.live \/ new.range = old.range
        BY <1>2, <1>6 DEF Inv, WritersOwnRows
    <2>2. old \in Row
        BY <1>1, <2>1 DEF Inv, TypeOK
    <2>3. /\ Bump(old) \in Row
          /\ Bump(old).room = old.room /\ Bump(old).speaker = old.speaker /\ Bump(old).series = old.series
          /\ Bump(old).range = old.range /\ Bump(old).live = old.live /\ Bump(old).version = old.version + 1
        BY <2>2 DEF Bump, Row
    <2>4. CASE new.live
        <3>1. new = [Bump(old) EXCEPT !.range = new.range]
            <4> DEFINE b == Bump(old)
            <4> HIDE DEF b
            <4>1. b \in Row
                BY <2>3 DEF b
            <4>2. [b EXCEPT !.range = new.range] \in Row
                BY <1>1, <4>1 DEF Row
            <4>3. new.live = b.live
                BY <1>1, <2>1, <2>2, <2>3, <2>4 DEF b, Row
            <4>4. [b EXCEPT !.range = new.range].live = b.live
                BY <4>1 DEF Row
            <4>5. [b EXCEPT !.range = new.range].range = new.range
                BY <4>1 DEF Row
            <4>6. /\ [b EXCEPT !.range = new.range].room = b.room
                  /\ [b EXCEPT !.range = new.range].speaker = b.speaker
                  /\ [b EXCEPT !.range = new.range].series = b.series
                  /\ [b EXCEPT !.range = new.range].version = b.version
                BY <4>1 DEF Row
            <4>7. new.room = b.room /\ new.speaker = b.speaker /\ new.series = b.series /\ new.version = b.version
                BY <2>1, <2>3 DEF b
            <4>8. new = [b EXCEPT !.range = new.range]
                BY <1>1, <4>2, <4>3, <4>4, <4>5, <4>6, <4>7, RowExtensional
            <4> QED
                BY <4>8 DEF b
        <3>2. Cal!Free(i, [old EXCEPT !.range = rows'[i].range])
            <4>1. ASSUME NEW k \in Index, NEW a, ~Clash(k, a, new)
                  PROVE  ~Clash(k, a, [old EXCEPT !.range = new.range])
                BY <2>1, <2>2, <2>4, <4>1 DEF Clash, Index, Row
            <4> QED
                BY <1>1, <1>3, <4>1, SameRows DEF Cal!Free
        <3>3. Cal!Revise(i, rows'[i].range)
            <4>1. rows[i] # NoRow /\ rows[i].live
                BY <1>1, <2>1
            <4>2. rows'[i].range \in Cal!TimeRange
                BY <1>1, SameRows DEF Row
            <4>3. rows' = [rows EXCEPT ![i] = [Cal!Bump(@) EXCEPT !.range = rows'[i].range]]
                BY <1>1, <2>1, <3>1, SameRows
            <4>4. Cal!Free(i, [rows[i] EXCEPT !.range = rows'[i].range])
                BY <2>1, <3>2
            <4> QED
                BY <4>1, <4>2, <4>3, <4>4 DEF Cal!Revise
        <3> QED
            BY <1>1, <3>3 DEF Cal!Next
    <2>5. CASE ~new.live
        <3>1. new = [Bump(old) EXCEPT !.live = FALSE]
            <4> DEFINE b == Bump(old)
            <4> HIDE DEF b
            <4>1. b \in Row
                BY <2>3 DEF b
            <4>2. /\ [b EXCEPT !.live = FALSE] \in Row
                  /\ [b EXCEPT !.live = FALSE].live = FALSE
                  /\ [b EXCEPT !.live = FALSE].room = b.room
                  /\ [b EXCEPT !.live = FALSE].speaker = b.speaker
                  /\ [b EXCEPT !.live = FALSE].series = b.series
                  /\ [b EXCEPT !.live = FALSE].version = b.version
                  /\ [b EXCEPT !.live = FALSE].range = b.range
                BY <4>1 DEF Row
            <4>3. /\ new.live = FALSE /\ new.room = b.room /\ new.speaker = b.speaker
                  /\ new.series = b.series /\ new.version = b.version /\ new.range = b.range
                BY <1>1, <2>1, <2>3, <2>5 DEF b, Row
            <4>4. new = [b EXCEPT !.live = FALSE]
                BY <1>1, <4>2, <4>3, RowExtensional
            <4> QED
                BY <4>4 DEF b
        <3>2. Cal!Cancel(i)
            BY <1>1, <2>1, <3>1, SameRows DEF Cal!Cancel
        <3> QED
            BY <1>1, <3>2 DEF Cal!Next
    <2> QED
        BY <2>4, <2>5
<1> QED
    BY <1>5, <1>6

\* The endpoints implement the calendar: however statements interleave, the
\* table changes one session at a time and only into slots that are free.
THEOREM SessionsImplementCalendar == Spec => ImplementsCalendar
<1>1. Init => Cal!Init
    BY InitInv, SameRows DEF Inv, TypeOK, NoDoubleBooking, Cal!Init
<1>2. Inv /\ [Next]_vars => [Cal!Next]_rows
    BY NextInv, CommitIsCalendarStep
<1> QED
    BY <1>1, <1>2, InvHolds, PTL DEF Spec, ImplementsCalendar, Cal!Spec

(***************************************************************************)
(* The log.  What is recorded of a session is its history, and what a      *)
(* request answers is what it wrote; for the proof a request that has not  *)
(* answered yet has told the truth so far.                                 *)
(***************************************************************************)
\* A request in the middle of its work: it has not answered, it waits for
\* somebody only in a statement that can block, and the occurrence a series
\* is at is the one after those it has results for.
Standing(r) ==
    /\ pc[r] # "done" => reply[r] = "none"
    /\ waits[r] # NoOne => pc[r] \in {"write", "room", "speaker"}
    /\ IF req[r].op = "series"
       THEN /\ pc[r] # "done" => Len(results[r]) < req[r].count
            /\ pc[r] \notin {"series", "done"} => r \in series
            /\ Writing(r) => /\ pend[r].row.series = r
                             /\ pend[r].row.range = Occurrence(req[r], Len(results[r]))
       ELSE results[r] = << >>
    /\ req[r].op = "create" /\ Writing(r) => pend[r].row.series = NoSeries

Ledger ==
    /\ AuditTrail
    /\ \A i \in Ids : rows[i] = NoRow => exceptions[i] = << >>
    /\ ExceptionsMatchAudit
    /\ \A r \in Requests : Standing(r) /\ IsFiniteSet(WritesBy(r))
    /\ AnswersTellTruth
    /\ SeriesAsAnswered

\* Every request asks for something a validated request may ask for, and a
\* series request has an id of its own.
LEMMA Asks ==
    ASSUME TypeOK, NEW r \in Requests
    PROVE  /\ req[r] \in Input /\ req[r].count \in Nat /\ req[r].step \in Nat
           /\ req[r].op \in {"create", "update", "delete", "series"}
           /\ r \in SeriesIds /\ r # NoSeries /\ r # NoOne
           /\ results[r] \in Seq({"created", "session_conflict"}) /\ Len(results[r]) \in Nat
           /\ reply[r] \in Replies
<1>1. req[r] \in Input /\ r \in SeriesIds
    BY RequestsAssumption DEF TypeOK
<1> QED
    BY <1>1, RequestsAssumption, NullsAssumption DEF Input, TypeOK

\* A result list is finite, and so is what it reports as created.
LEMMA CreatedFinite ==
    ASSUME TypeOK, NEW r \in Requests
    PROVE  /\ IsFiniteSet(Created(r)) /\ Cardinality(Created(r)) \in Nat
           /\ Len(results[r]) + 1 \notin Created(r)
           /\ results[r] = << >> => Created(r) = {}
<1>1. Len(results[r]) \in Nat
    BY Asks
<1>2. IsFiniteSet(1 .. Len(results[r]))
    BY <1>1, FS_Interval
<1>3. Created(r) \in SUBSET (1 .. Len(results[r]))
    BY DEF Created
<1>4. IsFiniteSet(Created(r))
    BY <1>2, <1>3, FS_Subset
<1> QED
    BY <1>1, <1>3, <1>4, FS_CardinalityType

\* One more result is one more created occurrence or none.
LEMMA OneMoreResult ==
    ASSUME TypeOK, NEW r \in Requests, NEW code \in {"created", "session_conflict"},
           results' = [results EXCEPT ![r] = Append(@, code)]
    PROVE  /\ Created(r)' = IF code = "created" THEN Created(r) \cup {Len(results[r]) + 1} ELSE Created(r)
           /\ Len(results'[r]) = Len(results[r]) + 1
<1>1. results[r] \in Seq({"created", "session_conflict"}) /\ Len(results[r]) \in Nat
    BY Asks
<1>2. results'[r] = Append(results[r], code)
    BY DEF TypeOK
<1>3. /\ Len(results'[r]) = Len(results[r]) + 1
      /\ results'[r][Len(results[r]) + 1] = code
      /\ \A n \in 1 .. Len(results[r]) : results'[r][n] = results[r][n]
    BY <1>1, <1>2
<1>4. \A n : n \in 1 .. Len(results'[r]) <=> n \in 1 .. Len(results[r]) \/ n = Len(results[r]) + 1
    BY <1>1, <1>3
<1>5. \A n : n \in Created(r)' <=> n \in Created(r) \/ (n = Len(results[r]) + 1 /\ code = "created")
    BY <1>3, <1>4 DEF Created
<1> QED
    BY <1>3, <1>5

\* What is said of a request stays true while neither the log nor anything
\* of its own changes.
LEMMA Undisturbed ==
    ASSUME NEW u \in Requests, req' = req, series \subseteq series',
           pc'[u] = pc[u], pend'[u] = pend[u], results'[u] = results[u], reply'[u] = reply[u],
           waits'[u] \in {waits[u], NoOne},
           WritesBy(u)' = WritesBy(u), req[u].op = "series" => Made(u)' = Made(u),
           Standing(u), AnswersTellTruth!(u), SeriesAsAnswered!(u)
    PROVE  Standing(u)' /\ AnswersTellTruth!(u)' /\ SeriesAsAnswered!(u)'
<1>1. Standing(u)'
    BY DEF Standing, Writing, Occurrence
<1>2. Created(u)' = Created(u)
    BY DEF Created
<1>3. Told(u)' = Told(u)
    BY <1>2 DEF Told, Occurrence
<1>4. AnswersTellTruth!(u)'
    BY <1>2
<1>5. SeriesAsAnswered!(u)'
    BY <1>3 DEF Occurrence
<1> QED
    BY <1>1, <1>4, <1>5

\* A step of r that writes no table but session_series keeps the ledger as
\* long as it neither reports nor answers a success nobody has recorded.
LEMMA QuietStep ==
    ASSUME Inv, Inv', Ledger, NEW r \in Requests, pc[r] # "done",
           UNCHANGED <<rows, audit, exceptions, req>>, series \subseteq series',
           \A u \in Requests \ {r} : /\ pc'[u] = pc[u] /\ pend'[u] = pend[u]
                                     /\ results'[u] = results[u] /\ reply'[u] = reply[u]
                                     /\ waits'[u] \in {waits[u], NoOne},
           Created(r)' = Created(r), Standing(r)',
           reply'[r] \in {"created", "ok", "no_content"} =>
               reply'[r] = "created" /\ req[r].op = "series" /\ Len(results'[r]) = req[r].count
    PROVE  Ledger'
<1>1. AuditTrail' /\ ExceptionsMatchAudit' /\ \A i \in Ids : rows'[i] = NoRow => exceptions'[i] = << >>
    BY DEF Ledger, AuditTrail, ExceptionsMatchAudit
<1>2. \A u \in Requests : WritesBy(u)' = WritesBy(u) /\ Made(u)' = Made(u)
    BY DEF WritesBy, Made
<1>3. ASSUME NEW u \in Requests \ {r} PROVE Standing(u)' /\ AnswersTellTruth!(u)' /\ SeriesAsAnswered!(u)'
    <2>1. Standing(u) /\ AnswersTellTruth!(u) /\ SeriesAsAnswered!(u)
        BY DEF Ledger, AnswersTellTruth, SeriesAsAnswered
    <2> QED
        BY <1>2, <2>1, Undisturbed
<1>4. reply[r] = "none"
    BY DEF Ledger, Standing
<1>5. AnswersTellTruth!(r)'
    <2>1. AnswersTellTruth!(r)
        BY DEF Ledger, AnswersTellTruth
    <2>2. Cardinality(WritesBy(r)) = IF req[r].op = "series" THEN Cardinality(Created(r)) ELSE 0
        BY <1>4, <2>1
    <2> QED
        BY <1>2, <2>2
<1>6. SeriesAsAnswered!(r)'
    <2>1. SeriesAsAnswered!(r)
        BY DEF Ledger, SeriesAsAnswered
    <2>2. Told(r)' = Told(r)
        BY DEF Told, Occurrence
    <2>3. req[r].op = "series" => Made(r) = Told(r) /\ (Made(r) # {} => r \in series)
        BY <1>4, <2>1
    <2> QED
        BY <1>2, <2>2, <2>3
<1> QED
    BY <1>1, <1>2, <1>3, <1>5, <1>6 DEF Ledger, AnswersTellTruth, SeriesAsAnswered

\* A failing statement reports a conflict or answers with an error.
LEMMA FailLedger ==
    ASSUME Inv, Inv', Ledger, NEW r \in Requests, pc[r] \notin {"series", "done"},
           NEW code \in {"session_conflict", "room_not_found", "speaker_not_found", "internal"},
           Fail(r, code)
    PROVE  Ledger'
<1> DEFINE said == WriteError(r, code)
<1>1. said \in {"session_conflict", "room_not_found", "speaker_not_found", "internal"}
    BY DEF WriteError
<1>2. /\ UNCHANGED <<rows, audit, exceptions, series, req>>
      /\ pend' = [pend EXCEPT ![r] = NoWrite] /\ waits'[r] = NoOne
      /\ \A u \in Requests : waits'[u] \in {waits[u], NoOne}
    BY DEF Fail, EndTx, db, Inv, TypeOK
<1>3. Conclude(r, said)
    BY DEF Fail
<1> HIDE DEF said
<1>4. reply[r] = "none" /\ (req[r].op = "series" => Len(results[r]) < req[r].count)
    BY DEF Ledger, Standing
<1>5. pend'[r] = NoWrite /\ \A u \in Requests \ {r} : pend'[u] = pend[u]
    BY <1>2 DEF Inv, TypeOK
<1>6. ~Writing(r)'
    BY <1>5 DEF Writing
<1>7. /\ req[r].count \in Nat /\ Len(results[r]) \in Nat
      /\ req[r].op # "series" => results[r] = << >>
    BY Asks DEF Inv, Ledger, Standing
<1>8. CASE req[r].op = "series" /\ said = "session_conflict"
    <2>1. results' = [results EXCEPT ![r] = Append(@, said)]
        BY <1>3, <1>8 DEF Conclude
    <2>2. Created(r)' = Created(r) /\ Len(results'[r]) = Len(results[r]) + 1
        BY <1>8, <2>1, OneMoreResult DEF Inv
    <2>3. IF Len(results[r]) + 1 < req[r].count
          THEN pc' = [pc EXCEPT ![r] = "insert"] /\ reply' = reply
          ELSE pc' = [pc EXCEPT ![r] = "done"] /\ reply' = [reply EXCEPT ![r] = "created"]
        BY <1>3, <1>8 DEF Conclude, Answer
    <2>4. /\ \A u \in Requests \ {r} : results'[u] = results[u] /\ reply'[u] = reply[u] /\ pc'[u] = pc[u]
          /\ IF Len(results[r]) + 1 < req[r].count
             THEN pc'[r] = "insert" /\ reply'[r] = "none"
             ELSE pc'[r] = "done" /\ reply'[r] = "created"
        BY <1>4, <2>1, <2>3 DEF Inv, TypeOK
    <2>5. r \in series
        BY <1>8 DEF Ledger, Standing
    <2>6. Standing(r)'
        BY <1>2, <1>6, <1>7, <1>8, <2>2, <2>4, <2>5 DEF Standing
    <2> QED
        BY <1>2, <1>4, <1>5, <1>7, <1>8, <2>2, <2>4, <2>6, QuietStep
<1>9. CASE ~(req[r].op = "series" /\ said = "session_conflict")
    <2>1. /\ results' = results
          /\ pc' = [pc EXCEPT ![r] = "done"] /\ reply' = [reply EXCEPT ![r] = said]
        BY <1>1, <1>3, <1>9 DEF Conclude, Answer
    <2>2. /\ \A u \in Requests \ {r} : reply'[u] = reply[u] /\ pc'[u] = pc[u]
          /\ pc'[r] = "done" /\ reply'[r] = said
        BY <2>1 DEF Inv, TypeOK
    <2>3. Standing(r)'
        BY <1>2, <1>6, <1>7, <2>1, <2>2 DEF Standing
    <2>4. Created(r)' = Created(r)
        BY <2>1 DEF Created
    <2> QED
        BY <1>1, <1>2, <1>5, <2>1, <2>2, <2>3, <2>4, QuietStep
<1> QED
    BY <1>8, <1>9

\* Steps that fail nothing and commit nothing.
LEMMA StatementLedger ==
    ASSUME Inv, Inv', Ledger, NEW r \in Requests,
           \/ InsertSeries(r) \/ Insert(r)
           \/ WriteMiss(r) \/ Write(r) \/ Diagnose(r) \/ ShowCurrent(r)
           \/ \E u \in Requests : AwaitRow(r, u)
           \/ \E k \in Index, u \in Requests : AwaitClash(r, k, u)
           \/ PassRoom(r) \/ PassSpeaker(r)
           \/ HangUp(r)
    PROVE  Ledger'
<1> DEFINE step == /\ UNCHANGED <<rows, audit, exceptions, req>> /\ series \subseteq series'
                   /\ UNCHANGED results
                   /\ \A u \in Requests \ {r} : /\ pc'[u] = pc[u] /\ pend'[u] = pend[u] /\ reply'[u] = reply[u]
                                                /\ waits'[u] \in {waits[u], NoOne}
<1>1. /\ pc[r] # "done" => reply[r] = "none"
      /\ waits[r] # NoOne => pc[r] \in {"write", "room", "speaker"}
      /\ IF req[r].op = "series"
         THEN /\ pc[r] # "done" => Len(results[r]) < req[r].count
              /\ pc[r] \notin {"series", "done"} => r \in series
              /\ Writing(r) => /\ pend[r].row.series = r
                               /\ pend[r].row.range = Occurrence(req[r], Len(results[r]))
         ELSE results[r] = << >>
      /\ req[r].op = "create" /\ Writing(r) => pend[r].row.series = NoSeries
    BY DEF Ledger, Standing
<1>2. ASSUME step, pc[r] # "done", Standing(r)', reply'[r] \notin {"created", "ok", "no_content"}
      PROVE  Ledger'
    <2>1. Created(r)' = Created(r)
        BY <1>2 DEF Created
    <2> QED
        BY <1>2, <2>1, QuietStep
<1>3. CASE InsertSeries(r)
    <2>1. /\ step /\ pend' = pend /\ waits' = waits /\ pc[r] = "series"
          /\ \/ pc'[r] = "insert" /\ reply'[r] = reply[r] /\ r \in series'
             \/ pc'[r] = "done" /\ reply'[r] = "internal"
        BY <1>3 DEF InsertSeries, Answer, Inv, TypeOK
    <2>2. Standing(r)'
        BY <1>1, <2>1 DEF Standing, Writing, Inv, WritersOwnRows
    <2> QED
        BY <1>1, <1>2, <2>1, <2>2
<1>4. CASE Insert(r)
    <2>1. /\ step /\ waits' = waits /\ series' = series /\ reply' = reply
          /\ pc[r] = "insert" /\ pc'[r] = "room"
          /\ pend'[r].row = NewRow(r)
        BY <1>4 DEF Insert, db, Inv, TypeOK
    <2>2. /\ NewRow(r).series = (IF req[r].op = "series" THEN r ELSE NoSeries)
          /\ req[r].op = "series" => NewRow(r).range = Occurrence(req[r], Len(results[r]))
        BY DEF NewRow
    <2>3. Standing(r)'
        BY <1>1, <2>1, <2>2 DEF Standing, Writing, Occurrence
    <2> QED
        BY <1>1, <1>2, <2>1, <2>3
<1>5. CASE WriteMiss(r) \/ Diagnose(r) \/ ShowCurrent(r)
    <2>1. /\ step /\ waits' = waits /\ pend' = pend /\ series' = series
          /\ pc[r] \in {"write", "diagnose", "current"}
          /\ \/ pc'[r] \in {"diagnose", "current"} /\ reply'[r] = reply[r] /\ waits[r] = NoOne
             \/ pc'[r] = "done" /\ reply'[r] \in {"not_found", "version_conflict"} /\ waits[r] = NoOne
        BY <1>1, <1>5 DEF WriteMiss, Diagnose, ShowCurrent, Answer, db, Inv, TypeOK
    <2>2. req[r].op \in {"update", "delete"} /\ results[r] = << >>
        BY <1>1, <2>1 DEF Inv, OnTrack
    <2>3. Standing(r)'
        BY <1>1, <2>1, <2>2 DEF Standing
    <2> QED
        BY <1>1, <1>2, <2>1, <2>3
<1>6. CASE Write(r)
    <2>1. /\ step /\ waits' = waits /\ series' = series /\ reply' = reply
          /\ pc[r] = "write" /\ pc'[r] \in {"room", "commit"} /\ waits[r] = NoOne
        BY <1>6 DEF Write, db, Inv, TypeOK
    <2>2. req[r].op \in {"update", "delete"} /\ results[r] = << >>
        BY <1>1, <2>1 DEF Inv, OnTrack
    <2>3. Standing(r)'
        BY <1>1, <2>1, <2>2 DEF Standing
    <2> QED
        BY <1>1, <1>2, <2>1, <2>3
<1>7. CASE \/ \E u \in Requests : AwaitRow(r, u)
           \/ \E k \in Index, u \in Requests : AwaitClash(r, k, u)
    <2>1. /\ step /\ pend' = pend /\ series' = series /\ reply' = reply
          /\ pc[r] \in {"write", "room", "speaker"} /\ pc'[r] = pc[r]
        BY <1>7 DEF AwaitRow, AwaitClash, db, Inv, TypeOK, Index
    <2>2. Standing(r)'
        BY <1>1, <2>1 DEF Standing, Writing, Occurrence
    <2> QED
        BY <1>1, <1>2, <2>1, <2>2
<1>8. CASE PassRoom(r) \/ PassSpeaker(r)
    <2>1. /\ step /\ pend' = pend /\ series' = series /\ reply' = reply /\ waits' = waits
          /\ pc[r] \in {"room", "speaker"} /\ pc'[r] \in {"speaker", "commit"} /\ waits[r] = NoOne
        BY <1>8 DEF PassRoom, PassSpeaker, Unopposed, db, Inv, TypeOK
    <2>2. Standing(r)'
        BY <1>1, <2>1 DEF Standing, Writing, Occurrence
    <2> QED
        BY <1>1, <1>2, <2>1, <2>2
<1>9. CASE HangUp(r)
    <2>1. /\ step /\ series' = series /\ waits'[r] = NoOne /\ pend'[r] = NoWrite
          /\ pc[r] # "done" /\ pc'[r] = "done" /\ reply'[r] = "gone"
        BY <1>9 DEF HangUp, Answer, EndTx, db, Inv, TypeOK
    <2>2. Standing(r)'
        BY <1>1, <2>1 DEF Standing, Writing
    <2> QED
        BY <1>2, <2>1, <2>2
<1> QED
    BY <1>3, <1>4, <1>5, <1>6, <1>7, <1>8, <1>9

\* The log of row i grows by r's entry: old becomes new.
Recorded(r, i, n, old, new) ==
    /\ i = pend[r].id /\ old = rows[i] /\ new = pend[r].row /\ n = Len(audit[i]) /\ new # NoRow
    /\ rows'[i] = new /\ \A j \in Ids \ {i} : rows'[j] = rows[j]
    /\ \A j \in Ids \ {i} : audit'[j] = audit[j] /\ exceptions'[j] = exceptions[j]
    /\ Len(audit'[i]) = n + 1 /\ \A m \in 1 .. n : audit'[i][m] = audit[i][m]
    /\ audit'[i][n + 1].actor = r /\ audit'[i][n + 1].action = ActionName(r)
    /\ audit'[i][n + 1].before = old /\ audit'[i][n + 1].after = new
    /\ IF req[r].op \in {"create", "series"}
       THEN /\ ActionName(r) = "create" /\ old = NoRow /\ new.version = 1 /\ new.live
            /\ exceptions'[i] = exceptions[i]
       ELSE /\ ActionName(r) = req[r].op /\ req[r].op \in {"update", "delete"}
            /\ old # NoRow /\ new.version = old.version + 1 /\ new.series = old.series
            /\ new.live <=> req[r].op # "delete"
            /\ exceptions'[i] =
                 IF old.series # NoSeries
                 THEN Append(exceptions[i],
                             [status |-> IF req[r].op = "delete" THEN "cancelled" ELSE "modified",
                              original |-> old.range.from])
                 ELSE exceptions[i]

\* A commit appends one entry to the log of the row it replaces.
LEMMA CommitEntry ==
    ASSUME Inv, NEW r \in Requests, Commit(r) \/ HangUpInCommit(r)
    PROVE  /\ \E i \in Ids, n \in Nat, old \in Row \cup {NoRow}, new \in Row : Recorded(r, i, n, old, new)
           /\ series' = series /\ req' = req /\ Writing(r)
<1> DEFINE i == pend[r].id  old == rows[i]  new == pend[r].row  n == Len(audit[i])
           e == [actor |-> r, action |-> ActionName(r), before |-> old, after |-> new]
<1>1. i \in Ids /\ new \in Row /\ rows' = [rows EXCEPT ![i] = new]
    BY CommitStep
<1>2. new # NoRow
    BY <1>1, NullsAssumption
<1>3. audit[i] \in Seq(AuditEntry) /\ n \in Nat /\ old \in Row \cup {NoRow}
    BY <1>1 DEF Inv, TypeOK
<1>4. pc[r] = "commit" /\ Apply(r) /\ req' = req
    BY DEF Commit, HangUpInCommit
<1>5. audit' = [audit EXCEPT ![i] = Append(audit[i], e)]
    BY <1>4 DEF Apply
<1>6. audit'[i] = Append(audit[i], e) /\ \A j \in Ids \ {i} : audit'[j] = audit[j]
    BY <1>1, <1>5 DEF Inv, TypeOK
<1>7. e.actor = r /\ e.action = ActionName(r) /\ e.before = old /\ e.after = new
    OBVIOUS
<1> HIDE DEF e
<1>8. /\ Len(audit'[i]) = n + 1 /\ \A m \in 1 .. n : audit'[i][m] = audit[i][m]
      /\ audit'[i][n + 1] = e
    BY <1>3, <1>6
<1>9. /\ \A j \in Ids \ {i} : exceptions'[j] = exceptions[j]
      /\ exceptions'[i] =
            IF ActionName(r) # "create" /\ old.series # NoSeries
            THEN Append(exceptions[i],
                        [status |-> IF req[r].op = "delete" THEN "cancelled" ELSE "modified",
                         original |-> old.range.from])
            ELSE exceptions[i]
    BY <1>1, <1>4 DEF Apply, Inv, TypeOK
<1>10. \A j \in Ids \ {i} : rows'[j] = rows[j]
    BY <1>1 DEF Inv, TypeOK
<1>11. series' = series /\ rows'[i] = new
    BY <1>1, <1>4 DEF Apply, Inv, TypeOK
<1>12. Writing(r)
    BY <1>4 DEF Inv, WritersOwnRows
<1>13. IF req[r].op \in {"create", "series"}
       THEN ActionName(r) = "create" /\ old = NoRow /\ new.version = 1 /\ new.live
       ELSE /\ ActionName(r) = req[r].op /\ req[r].op \in {"update", "delete"}
            /\ old # NoRow /\ new.version = old.version + 1 /\ new.series = old.series
            /\ new.live <=> req[r].op # "delete"
    <2>1. req[r].op \in {"create", "update", "delete", "series"}
        BY Asks DEF Inv
    <2> QED
        BY <1>12, <2>1 DEF Inv, WritersOwnRows, ActionName
<1> HIDE DEF i, old, new, n
<1>14. i = pend[r].id /\ old = rows[i] /\ new = pend[r].row /\ n = Len(audit[i])
    BY DEF i, old, new, n
<1>15. Recorded(r, i, n, old, new)
    BY <1>2, <1>6, <1>7, <1>8, <1>9, <1>10, <1>11, <1>13, <1>14 DEF Recorded
<1> QED
    BY <1>1, <1>3, <1>4, <1>11, <1>12, <1>15

\* The entry is the next chapter of the session's history.
LEMMA RecordedInAudit ==
    ASSUME Inv, Ledger, NEW r \in Requests, NEW i \in Ids, NEW n \in Nat,
           NEW old \in Row \cup {NoRow}, NEW new \in Row, Recorded(r, i, n, old, new)
    PROVE  AuditTrail'
<1>1. /\ rows[i] = NoRow <=> n = 0
      /\ old # NoRow => n = old.version /\ audit[i][n].after = old
      /\ \A m \in 1 .. n :
           /\ audit[i][m].after.version = m
           /\ audit[i][m].before = IF m = 1 THEN NoRow ELSE audit[i][m - 1].after
           /\ audit[i][m].after.live <=> audit[i][m].action # "delete"
    <2>1. AuditTrail!(i)
        BY DEF Ledger, AuditTrail
    <2>2. n = Len(audit[i]) /\ old = rows[i] /\ audit[i] \in Seq(AuditEntry)
        BY DEF Recorded, Inv, TypeOK
    <2> QED
        BY <2>1, <2>2
<1>2. /\ rows'[i] = new /\ new # NoRow /\ old = rows[i]
      /\ Len(audit'[i]) = n + 1 /\ \A m \in 1 .. n : audit'[i][m] = audit[i][m]
      /\ audit'[i][n + 1].action = ActionName(r)
      /\ audit'[i][n + 1].before = old /\ audit'[i][n + 1].after = new
    BY DEF Recorded
<1>3. new.version = n + 1 /\ (new.live <=> ActionName(r) # "delete")
    <2>1. CASE req[r].op \in {"create", "series"}
        <3>1. ActionName(r) = "create" /\ old = NoRow /\ new.version = 1 /\ new.live
            BY <2>1 DEF Recorded
        <3> QED
            BY <1>1, <1>2, <3>1
    <2>2. CASE req[r].op \notin {"create", "series"}
        <3>1. /\ ActionName(r) = req[r].op /\ old # NoRow /\ new.version = old.version + 1
              /\ new.live <=> req[r].op # "delete"
            BY <2>2 DEF Recorded
        <3> QED
            BY <1>1, <1>2, <3>1
    <2> QED
        BY <2>1, <2>2
<1>4. AuditTrail!(i)'
    <2>1. rows'[i] # NoRow /\ audit'[i] # << >>
        BY <1>2
    <2>2. Len(audit'[i]) = rows'[i].version /\ audit'[i][Len(audit'[i])].after = rows'[i]
        BY <1>2, <1>3
    <2>3. ASSUME NEW m \in 1 .. Len(audit'[i])
          PROVE  /\ audit'[i][m].after.version = m
                 /\ audit'[i][m].before = IF m = 1 THEN NoRow ELSE audit'[i][m - 1].after
                 /\ audit'[i][m].after.live <=> audit'[i][m].action # "delete"
        <3>1. CASE m \in 1 .. n
            <4>1. m # 1 => m - 1 \in 1 .. n
                BY <3>1
            <4>2. audit'[i][m] = audit[i][m] /\ (m # 1 => audit'[i][m - 1] = audit[i][m - 1])
                BY <1>2, <3>1, <4>1
            <4> QED
                BY <1>1, <3>1, <4>2
        <3>2. CASE m = n + 1
            <4>1. n # 0 => n \in 1 .. n /\ audit'[i][n] = audit[i][n] /\ m - 1 = n
                BY <1>2, <3>2
            <4> QED
                BY <1>1, <1>2, <1>3, <3>2, <4>1
        <3> QED
            BY <1>2, <2>3, <3>1, <3>2
    <2> QED
        BY <2>1, <2>2, <2>3
<1>5. ASSUME NEW j \in Ids \ {i} PROVE AuditTrail!(j)'
    <2>1. AuditTrail!(j) /\ rows'[j] = rows[j] /\ audit'[j] = audit[j]
        BY DEF Ledger, AuditTrail, Recorded
    <2> QED
        BY <2>1
<1> QED
    BY <1>4, <1>5 DEF AuditTrail

\* An occurrence that was patched or cancelled gets the exception row its
\* audit row stands for.
LEMMA RecordedInExceptions ==
    ASSUME Inv, Ledger, NEW r \in Requests, NEW i \in Ids, NEW n \in Nat,
           NEW old \in Row \cup {NoRow}, NEW new \in Row, Recorded(r, i, n, old, new)
    PROVE  ExceptionsMatchAudit' /\ \A j \in Ids : rows'[j] = NoRow => exceptions'[j] = << >>
<1>1. /\ rows'[i] = new /\ new # NoRow /\ old = rows[i] /\ n = Len(audit[i])
      /\ Len(audit'[i]) = n + 1 /\ \A m \in 1 .. n : audit'[i][m] = audit[i][m]
      /\ audit'[i][n + 1].action = ActionName(r)
    BY DEF Recorded
<1>2. (old = NoRow => n = 0) /\ (old # NoRow => n # 0 /\ audit[i][n].after = old)
    <2>1. AuditTrail!(i) /\ audit[i] \in Seq(AuditEntry)
        BY DEF Ledger, AuditTrail, Inv, TypeOK
    <2> QED
        BY <1>1, <2>1
<1>3. ExceptionsMatchAudit!(i)'
    <2>1. CASE req[r].op \in {"create", "series"}
        <3>1. exceptions'[i] = << >> /\ n = 0
            BY <1>1, <1>2, <2>1 DEF Ledger, Recorded
        <3> QED
            BY <1>1, <3>1
    <2>2. CASE req[r].op \notin {"create", "series"} /\ new.series = NoSeries
        <3>1. exceptions'[i] = << >>
            BY <1>1, <2>2 DEF Ledger, ExceptionsMatchAudit, Recorded
        <3> QED
            BY <1>1, <2>2, <3>1
    <2>3. CASE req[r].op \notin {"create", "series"} /\ new.series # NoSeries
        <3> DEFINE e == [status |-> IF req[r].op = "delete" THEN "cancelled" ELSE "modified",
                         original |-> old.range.from]
        <3>1. exceptions'[i] = Append(exceptions[i], e)
            BY <2>3 DEF Recorded
        <3> HIDE DEF e
        <3>2. old # NoRow /\ old.series # NoSeries /\ ActionName(r) = req[r].op
            BY <2>3 DEF Recorded
        <3>3. /\ Len(exceptions[i]) = n - 1
              /\ \A m \in 1 .. n - 1 :
                   exceptions[i][m] =
                     [status |-> IF audit[i][m + 1].action = "delete" THEN "cancelled" ELSE "modified",
                      original |-> audit[i][m].after.range.from]
            BY <1>1, <3>2 DEF Ledger, ExceptionsMatchAudit
        <3>4. exceptions[i] \in Seq([status : {"modified", "cancelled"}, original : Int])
            BY DEF Inv, TypeOK
        <3>5. /\ Len(exceptions'[i]) = n /\ exceptions'[i][n] = e
              /\ \A m \in 1 .. n - 1 : exceptions'[i][m] = exceptions[i][m]
            BY <1>2, <3>1, <3>2, <3>3, <3>4
        <3>6. ASSUME NEW m \in 1 .. n
              PROVE  exceptions'[i][m] =
                       [status |-> IF audit'[i][m + 1].action = "delete" THEN "cancelled" ELSE "modified",
                        original |-> audit'[i][m].after.range.from]
            <4>1. CASE m = n
                <5>1. audit'[i][m + 1].action = req[r].op /\ audit'[i][m].after = old
                    BY <1>1, <1>2, <3>2, <4>1
                <5> QED
                    BY <3>5, <4>1, <5>1 DEF e
            <4>2. CASE m \in 1 .. n - 1
                <5>1. m \in 1 .. n /\ m + 1 \in 1 .. n
                    BY <4>2
                <5>2. audit'[i][m + 1] = audit[i][m + 1] /\ audit'[i][m] = audit[i][m]
                    BY <1>1, <5>1
                <5> QED
                    BY <3>3, <3>5, <4>2, <5>2
            <4> QED
                BY <4>1, <4>2
        <3>7. Len(exceptions'[i]) = Len(audit'[i]) - 1
            BY <1>1, <3>5
        <3> QED
            BY <1>1, <2>3, <3>5, <3>6, <3>7
    <2> QED
        BY <2>1, <2>2, <2>3
<1>4. ASSUME NEW j \in Ids \ {i}
      PROVE  ExceptionsMatchAudit!(j)' /\ (rows'[j] = NoRow => exceptions'[j] = << >>)
    <2>1. /\ ExceptionsMatchAudit!(j) /\ (rows[j] = NoRow => exceptions[j] = << >>)
          /\ rows'[j] = rows[j] /\ audit'[j] = audit[j] /\ exceptions'[j] = exceptions[j]
        BY DEF Ledger, ExceptionsMatchAudit, Recorded
    <2> QED
        BY <2>1
<1> QED
    BY <1>1, <1>3, <1>4 DEF ExceptionsMatchAudit

\* Somebody's writes are the places of the log that name him.
LEMMA WritesInLog ==
    ASSUME NEW u
    PROVE  /\ \A w : w \in WritesBy(u) <=>
                \E j \in Ids : \E m \in 1 .. Len(audit[j]) : w = <<j, m>> /\ audit[j][m].actor = u
           /\ \A w : w \in WritesBy(u)' <=>
                \E j \in Ids : \E m \in 1 .. Len(audit'[j]) : w = <<j, m>> /\ audit'[j][m].actor = u
BY DEF WritesBy

\* An entry counts as one more write of its author and of nobody else.
LEMMA RecordedOnce ==
    ASSUME Inv, NEW r \in Requests, NEW i \in Ids, NEW n \in Nat,
           NEW old \in Row \cup {NoRow}, NEW new \in Row, Recorded(r, i, n, old, new)
    PROVE  /\ WritesBy(r)' = WritesBy(r) \cup {<<i, n + 1>>} /\ <<i, n + 1>> \notin WritesBy(r)
           /\ \A u \in Requests \ {r} : WritesBy(u)' = WritesBy(u)
<1>1. /\ n = Len(audit[i]) /\ Len(audit'[i]) = n + 1 /\ \A m \in 1 .. n : audit'[i][m] = audit[i][m]
      /\ audit'[i][n + 1].actor = r
      /\ \A j \in Ids \ {i} : audit'[j] = audit[j]
    BY DEF Recorded
<1>2. ASSUME NEW u, NEW w
      PROVE  w \in WritesBy(u)' <=> w \in WritesBy(u) \/ (w = <<i, n + 1>> /\ u = r)
    <2>1. ASSUME NEW j \in Ids, NEW m
          PROVE  m \in 1 .. Len(audit'[j]) /\ audit'[j][m].actor = u <=>
                   \/ m \in 1 .. Len(audit[j]) /\ audit[j][m].actor = u
                   \/ j = i /\ m = n + 1 /\ u = r
        <3>1. CASE j # i
            BY <1>1, <3>1
        <3>2. CASE j = i
            <4>1. m \in 1 .. Len(audit'[i]) <=> m \in 1 .. n \/ m = n + 1
                BY <1>1
            <4> QED
                BY <1>1, <3>2, <4>1
        <3> QED
            BY <3>1, <3>2
    <2> QED
        BY <2>1, WritesInLog
<1>3. <<i, n + 1>> \notin WritesBy(r)
    <2>1. \A j \in Ids : \A m \in 1 .. Len(audit[j]) : <<i, n + 1>> = <<j, m>> => j = i /\ m = n + 1
        OBVIOUS
    <2> QED
        BY <1>1, <2>1, WritesInLog
<1>4. WritesBy(r)' = WritesBy(r) \cup {<<i, n + 1>>}
    BY <1>2
<1>5. \A u \in Requests \ {r} : WritesBy(u)' = WritesBy(u)
    <2>1. ASSUME NEW u \in Requests \ {r} PROVE \A w : w \in WritesBy(u)' <=> w \in WritesBy(u)
        BY <1>2
    <2> QED
        BY <2>1
<1> QED
    BY <1>3, <1>4, <1>5

\* A session of a series is there from its first entry on, as that says.
LEMMA RecordedInSeries ==
    ASSUME Inv, Ledger, NEW r \in Requests, NEW i \in Ids, NEW n \in Nat,
           NEW old \in Row \cup {NoRow}, NEW new \in Row, Recorded(r, i, n, old, new),
           pc[r] # "done", Writing(r), UNCHANGED req
    PROVE  \A u \in Requests : req[u].op = "series" =>
             Made(u)' = IF u = r THEN Made(u) \cup {Occurrence(req[r], Len(results[r]))} ELSE Made(u)
<1>1. /\ rows'[i] = new /\ new # NoRow /\ old = rows[i] /\ n = Len(audit[i]) /\ new = pend[r].row
      /\ \A j \in Ids \ {i} : rows'[j] = rows[j] /\ audit'[j] = audit[j]
      /\ \A m \in 1 .. n : audit'[i][m] = audit[i][m]
      /\ audit'[i][n + 1].after = new
    BY DEF Recorded
<1>2. old = NoRow <=> n = 0
    <2>1. AuditTrail!(i) /\ audit[i] \in Seq(AuditEntry)
        BY DEF Ledger, AuditTrail, Inv, TypeOK
    <2> QED
        BY <1>1, <2>1
<1>3. SUFFICES ASSUME NEW u \in Requests, req[u].op = "series"
               PROVE  Made(u)' = IF u = r THEN Made(u) \cup {Occurrence(req[r], Len(results[r]))} ELSE Made(u)
    OBVIOUS
<1>4. u # NoSeries
    BY Asks DEF Inv
<1>5. \A g : g \in Made(u) <=> \E j \in Ids : rows[j] # NoRow /\ rows[j].series = u /\ g = audit[j][1].after.range
    BY DEF Made
<1>6. \A g : g \in Made(u)' <=>
        \E j \in Ids : rows'[j] # NoRow /\ rows'[j].series = u /\ g = audit'[j][1].after.range
    BY DEF Made
<1>7. CASE old # NoRow
    <2>1. new.series = old.series /\ req[r].op \notin {"create", "series"}
        BY <1>7 DEF Recorded
    <2>2. audit'[i][1] = audit[i][1]
        BY <1>1, <1>2, <1>7
    <2>3. u # r
        BY <1>3, <2>1
    <2>4. \A j \in Ids : rows'[j] # NoRow /\ rows'[j].series = u <=> rows[j] # NoRow /\ rows[j].series = u
        BY <1>1, <1>7, <2>1
    <2>5. \A j \in Ids : audit'[j][1] = audit[j][1]
        BY <1>1, <2>2
    <2> QED
        <3>1. \A g : g \in Made(u)' <=> g \in Made(u)
            BY <1>5, <1>6, <2>4, <2>5
        <3> QED
            BY <2>3, <3>1
<1>8. CASE old = NoRow
    <2>1. req[r].op \in {"create", "series"}
        BY <1>8 DEF Recorded
    <2>2. /\ req[r].op = "series" => new.series = r /\ new.range = Occurrence(req[r], Len(results[r]))
          /\ req[r].op = "create" => new.series = NoSeries
        BY <1>1 DEF Ledger, Standing
    <2>3. audit'[i][1].after = new
        BY <1>1, <1>2, <1>8
    <2>4. new.series = u <=> u = r
        BY <1>3, <1>4, <2>1, <2>2
    <2>5. \A g : g \in Made(u)' <=> g \in Made(u) \/ (new.series = u /\ g = new.range)
        <3>1. ASSUME NEW j \in Ids, j # i, NEW g
              PROVE  rows'[j] # NoRow /\ rows'[j].series = u /\ g = audit'[j][1].after.range
                       <=> rows[j] # NoRow /\ rows[j].series = u /\ g = audit[j][1].after.range
            BY <1>1, <3>1
        <3>2. rows[i] = NoRow /\ rows'[i] # NoRow /\ rows'[i].series = new.series /\ audit'[i][1].after.range = new.range
            BY <1>1, <1>8, <2>3
        <3> QED
            BY <1>5, <1>6, <3>1, <3>2
    <2>6. CASE u = r
        BY <1>3, <2>2, <2>4, <2>5, <2>6
    <2>7. CASE u # r
        <3>1. \A g : g \in Made(u)' <=> g \in Made(u)
            BY <2>4, <2>5, <2>7
        <3> QED
            BY <2>7, <3>1
    <2> QED
        BY <2>6, <2>7
<1> QED
    BY <1>7, <1>8

\* A commit keeps the ledger, whether its client is there to hear of it or
\* not.
LEMMA CommitLedger ==
    ASSUME Inv, Inv', Ledger, NEW r \in Requests, Commit(r) \/ HangUpInCommit(r)
    PROVE  Ledger'
<1>1. /\ pc[r] = "commit" /\ series' = series /\ req' = req /\ Writing(r)
      /\ pend' = [pend EXCEPT ![r] = NoWrite]
      /\ waits'[r] = NoOne /\ \A u \in Requests : waits'[u] \in {waits[u], NoOne}
      /\ \E i \in Ids, n \in Nat, old \in Row \cup {NoRow}, new \in Row : Recorded(r, i, n, old, new)
    BY CommitEntry DEF Commit, HangUpInCommit, EndTx
<1>2. PICK i \in Ids, n \in Nat, old \in Row \cup {NoRow}, new \in Row : Recorded(r, i, n, old, new)
    BY <1>1
<1>3. AuditTrail' /\ ExceptionsMatchAudit' /\ \A j \in Ids : rows'[j] = NoRow => exceptions'[j] = << >>
    BY <1>2, RecordedInAudit, RecordedInExceptions
<1>4. /\ WritesBy(r)' = WritesBy(r) \cup {<<i, n + 1>>} /\ <<i, n + 1>> \notin WritesBy(r)
      /\ \A u \in Requests \ {r} : WritesBy(u)' = WritesBy(u)
    BY <1>2, RecordedOnce
<1>5. \A u \in Requests : req[u].op = "series" =>
         Made(u)' = IF u = r THEN Made(u) \cup {Occurrence(req[r], Len(results[r]))} ELSE Made(u)
    BY <1>1, <1>2, RecordedInSeries
<1>6. /\ IsFiniteSet(WritesBy(r)')
      /\ Cardinality(WritesBy(r)') = Cardinality(WritesBy(r)) + 1 /\ Cardinality(WritesBy(r)) \in Nat
    BY <1>4, FS_AddElement, FS_CardinalityType DEF Ledger
<1>7. /\ reply[r] = "none"
      /\ IF req[r].op = "series" THEN Len(results[r]) < req[r].count /\ r \in series ELSE results[r] = << >>
    BY <1>1 DEF Ledger, Standing
<1>8. /\ Cardinality(WritesBy(r)) = IF req[r].op = "series" THEN Cardinality(Created(r)) ELSE 0
      /\ req[r].op = "series" => Made(r) = Told(r)
    <2>1. AnswersTellTruth!(r) /\ SeriesAsAnswered!(r)
        BY DEF Ledger, AnswersTellTruth, SeriesAsAnswered
    <2> QED
        BY <1>7, <2>1
<1>9. /\ req[r].op \in {"create", "update", "delete", "series"}
      /\ req[r].count \in Nat /\ Len(results[r]) \in Nat
      /\ IsFiniteSet(Created(r)) /\ Cardinality(Created(r)) \in Nat /\ Len(results[r]) + 1 \notin Created(r)
    BY Asks, CreatedFinite DEF Inv
<1>10. pend'[r] = NoWrite /\ \A u \in Requests \ {r} : pend'[u] = pend[u]
    BY <1>1 DEF Inv, TypeOK
<1>11. ~Writing(r)'
    BY <1>10 DEF Writing
<1>12. ASSUME NEW u \in Requests \ {r},
              pc'[u] = pc[u], results'[u] = results[u], reply'[u] = reply[u]
       PROVE  Standing(u)' /\ AnswersTellTruth!(u)' /\ SeriesAsAnswered!(u)' /\ IsFiniteSet(WritesBy(u)')
    <2>1. Standing(u) /\ AnswersTellTruth!(u) /\ SeriesAsAnswered!(u) /\ IsFiniteSet(WritesBy(u))
        BY DEF Ledger, AnswersTellTruth, SeriesAsAnswered
    <2>2. WritesBy(u)' = WritesBy(u) /\ (req[u].op = "series" => Made(u)' = Made(u))
        BY <1>4, <1>5
    <2>3. waits'[u] \in {waits[u], NoOne} /\ pend'[u] = pend[u] /\ series \subseteq series'
        BY <1>1, <1>10
    <2>4. Standing(u)' /\ AnswersTellTruth!(u)' /\ SeriesAsAnswered!(u)'
        BY <1>1, <1>12, <2>1, <2>2, <2>3, Undisturbed
    <2> QED
        BY <2>1, <2>2, <2>4
<1>13. CASE HangUpInCommit(r)
    <2>1. /\ results' = results /\ pc'[r] = "done" /\ reply'[r] = "gone"
          /\ \A u \in Requests \ {r} : pc'[u] = pc[u] /\ reply'[u] = reply[u]
        BY <1>13 DEF HangUpInCommit, Answer, Inv, TypeOK
    <2>2. Created(r)' = Created(r)
        BY <2>1 DEF Created
    <2>3. Told(r)' = Told(r)
        BY <1>1, <2>2 DEF Told, Occurrence
    <2>4. Standing(r)'
        BY <1>1, <1>7, <1>11, <2>1 DEF Standing
    <2>5. AnswersTellTruth!(r)'
        BY <1>1, <1>6, <1>8, <2>1, <2>2
    <2>6. SeriesAsAnswered!(r)'
        <3>1. Occurrence(req[r], Len(results[r]))' = Occurrence(req[r], Len(results[r]))
            BY <1>1, <2>1 DEF Occurrence
        <3> QED
            BY <1>1, <1>5, <1>7, <1>8, <2>1, <2>3, <3>1
    <2> QED
        BY <1>3, <1>6, <1>12, <2>1, <2>4, <2>5, <2>6 DEF Ledger, AnswersTellTruth, SeriesAsAnswered
<1>14. CASE Commit(r) /\ req[r].op # "series"
    <2>1. /\ results' = results /\ pc'[r] = "done" /\ reply'[r] = Success(req[r].op)
          /\ \A u \in Requests \ {r} : pc'[u] = pc[u] /\ reply'[u] = reply[u]
        BY <1>14 DEF Commit, Conclude, Answer, Inv, TypeOK
    <2>2. reply'[r] \in {"created", "ok", "no_content"}
        BY <1>9, <2>1 DEF Success
    <2>3. Standing(r)'
        BY <1>1, <1>7, <1>11, <1>14, <2>1 DEF Standing
    <2>4. AnswersTellTruth!(r)'
        BY <1>1, <1>6, <1>8, <1>14, <2>2
    <2>5. SeriesAsAnswered!(r)'
        BY <1>1, <1>14
    <2> QED
        BY <1>3, <1>6, <1>12, <2>1, <2>3, <2>4, <2>5 DEF Ledger, AnswersTellTruth, SeriesAsAnswered
<1>15. CASE Commit(r) /\ req[r].op = "series"
    <2>1. Conclude(r, "created")
        BY <1>15 DEF Commit, Success
    <2>2. /\ results' = [results EXCEPT ![r] = Append(@, "created")]
          /\ IF Len(results[r]) + 1 < req[r].count
             THEN pc' = [pc EXCEPT ![r] = "insert"] /\ reply' = reply
             ELSE pc' = [pc EXCEPT ![r] = "done"] /\ reply' = [reply EXCEPT ![r] = "created"]
        BY <1>15, <2>1 DEF Conclude, Answer
    <2>3. /\ \A u \in Requests \ {r} : results'[u] = results[u] /\ pc'[u] = pc[u] /\ reply'[u] = reply[u]
          /\ IF Len(results[r]) + 1 < req[r].count
             THEN pc'[r] = "insert" /\ reply'[r] = "none"
             ELSE pc'[r] = "done" /\ reply'[r] = "created"
        BY <1>7, <2>2 DEF Inv, TypeOK
    <2>4. Created(r)' = Created(r) \cup {Len(results[r]) + 1} /\ Len(results'[r]) = Len(results[r]) + 1
        BY <2>2, OneMoreResult DEF Inv
    <2>5. Told(r)' = Told(r) \cup {Occurrence(req[r], Len(results[r]))}
        <3>1. \A g : g \in Told(r)' <=> \E m \in Created(r)' : g = Occurrence(req[r], m - 1)
            BY <1>1 DEF Told, Occurrence
        <3>2. \A g : g \in Told(r) <=> \E m \in Created(r) : g = Occurrence(req[r], m - 1)
            BY DEF Told
        <3>3. (Len(results[r]) + 1) - 1 = Len(results[r])
            BY <1>9
        <3> QED
            BY <2>4, <3>1, <3>2, <3>3
    <2>6. Standing(r)'
        BY <1>1, <1>7, <1>9, <1>11, <1>15, <2>3, <2>4 DEF Standing
    <2>7. AnswersTellTruth!(r)'
        <3>1. Cardinality(Created(r)') = Cardinality(Created(r)) + 1
            BY <1>9, <2>4, FS_AddElement
        <3> QED
            BY <1>1, <1>6, <1>8, <1>15, <2>3, <3>1
    <2>8. SeriesAsAnswered!(r)'
        BY <1>1, <1>5, <1>7, <1>8, <1>9, <1>15, <2>3, <2>4, <2>5
    <2> QED
        BY <1>3, <1>6, <1>12, <2>3, <2>6, <2>7, <2>8 DEF Ledger, AnswersTellTruth, SeriesAsAnswered
<1> QED
    BY <1>13, <1>14, <1>15

\* The log of the sessions booked beforehand is one creation each, and
\* nobody has written or answered anything.
LEMMA InitLedger == Init => Ledger
<1> SUFFICES ASSUME Init PROVE Ledger
    OBVIOUS
<1>1. /\ rows = Booked /\ exceptions = [i \in Ids |-> << >>]
      /\ audit = [i \in Ids |-> IF Booked[i] = NoRow THEN << >>
                  ELSE <<[actor |-> NoOne, action |-> "create", before |-> NoRow, after |-> Booked[i]]>>]
      /\ \A r \in Requests : /\ pc[r] = FirstStatement(req[r].op) /\ pend[r] = NoWrite /\ waits[r] = NoOne
                             /\ results[r] = << >> /\ reply[r] = "none"
    BY DEF Init
<1>2. \A i \in Ids : Booked[i] # NoRow =>
         Booked[i] \in Row /\ Booked[i].version = 1 /\ Booked[i].live /\ Booked[i].series \notin Requests
    BY BookedAssumption
<1>3. AuditTrail /\ ExceptionsMatchAudit /\ \A i \in Ids : rows[i] = NoRow => exceptions[i] = << >>
    <2>1. ASSUME NEW i \in Ids PROVE AuditTrail!(i) /\ ExceptionsMatchAudit!(i)
        <3>1. CASE Booked[i] = NoRow
            BY <1>1, <3>1
        <3>2. CASE Booked[i] # NoRow
            BY <1>1, <1>2, <3>2
        <3> QED
            BY <3>1, <3>2
    <2> QED
        BY <1>1, <2>1 DEF AuditTrail, ExceptionsMatchAudit
<1>4. TypeOK
    BY InitInv DEF Inv
<1>5. ASSUME NEW r \in Requests
      PROVE  Standing(r) /\ WritesBy(r) = {} /\ Created(r) = {} /\ (req[r].op = "series" => Made(r) = {})
    <2>1. req[r].count \in Nat \ {0} /\ req[r].op \in {"create", "update", "delete", "series"} /\ r # NoOne
        BY <1>4, Asks DEF Input
    <2>2. Standing(r)
        BY <1>1, <2>1 DEF Standing, FirstStatement, Writing
    <2>3. WritesBy(r) = {}
        <3>1. ASSUME NEW i \in Ids, NEW n \in 1 .. Len(audit[i]) PROVE audit[i][n].actor # r
            BY <1>1, <2>1
        <3> QED
            BY <3>1, WritesInLog
    <2>4. Created(r) = {}
        BY <1>1, <1>4, CreatedFinite
    <2>5. Made(r) = {}
        BY <1>1, <1>2 DEF Made
    <2> QED
        BY <2>2, <2>3, <2>4, <2>5
<1>6. IsFiniteSet({}) /\ Cardinality({}) = 0
    BY FS_EmptySet
<1>7. AnswersTellTruth
    BY <1>1, <1>5, <1>6 DEF AnswersTellTruth
<1>8. SeriesAsAnswered
    <2>1. \A r \in Requests : req[r].op = "series" => Told(r) = {} /\ Made(r) = {} /\ reply[r] = "none"
        BY <1>1, <1>5 DEF Told
    <2> QED
        BY <2>1 DEF SeriesAsAnswered
<1> QED
    BY <1>3, <1>5, <1>6, <1>7, <1>8 DEF Ledger

\* The ledger is inductive.
LEMMA NextLedger == Inv /\ Inv' /\ Ledger /\ [Next]_vars => Ledger'
<1> SUFFICES ASSUME Inv, Inv', Ledger, [Next]_vars PROVE Ledger'
    OBVIOUS
<1>1. CASE UNCHANGED vars
    <2>1. ASSUME NEW r \in Requests
          PROVE  /\ Standing(r)' /\ AnswersTellTruth!(r)' /\ SeriesAsAnswered!(r)'
                 /\ WritesBy(r)' = WritesBy(r)
        <3>1. WritesBy(r)' = WritesBy(r) /\ Made(r)' = Made(r)
            BY <1>1 DEF WritesBy, Made, vars
        <3>2. Standing(r) /\ AnswersTellTruth!(r) /\ SeriesAsAnswered!(r)
            BY DEF Ledger, AnswersTellTruth, SeriesAsAnswered
        <3>3. UNCHANGED <<series, req, pc, pend, results, reply, waits>>
            BY <1>1 DEF vars
        <3> QED
            BY <3>1, <3>2, <3>3, Undisturbed
    <2>2. AuditTrail' /\ ExceptionsMatchAudit' /\ \A i \in Ids : rows'[i] = NoRow => exceptions'[i] = << >>
        BY <1>1 DEF Ledger, AuditTrail, ExceptionsMatchAudit, vars
    <2> QED
        BY <2>1, <2>2 DEF Ledger, AnswersTellTruth, SeriesAsAnswered
<1>2. ASSUME NEW r \in Requests,
             InsertNoRoom(r) \/ (\E k \in Index : RejectClash(r, k)) \/ RejectSpeaker(r) \/ DeadlockDetected(r)
      PROVE  Ledger'
    <2>1. CASE DeadlockDetected(r)
        <3>1. waits[r] \in Requests
            BY <2>1 DEF DeadlockDetected, InCycle
        <3>2. pc[r] \in {"write", "room", "speaker"}
            BY <3>1, RequestsAssumption DEF Ledger, Standing
        <3> QED
            BY <2>1, <3>2, FailLedger DEF DeadlockDetected
    <2>2. CASE InsertNoRoom(r)
        BY <2>2, FailLedger DEF InsertNoRoom
    <2>3. CASE \E k \in Index : RejectClash(r, k)
        BY <2>3, FailLedger DEF RejectClash, Index
    <2>4. CASE RejectSpeaker(r)
        BY <2>4, FailLedger DEF RejectSpeaker, Unopposed
    <2> QED
        BY <1>2, <2>1, <2>2, <2>3, <2>4
<1>3. ASSUME NEW r \in Requests, Step(r) \/ HangUp(r) \/ HangUpInCommit(r)
      PROVE  Ledger'
    BY <1>2, <1>3, StatementLedger, CommitLedger DEF Step
<1>4. CASE Idle
    BY <1>1, <1>4 DEF Idle
<1> QED
    BY <1>1, <1>3, <1>4 DEF Next

\* What the log and the answers say holds in every state.
THEOREM LedgerHolds == Spec => []Ledger
<1>1. Init => Ledger
    BY InitLedger
<1>2. Inv /\ Inv' /\ Ledger /\ [Next]_vars => Ledger'
    BY NextLedger
<1> QED
    BY <1>1, <1>2, InvHolds, PTL DEF Spec

\* No lost update: the audit rows versionedWrite and Create leave are the
\* whole history of every session.
THEOREM AuditIsComplete == Spec => []AuditTrail
<1>1. Ledger => AuditTrail
    BY DEF Ledger
<1> QED
    BY <1>1, LedgerHolds, PTL

\* Every edit and cancellation of an occurrence, and nothing else, has its
\* session_exceptions row.
THEOREM ExceptionsAreComplete == Spec => []ExceptionsMatchAudit
<1>1. Ledger => ExceptionsMatchAudit
    BY DEF Ledger
<1> QED
    BY <1>1, LedgerHolds, PTL

\* A success was recorded exactly once and an error never, whatever failed,
\* waited or was dropped on the way.
THEOREM AnswersAreTrue == Spec => []AnswersTellTruth
<1>1. Ledger => AnswersTellTruth
    BY DEF Ledger
<1> QED
    BY <1>1, LedgerHolds, PTL

\* The result list of CreateSeries names exactly the occurrences that were
\* inserted.
THEOREM SeriesAreAsAnswered == Spec => []SeriesAsAnswered
<1>1. Ledger => SeriesAsAnswered
    BY DEF Ledger
<1> QED
    BY <1>1, LedgerHolds, PTL
=============================================================================

------------------------- MODULE InvitationsProofs --------------------------
(***************************************************************************)
(* One invitation per address, stable answers under a key and no           *)
(* escalation, proved for every number of requests, actors and addresses.  *)
(***************************************************************************)
EXTENDS Invitations, SequenceTheorems, FiniteSetTheorems, TLAPS

(***************************************************************************)
(* The inductive invariant.                                                *)
(***************************************************************************)
\* A request is where its results say it is: the statements of Create work
\* on an item that exists, only a bulk request deals with keys, and a 207
\* is the last thing that happens to one.
Placed ==
    \A r \in Requests :
        /\ pc[r] \in {"insert", "unique", "commit"} => Len(results[r]) < Len(req[r].items)
        /\ pc[r] \in {"authorize", "load"} => results[r] = << >>
        /\ pc[r] \in {"load", "store", "reload"} => req[r].op = "bulk"
        /\ reply[r] = "multi_status" => pc[r] = "done"

\* A row past the unique index has its address to itself.
SlotsHeld ==
    \A r \in Requests : pc[r] = "commit" =>
        /\ \A v \in invitations : ~SameSlot(v, NewRow(r))
        /\ \A u \in Requests \ {r} : pc[u] = "commit" => ~SameSlot(NewRow(u), NewRow(r))

\* A 207 answer is what is stored under its key, for its body.
Keyed ==
    \A r \in Requests : reply[r] = "multi_status" =>
        /\ Entry(r) # NotStored
        /\ Entry(r).results = results[r] /\ Entry(r).hash = req[r].items

\* Nobody becomes an admin while the requests run.
RolesFall ==
    \A e \in Events, a \in Actors : standing[e][a] = "admin" => Standing[e][a] = "admin"

\* A row past the guard was asked for by somebody who could grant its role.
Granted ==
    \A r \in Requests :
        pc[r] \in {"unique", "commit"} /\ Current(r).role # "attendee" =>
            Standing[req[r].event][req[r].actor] = "admin"

Inv ==
    /\ TypeOK
    /\ Placed
    /\ SlotsHeld
    /\ Keyed
    /\ RolesFall
    /\ Granted
    /\ InvitedOnce
    /\ NoEscalation

(***************************************************************************)
(* What a request holds.                                                   *)
(***************************************************************************)
\* Every request is a validated one.
LEMMA Asked ==
    ASSUME TypeOK, NEW r \in Requests
    PROVE  /\ req[r].event \in Events /\ req[r].actor \in Actors /\ req[r].key \in Keys
           /\ req[r].items \in Seq(Item) /\ req[r].items # << >> /\ Len(req[r].items) \in Nat \ {0}
           /\ results[r] \in Seq(Statuses) /\ Len(results[r]) \in Nat
           /\ req[r].op \in {"invite", "bulk"}
<1>1. req[r] \in Inputs
    BY DEF TypeOK
<1>2. req[r] \in Input /\ req[r].items # << >>
    BY <1>1, InvitationsAssumption
<1>3. req[r].items \in Seq(Item)
    BY <1>2 DEF Input
<1>4. Len(req[r].items) \in Nat \ {0}
    BY <1>2, <1>3, EmptySeq, LenProperties
<1>5. results[r] \in Seq(Statuses) /\ Len(results[r]) \in Nat
    BY LenProperties DEF TypeOK
<1> QED
    BY <1>2, <1>3, <1>4, <1>5 DEF Input

\* The item a request is at, and the row it would insert, are well formed.
LEMMA AtItem ==
    ASSUME TypeOK, NEW r \in Requests, Len(results[r]) < Len(req[r].items)
    PROVE  Current(r) \in Item /\ NewRow(r) \in Invitation
<1>1. Nth(r) \in 1 .. Len(req[r].items)
    BY Asked DEF Nth
<1>2. Current(r) \in Item
    BY <1>1, Asked, ElementOfSeq DEF Current
<1> QED
    BY <1>1, <1>2, Asked DEF NewRow, Invitation, Item

(***************************************************************************)
(* The initial states.                                                     *)
(***************************************************************************)
\* Nothing is invited, stored or answered yet.
LEMMA InitInv == Init => Inv
<1> SUFFICES ASSUME Init PROVE Inv
    OBVIOUS
<1>1. TypeOK
    BY InvitationsAssumption DEF Init, TypeOK, Replies, Stored
<1>2. Placed /\ SlotsHeld /\ Keyed /\ Granted
    BY DEF Init, Placed, SlotsHeld, Keyed, Granted
<1>3. RolesFall
    BY DEF Init, RolesFall
<1>4. InvitedOnce /\ NoEscalation
    BY DEF Init, InvitedOnce, NoEscalation
<1> QED
    BY <1>1, <1>2, <1>3, <1>4 DEF Inv

(***************************************************************************)
(* Steps that write no table.                                              *)
(***************************************************************************)
\* r goes on to another statement, or is answered without a result list.
LEMMA MoveInv ==
    ASSUME Inv, NEW r \in Requests,
           NEW label \in {"load", "insert", "reload", "done"}, NEW code \in Replies \ {"multi_status"},
           pc[r] # "done",
           label \in {"load", "reload"} => req[r].op = "bulk",
           label = "load" => results[r] = << >>,
           label = "insert" => results[r] = << >>,
           pc' = [pc EXCEPT ![r] = label], reply' = [reply EXCEPT ![r] = code],
           UNCHANGED <<invitations, keys, standing, req, results>>
    PROVE  Inv'
<1>1. TypeOK'
    BY DEF Inv, TypeOK
<1>2. Placed'
    BY Asked DEF Inv, Placed, TypeOK
<1>3. SlotsHeld'
    BY DEF Inv, SlotsHeld, TypeOK, NewRow, Current, Nth
<1>4. Keyed'
    BY DEF Inv, Keyed, TypeOK, Entry
<1>5. RolesFall' /\ InvitedOnce' /\ NoEscalation'
    BY DEF Inv, RolesFall, InvitedOnce, NoEscalation
<1>6. Granted'
    BY DEF Inv, Granted, TypeOK, Current, Nth
<1> QED
    BY <1>1, <1>2, <1>3, <1>4, <1>5, <1>6 DEF Inv

\* A stored result becomes the answer, or its body turns out to be another.
LEMMA ReplayInv ==
    ASSUME Inv, NEW r \in Requests, pc[r] \in {"load", "reload"}, Replay(r),
           UNCHANGED <<invitations, keys, standing, req>>
    PROVE  Inv'
<1>1. CASE Entry(r).hash # req[r].items
    <2>1. /\ pc' = [pc EXCEPT ![r] = "done"]
          /\ reply' = [reply EXCEPT ![r] = "idempotency_key_conflict"]
          /\ results' = results
        BY <1>1 DEF Replay, Answer
    <2> QED
        BY <2>1, MoveInv DEF Replies
<1>2. CASE Entry(r).hash = req[r].items
    <2>1. /\ pc' = [pc EXCEPT ![r] = "done"]
          /\ reply' = [reply EXCEPT ![r] = "multi_status"]
          /\ results' = [results EXCEPT ![r] = Entry(r).results]
          /\ Entry(r) # NotStored
        BY <1>2 DEF Replay, Answer
    <2>2. Entry(r) \in Stored
        BY <2>1, Asked DEF Inv, TypeOK, Entry
    <2>3. TypeOK'
        BY <2>1, <2>2 DEF Inv, TypeOK, Stored, Replies
    <2>4. Placed'
        BY <2>1 DEF Inv, Placed, TypeOK
    <2>5. SlotsHeld'
        <3>1. \A u \in Requests : pc'[u] = "commit" => pc[u] = "commit" /\ NewRow(u)' = NewRow(u)
            BY <2>1 DEF Inv, TypeOK, NewRow, Current, Nth
        <3> QED
            BY <3>1 DEF Inv, SlotsHeld, SameSlot
    <2>6. Keyed'
        BY <2>1, <1>2 DEF Inv, Keyed, TypeOK, Entry
    <2>7. RolesFall' /\ InvitedOnce' /\ NoEscalation'
        BY DEF Inv, RolesFall, InvitedOnce, NoEscalation
    <2>8. Granted'
        BY <2>1 DEF Inv, Granted, TypeOK, Current, Nth
    <2> QED
        BY <2>3, <2>4, <2>5, <2>6, <2>7, <2>8 DEF Inv
<1> QED
    BY <1>1, <1>2

\* The guard lets the row through, or the index does.
LEMMA AdvanceInv ==
    ASSUME Inv, NEW r \in Requests, Insert(r) \/ TakeSlot(r)
    PROVE  Inv'
<1>1. PICK label \in {"unique", "commit"} :
         /\ pc' = [pc EXCEPT ![r] = label]
         /\ label = "unique" => pc[r] = "insert" /\ MayInvite(r)
         /\ label = "commit" => pc[r] = "unique" /\ TakeSlot(r)
    BY DEF Insert, TakeSlot, GoTo
<1>2. UNCHANGED <<invitations, keys, standing, req, results, reply>>
    BY DEF Insert, TakeSlot, GoTo
<1>3. Len(results[r]) < Len(req[r].items)
    BY <1>1 DEF Inv, Placed
<1>4. TypeOK'
    BY <1>1, <1>2 DEF Inv, TypeOK
<1>5. Placed'
    BY <1>1, <1>2, <1>3 DEF Inv, Placed, TypeOK
<1>6. \A u \in Requests : NewRow(u)' = NewRow(u) /\ Current(u)' = Current(u)
    BY <1>2 DEF NewRow, Current, Nth
<1>7. SlotsHeld'
    <2>1. ASSUME NEW a \in Requests, pc'[a] = "commit"
          PROVE  \A v \in invitations : ~SameSlot(v, NewRow(a))
        <3>1. CASE pc[a] = "commit"
            BY <3>1 DEF Inv, SlotsHeld
        <3>2. CASE pc[a] # "commit"
            <4>1. a = r /\ TakeSlot(r)
                BY <1>1, <2>1, <3>2 DEF Inv, TypeOK
            <4> QED
                BY <4>1 DEF TakeSlot, Invited
        <3> QED
            BY <3>1, <3>2
    <2>2. ASSUME NEW a \in Requests, NEW b \in Requests \ {a}, pc'[a] = "commit", pc'[b] = "commit"
          PROVE  ~SameSlot(NewRow(b), NewRow(a))
        <3>1. CASE pc[a] = "commit" /\ pc[b] = "commit"
            BY <3>1 DEF Inv, SlotsHeld
        <3>2. CASE pc[a] # "commit"
            <4>1. a = r /\ TakeSlot(r) /\ pc[b] = "commit"
                BY <1>1, <2>2, <3>2 DEF Inv, TypeOK
            <4> QED
                BY <4>1 DEF TakeSlot
        <3>3. CASE pc[b] # "commit"
            <4>1. b = r /\ TakeSlot(r) /\ pc[a] = "commit"
                BY <1>1, <2>2, <3>3 DEF Inv, TypeOK
            <4> QED
                BY <4>1 DEF TakeSlot, SameSlot
        <3> QED
            BY <3>1, <3>2, <3>3
    <2> QED
        BY <2>1, <2>2, <1>2, <1>6 DEF SlotsHeld, SameSlot
<1>8. Keyed'
    BY <1>1, <1>2 DEF Inv, Keyed, Placed, TypeOK, Entry
<1>9. RolesFall' /\ InvitedOnce' /\ NoEscalation'
    BY <1>2 DEF Inv, RolesFall, InvitedOnce, NoEscalation
<1>10. Granted'
    <2>1. CASE pc[r] = "unique"
        BY <1>1, <1>2, <1>6, <2>1 DEF Inv, Granted, TypeOK
    <2>2. CASE pc[r] # "unique"
        <3>1. MayInvite(r) /\ pc'[r] = "unique"
            BY <1>1, <2>2 DEF Inv, TypeOK
        <3>2. Current(r).role # "attendee" => Standing[req[r].event][req[r].actor] = "admin"
            BY <3>1, Asked DEF Inv, MayInvite, RoleOf, RolesFall
        <3> QED
            BY <1>1, <1>2, <1>6, <3>2 DEF Inv, Granted, TypeOK
    <2> QED
        BY <2>1, <2>2
<1> QED
    BY <1>4, <1>5, <1>7, <1>8, <1>9, <1>10 DEF Inv

(***************************************************************************)
(* Steps that write one.                                                   *)
(***************************************************************************)
\* A row that reaches its commit fits the table.
LEMMA RowFits ==
    ASSUME Inv, NEW r \in Requests, pc[r] = "commit", invitations' = invitations \cup {NewRow(r)},
           UNCHANGED req
    PROVE  /\ invitations' \subseteq Invitation
           /\ InvitedOnce'
           /\ NoEscalation'
           /\ \A u \in Requests \ {r} : pc[u] = "commit" =>
                \A v \in invitations' : ~SameSlot(v, NewRow(u))
<1>1. Current(r) \in Item /\ NewRow(r) \in Invitation
    BY AtItem DEF Inv, Placed
<1>2. invitations' \subseteq Invitation
    BY <1>1 DEF Inv, TypeOK
<1>3. \A v \in invitations : ~SameSlot(v, NewRow(r)) /\ ~SameSlot(NewRow(r), v)
    BY DEF Inv, SlotsHeld, SameSlot
<1>4. InvitedOnce'
    BY <1>3 DEF Inv, InvitedOnce
<1>5. NewRow(r).role # "attendee" => Standing[NewRow(r).event][req[NewRow(r).by].actor] = "admin"
    BY DEF Inv, Granted, NewRow
<1>6. NoEscalation'
    BY <1>5 DEF Inv, NoEscalation
<1>7. \A u \in Requests \ {r} : pc[u] = "commit" =>
         \A v \in invitations' : ~SameSlot(v, NewRow(u))
    BY DEF Inv, SlotsHeld
<1> QED
    BY <1>2, <1>4, <1>6, <1>7

\* The same when the table stays as it is.
LEMMA NoRowFits ==
    ASSUME Inv, invitations' = invitations, UNCHANGED req
    PROVE  /\ invitations' \subseteq Invitation
           /\ InvitedOnce'
           /\ NoEscalation'
           /\ \A u \in Requests : pc[u] = "commit" => \A v \in invitations' : ~SameSlot(v, NewRow(u))
BY DEF Inv, TypeOK, InvitedOnce, NoEscalation, SlotsHeld

\* One item is finished.
LEMMA ItemDoneInv ==
    ASSUME Inv, NEW r \in Requests, NEW status \in Statuses, ItemDone(r, status),
           pc[r] \in {"insert", "unique", "commit"},
           \/ invitations' = invitations
           \/ pc[r] = "commit" /\ invitations' = invitations \cup {NewRow(r)},
           UNCHANGED <<keys, standing, req>>
    PROVE  Inv'
<1>1. /\ invitations' \subseteq Invitation
      /\ InvitedOnce'
      /\ NoEscalation'
      /\ \A u \in Requests \ {r} : pc[u] = "commit" =>
           \A v \in invitations' : ~SameSlot(v, NewRow(u))
    BY RowFits, NoRowFits
<1>2. PICK label \in {"insert", "store", "done"}, code \in Replies \ {"multi_status"} :
         /\ pc' = [pc EXCEPT ![r] = label]
         /\ reply' = [reply EXCEPT ![r] = code]
         /\ results' = [results EXCEPT ![r] = Append(@, status)]
         /\ label = "insert" => Len(results[r]) + 1 < Len(req[r].items)
         /\ label = "store" => req[r].op = "bulk"
    <2>1. reply[r] \in Replies \ {"multi_status"}
        BY DEF Inv, Placed, TypeOK
    <2>2. reply' = [reply EXCEPT ![r] = reply[r]] \/ reply' = [reply EXCEPT ![r] = SingleReply(status)]
        BY DEF ItemDone, GoTo, Answer, Inv, TypeOK
    <2>3. SingleReply(status) \in Replies \ {"multi_status"}
        BY DEF SingleReply, Statuses, Replies
    <2> QED
        BY <2>1, <2>2, <2>3 DEF ItemDone, GoTo, Answer, Nth, Inv, TypeOK
<1>3. results[r] \in Seq(Statuses) /\ Append(results[r], status) \in Seq(Statuses)
      /\ Len(Append(results[r], status)) = Len(results[r]) + 1
    BY Asked, AppendProperties DEF Inv
<1>4. TypeOK'
    BY <1>1, <1>2, <1>3 DEF Inv, TypeOK
<1>5. Placed'
    BY <1>2, <1>3 DEF Inv, Placed, TypeOK
<1>6. \A u \in Requests \ {r} : NewRow(u)' = NewRow(u) /\ Current(u)' = Current(u) /\ pc'[u] = pc[u]
    BY <1>2 DEF Inv, TypeOK, NewRow, Current, Nth
<1>7. pc'[r] \notin {"unique", "commit"}
    BY <1>2 DEF Inv, TypeOK
<1>8. SlotsHeld'
    BY <1>1, <1>6, <1>7 DEF Inv, SlotsHeld, SameSlot
<1>9. Keyed'
    BY <1>2 DEF Inv, Keyed, TypeOK, Entry
<1>10. Granted'
    BY <1>6, <1>7 DEF Inv, Granted
<1>11. RolesFall'
    BY DEF Inv, RolesFall
<1> QED
    BY <1>1, <1>4, <1>5, <1>8, <1>9, <1>10, <1>11 DEF Inv

\* Whatever is written under a key stays there.
LEMMA StoreInKeeps ==
    ASSUME TypeOK, NEW r \in Requests
    PROVE  /\ StoreIn(keys, r) \in [Actors -> [Keys -> Stored \cup {NotStored}]]
           /\ \A a \in Actors, k \in Keys : keys[a][k] # NotStored => StoreIn(keys, r)[a][k] = keys[a][k]
           /\ Entry(r) = NotStored =>
                StoreIn(keys, r)[req[r].actor][req[r].key] = [hash |-> req[r].items, results |-> results[r]]
<1>1. [hash |-> req[r].items, results |-> results[r]] \in Stored
    BY Asked DEF Stored
<1> QED
    BY <1>1, Asked DEF TypeOK, StoreIn, Entry

\* The results of a batch are stored, or somebody else's are there already.
LEMMA StoreInv ==
    ASSUME Inv, NEW r \in Requests, Store(r)
    PROVE  Inv'
<1>1. PICK label \in {"reload", "done"}, code \in Replies :
         /\ pc[r] = "store" /\ keys' = StoreIn(keys, r)
         /\ pc' = [pc EXCEPT ![r] = label]
         /\ reply' = [reply EXCEPT ![r] = code]
         /\ code = "multi_status" => Entry(r) = NotStored /\ label = "done"
    <2>1. reply[r] \in Replies \ {"multi_status"} /\ reply' = [reply EXCEPT ![r] = reply'[r]]
        BY DEF Inv, Placed, TypeOK, Store, Answer, GoTo
    <2> QED
        BY <2>1 DEF Store, Answer, GoTo, Replies, Inv, TypeOK
<1>2. UNCHANGED <<invitations, standing, req, results>>
    BY DEF Store
<1>3. TypeOK'
    BY <1>1, <1>2, StoreInKeeps DEF Inv, TypeOK
<1>4. Placed'
    BY <1>1, <1>2 DEF Inv, Placed, TypeOK
<1>5. SlotsHeld'
    BY <1>1, <1>2 DEF Inv, SlotsHeld, TypeOK, NewRow, Current, Nth
<1>6. Keyed'
    <2> SUFFICES ASSUME NEW u \in Requests, reply'[u] = "multi_status"
                 PROVE  /\ Entry(u)' # NotStored
                        /\ Entry(u)'.results = results[u] /\ Entry(u)'.hash = req[u].items
        BY <1>2 DEF Keyed
    <2>1. CASE u = r
        <3>1. Entry(r) = NotStored
            BY <1>1, <2>1 DEF Inv, TypeOK
        <3>2. Entry(r)' = [hash |-> req[r].items, results |-> results[r]]
            BY <1>1, <1>2, <3>1, StoreInKeeps DEF Inv, Entry
        <3>3. [hash |-> req[r].items, results |-> results[r]] \in Stored
            BY Asked DEF Inv, Stored
        <3> QED
            BY <2>1, <3>2, <3>3, InvitationsAssumption
    <2>2. CASE u # r
        <3>1. reply[u] = "multi_status"
            BY <1>1, <2>2 DEF Inv, TypeOK
        <3>2. Entry(u)' = Entry(u)
            BY <1>1, <1>2, <3>1, StoreInKeeps, Asked DEF Inv, Keyed, Entry
        <3> QED
            BY <3>1, <3>2 DEF Inv, Keyed
    <2> QED
        BY <2>1, <2>2
<1>7. RolesFall' /\ InvitedOnce' /\ NoEscalation'
    BY <1>2 DEF Inv, RolesFall, InvitedOnce, NoEscalation
<1>8. Granted'
    BY <1>1, <1>2 DEF Inv, Granted, TypeOK, Current, Nth
<1> QED
    BY <1>3, <1>4, <1>5, <1>6, <1>7, <1>8 DEF Inv

\* The connection breaks while a COMMIT is carried out.
LEMMA CutOffInCommitInv ==
    ASSUME Inv, NEW r \in Requests, CutOffInCommit(r)
    PROVE  Inv'
<1>1. /\ pc' = [pc EXCEPT ![r] = "done"] /\ reply' = [reply EXCEPT ![r] = "gone"]
      /\ UNCHANGED <<standing, req, results>>
    BY DEF CutOffInCommit, Answer
<1>2. /\ invitations' \subseteq Invitation
      /\ InvitedOnce'
      /\ NoEscalation'
      /\ \A u \in Requests \ {r} : pc[u] = "commit" =>
           \A v \in invitations' : ~SameSlot(v, NewRow(u))
    BY <1>1, RowFits, NoRowFits DEF CutOffInCommit
<1>3. keys' \in [Actors -> [Keys -> Stored \cup {NotStored}]]
      /\ \A a \in Actors, k \in Keys : keys[a][k] # NotStored => keys'[a][k] = keys[a][k]
    <2>1. CASE keys' = keys
        BY <2>1 DEF Inv, TypeOK
    <2>2. CASE keys' = StoreIn(keys, r)
        BY <2>2, StoreInKeeps DEF Inv
    <2> QED
        BY <2>1, <2>2 DEF CutOffInCommit
<1>4. TypeOK'
    BY <1>1, <1>2, <1>3 DEF Inv, TypeOK, Replies
<1>5. Placed'
    BY <1>1 DEF Inv, Placed, TypeOK
<1>6. SlotsHeld'
    BY <1>1, <1>2 DEF Inv, SlotsHeld, TypeOK, NewRow, Current, Nth
<1>7. Keyed'
    BY <1>1, <1>3, Asked DEF Inv, Keyed, TypeOK, Entry
<1>8. RolesFall' /\ Granted'
    BY <1>1 DEF Inv, RolesFall, Granted, TypeOK, Current, Nth
<1> QED
    BY <1>2, <1>4, <1>5, <1>6, <1>7, <1>8 DEF Inv

\* Somebody is demoted or removed.
LEMMA LoseRoleInv ==
    ASSUME Inv, NEW e \in Events, NEW a \in Actors, LoseRole(e, a)
    PROVE  Inv'
<1>1. UNCHANGED <<invitations, keys, req, pc, results, reply>>
    BY DEF LoseRole
<1>2. standing' \in [Events -> [Actors -> Roles \cup {"none"}]]
      /\ \A d \in Events, b \in Actors : standing'[d][b] = "admin" => standing[d][b] = "admin"
    BY DEF Inv, TypeOK, LoseRole, Roles
<1>3. TypeOK' /\ RolesFall'
    BY <1>1, <1>2 DEF Inv, TypeOK, RolesFall
<1>4. Placed' /\ Keyed' /\ Granted'
    BY <1>1 DEF Inv, Placed, Keyed, Granted, Entry, Current, Nth
<1>5. SlotsHeld' /\ InvitedOnce' /\ NoEscalation'
    BY <1>1 DEF Inv, SlotsHeld, InvitedOnce, NoEscalation, NewRow, Current, Nth
<1> QED
    BY <1>3, <1>4, <1>5 DEF Inv

(***************************************************************************)
(* Every step.                                                             *)
(***************************************************************************)
\* The invariant is inductive.
LEMMA NextInv == Inv /\ [Next]_vars => Inv'
<1> SUFFICES ASSUME Inv, [Next]_vars PROVE Inv'
    OBVIOUS
<1>1. ASSUME NEW r \in Requests, Authorize(r) PROVE Inv'
    <2>1. /\ pc[r] = "authorize" /\ results[r] = << >> /\ reply[r] \in Replies \ {"multi_status"}
          /\ reply = [reply EXCEPT ![r] = reply[r]]
        BY <1>1 DEF Authorize, Inv, Placed, TypeOK
    <2>2. CASE RoleOf(r) \in {"admin", "contributor"}
        BY <1>1, <2>1, <2>2, MoveInv DEF Authorize, GoTo
    <2>3. CASE RoleOf(r) \notin {"admin", "contributor"}
        BY <1>1, <2>1, <2>3, MoveInv DEF Authorize, Answer, Replies
    <2> QED
        BY <2>2, <2>3
<1>2. ASSUME NEW r \in Requests, Load(r) PROVE Inv'
    <2>1. /\ pc[r] = "load" /\ results[r] = << >> /\ reply[r] \in Replies \ {"multi_status"}
          /\ reply = [reply EXCEPT ![r] = reply[r]]
        BY <1>2 DEF Load, Inv, Placed, TypeOK
    <2>2. CASE Replay(r)
        BY <1>2, <2>1, <2>2, ReplayInv DEF Load
    <2>3. CASE ~Replay(r)
        BY <1>2, <2>1, <2>3, MoveInv DEF Load, GoTo
    <2> QED
        BY <2>2, <2>3
<1>3. ASSUME NEW r \in Requests, Insert(r) \/ TakeSlot(r) PROVE Inv'
    BY <1>3, AdvanceInv
<1>4. ASSUME NEW r \in Requests, InsertNothing(r) PROVE Inv'
    BY <1>4, ItemDoneInv DEF InsertNothing, Statuses
<1>5. ASSUME NEW r \in Requests, RejectDuplicate(r) PROVE Inv'
    BY <1>5, ItemDoneInv DEF RejectDuplicate, Statuses
<1>6. ASSUME NEW r \in Requests, Commit(r) PROVE Inv'
    BY <1>6, ItemDoneInv DEF Commit, Statuses
<1>7. ASSUME NEW r \in Requests, Store(r) PROVE Inv'
    BY <1>7, StoreInv
<1>8. ASSUME NEW r \in Requests, Reload(r) PROVE Inv'
    BY <1>8, ReplayInv DEF Reload
<1>9. ASSUME NEW r \in Requests, CutOff(r) PROVE Inv'
    BY <1>9, MoveInv DEF CutOff, Answer, Replies
<1>10. ASSUME NEW r \in Requests, CutOffInCommit(r) PROVE Inv'
    BY <1>10, CutOffInCommitInv
<1>11. ASSUME NEW e \in Events, NEW a \in Actors, LoseRole(e, a) PROVE Inv'
    BY <1>11, LoseRoleInv
<1>12. CASE UNCHANGED vars
    <2>1. TypeOK' /\ Placed' /\ SlotsHeld' /\ Keyed'
        BY <1>12 DEF vars, Inv, TypeOK, Placed, SlotsHeld, Keyed, NewRow, Current, Nth, Entry
    <2>2. RolesFall' /\ Granted' /\ InvitedOnce' /\ NoEscalation'
        BY <1>12 DEF vars, Inv, RolesFall, Granted, InvitedOnce, NoEscalation, Current, Nth
    <2> QED
        BY <2>1, <2>2 DEF Inv
<1> QED
    BY <1>1, <1>2, <1>3, <1>4, <1>5, <1>6, <1>7, <1>8, <1>9, <1>10, <1>11, <1>12 DEF Next, Step

(***************************************************************************)
(* The theorems.                                                           *)
(***************************************************************************)
\* The inductive invariant holds in every reachable state of invitation_repo.
THEOREM InvHolds == Spec => []Inv
BY InitInv, NextInv, PTL DEF Spec

\* The tables and the goroutines' state stay well formed.
THEOREM TypeCorrect == Spec => []TypeOK
<1>1. Inv => TypeOK
    BY DEF Inv
<1> QED
    BY <1>1, InvHolds, PTL

\* Whatever batches, retries and single invitations run at once, an address
\* is invited to an event at most once (invitations_event_id_email_key).
THEOREM NeverInvitedTwice == Spec => []InvitedOnce
<1>1. Inv => InvitedOnce
    BY DEF Inv
<1> QED
    BY <1>1, InvHolds, PTL

\* All 207 answers of BulkCreate under one key carry the same results.
THEOREM RetriesAgree == Spec => []StableResults
<1>1. Inv => StableResults
    BY DEF Inv, Keyed, StableResults, SameKey, Entry
<1> QED
    BY <1>1, InvHolds, PTL

\* canGrantRoleGuard holds over the life of a batch: what was never an
\* admin's request invites attendees only.
THEOREM NobodyEscalates == Spec => []NoEscalation
<1>1. Inv => NoEscalation
    BY DEF Inv
<1> QED
    BY <1>1, InvHolds, PTL

(***************************************************************************)
(* What the answers say.  A second invariant, kept beside Inv: the results *)
(* an attempt has so far, and those it has stored under its key, are true  *)
(* of the table, which only grows; and a single invitation has a row of    *)
(* its own exactly when it was answered so.                                *)
(***************************************************************************)
\* What a status says of the n-th item of attempt u.
TrueOf(u, n, status) ==
    /\ status = "created" =>
         \E v \in invitations : /\ v.event = req[u].event /\ v.email = req[u].items[n].email
                                /\ v.role = req[u].items[n].role /\ v.by = u /\ v.item = n
    /\ status = "conflict" =>
         \E v \in invitations : v.event = req[u].event /\ v.email = req[u].items[n].email

\* An attempt under way has true results, all of them when it comes to the key.
Honest(r) ==
    pc[r] # "done" =>
        /\ reply[r] = "none"
        /\ \A n \in 1 .. Len(results[r]) : TrueOf(r, n, results[r][n])
        /\ pc[r] \in {"store", "reload"} => Len(results[r]) = Len(req[r].items)

\* What is stored was computed by an attempt under that key with that body.
Computed(a, k, u) ==
    /\ req[u].op = "bulk" /\ req[u].actor = a /\ req[u].key = k
    /\ req[u].items = keys[a][k].hash
    /\ Len(keys[a][k].results) = Len(req[u].items)
    /\ \A n \in 1 .. Len(keys[a][k].results) : TrueOf(u, n, keys[a][k].results[n])

StoredTrue ==
    \A a \in Actors, k \in Keys : keys[a][k] # NotStored => \E u \in Requests : Computed(a, k, u)

Mine(r) == {v \in invitations : v.by = r}

SingleTrue(r) ==
    req[r].op = "invite" =>
        /\ reply[r] # "multi_status"
        /\ reply[r] \notin {"created", "gone"} => Mine(r) = {}
        /\ reply[r] = "created" => \E v \in invitations : Mine(r) = {v}
        /\ reply[r] = "gone" => Mine(r) = {} \/ \E v \in invitations : Mine(r) = {v}

Ledger ==
    /\ \A r \in Requests : Honest(r) /\ SingleTrue(r)
    /\ StoredTrue

\* What was true of the table stays true when rows are added.
LEMMA StaysTrue ==
    ASSUME NEW u \in Requests, NEW n, NEW status, TrueOf(u, n, status),
           invitations \subseteq invitations', req' = req
    PROVE  TrueOf(u, n, status)'
BY DEF TrueOf

\* A step of r keeps the ledger if it keeps r's own page of it.
LEMMA PageLedger ==
    ASSUME Inv, Ledger, NEW r \in Requests, req' = req, pc[r] # "done",
           \/ invitations' = invitations
           \/ invitations' = invitations \cup {NewRow(r)},
           \/ keys' = keys
           \/ keys' = StoreIn(keys, r) /\ pc[r] = "store",
           \A u \in Requests \ {r} :
               pc'[u] = pc[u] /\ results'[u] = results[u] /\ reply'[u] = reply[u],
           Honest(r)', SingleTrue(r)'
    PROVE  Ledger'
<1>1. invitations \subseteq invitations'
    OBVIOUS
<1>2. ASSUME NEW u \in Requests \ {r} PROVE Honest(u)'
    BY <1>1, <1>2, StaysTrue DEF Ledger, Honest
<1>3. ASSUME NEW u \in Requests \ {r} PROVE SingleTrue(u)'
    <2>1. Mine(u)' = Mine(u)
        BY <1>3 DEF Mine, NewRow
    <2> QED
        BY <1>1, <1>3, <2>1 DEF Ledger, SingleTrue
<1>4. StoredTrue'
    <2> SUFFICES ASSUME NEW a \in Actors, NEW k \in Keys, keys'[a][k] # NotStored
                 PROVE  \E u \in Requests : Computed(a, k, u)'
        BY DEF StoredTrue
    <2>1. CASE keys'[a][k] = keys[a][k]
        <3>1. PICK u \in Requests : Computed(a, k, u)
            BY <2>1 DEF Ledger, StoredTrue
        <3>2. Computed(a, k, u)'
            BY <1>1, <2>1, <3>1, StaysTrue DEF Computed
        <3> QED
            BY <3>2
    <2>2. CASE keys'[a][k] # keys[a][k]
        <3>1. /\ keys' = StoreIn(keys, r) /\ pc[r] = "store"
              /\ a = req[r].actor /\ k = req[r].key /\ Entry(r) = NotStored
            BY <2>2, Asked DEF Inv, TypeOK, StoreIn, Entry
        <3>2. keys'[a][k] = [hash |-> req[r].items, results |-> results[r]]
            BY <3>1, StoreInKeeps DEF Inv
        <3>3. /\ req[r].op = "bulk" /\ Len(results[r]) = Len(req[r].items)
              /\ \A n \in 1 .. Len(results[r]) : TrueOf(r, n, results[r][n])
            BY <3>1 DEF Inv, Placed, Ledger, Honest
        <3>4. Computed(a, k, r)'
            BY <1>1, <3>1, <3>2, <3>3, StaysTrue DEF Computed
        <3> QED
            BY <3>4
    <2> QED
        BY <2>1, <2>2
<1> QED
    BY <1>2, <1>3, <1>4 DEF Ledger

\* One item is finished, with a status that is true of the table by then.
LEMMA ItemDoneLedger ==
    ASSUME Inv, Ledger, NEW r \in Requests, NEW status \in Statuses, ItemDone(r, status),
           pc[r] \in {"insert", "unique", "commit"},
           \/ status # "created" /\ invitations' = invitations
           \/ status = "created" /\ invitations' = invitations \cup {NewRow(r)},
           status = "conflict" => Invited(r),
           UNCHANGED <<keys, standing, req>>
    PROVE  Ledger'
<1>1. /\ Len(results[r]) < Len(req[r].items) /\ Len(results[r]) \in Nat
      /\ results[r] \in Seq(Statuses) /\ Len(req[r].items) \in Nat
      /\ reply[r] = "none" /\ results \in [Requests -> Seq(Statuses)]
      /\ pc \in [Requests -> {"authorize", "load", "insert", "unique", "commit", "store", "reload", "done"}]
      /\ reply \in [Requests -> Replies]
    BY Asked DEF Inv, Placed, TypeOK, Ledger, Honest
<1>2. /\ results'[r] = Append(results[r], status)
      /\ \A u \in Requests \ {r} :
            pc'[u] = pc[u] /\ results'[u] = results[u] /\ reply'[u] = reply[u]
    BY <1>1 DEF ItemDone, GoTo, Answer
<1>3. /\ Len(results'[r]) = Len(results[r]) + 1
      /\ \A n \in 1 .. Len(results[r]) : results'[r][n] = results[r][n]
      /\ results'[r][Len(results[r]) + 1] = status
    BY <1>1, <1>2, AppendProperties
<1>4. PICK m : m = Len(results[r]) + 1
    OBVIOUS
<1>5. TrueOf(r, m, status)'
    <2>0. Nth(r) = m
        BY <1>4 DEF Nth
    <2>1. CASE status = "created"
        <3>1. NewRow(r) \in invitations'
            BY <2>1
        <3> QED
            BY <2>0, <2>1, <3>1 DEF TrueOf, NewRow, Current
    <2>2. CASE status = "conflict"
        <3>1. PICK v \in invitations : v.event = req[r].event /\ v.email = req[r].items[m].email
            BY <2>0, <2>2 DEF Invited, NewRow, Current, SameSlot
        <3> QED
            BY <2>2, <3>1 DEF TrueOf
    <2>3. CASE status = "forbidden"
        BY <2>3 DEF TrueOf
    <2> QED
        BY <2>1, <2>2, <2>3 DEF Statuses
<1>6. PICK now : now = results'[r]
    OBVIOUS
<1>7. \A n \in 1 .. Len(now) : TrueOf(r, n, now[n])'
    <2> SUFFICES ASSUME NEW n \in 1 .. Len(now)
                 PROVE  TrueOf(r, n, now[n])'
        OBVIOUS
    <2>1. CASE n = m
        <3>1. now[n] = status
            BY <1>4, <1>3, <1>6, <2>1
        <3> QED
            BY <1>5, <2>1, <3>1
    <2>2. CASE n # m
        <3>1. n \in 1 .. Len(results[r])
            BY <1>4, <1>1, <1>3, <1>6, <2>2
        <3>2. TrueOf(r, n, results[r][n])
            BY <1>1, <3>1 DEF Ledger, Honest, Placed, Inv
        <3>3. now[n] = results[r][n]
            BY <1>3, <1>6, <3>1
        <3>4. TrueOf(r, n, now[n])
            BY <3>2, <3>3
        <3> QED
            BY <3>4, StaysTrue
    <2> QED
        BY <2>1, <2>2
<1>8. Honest(r)'
    <2>1. pc'[r] # "done" => reply'[r] = "none"
        BY <1>1 DEF ItemDone, GoTo, Answer
    <2>2. pc'[r] \in {"store", "reload"} => Len(results'[r]) = Len(req'[r].items)
        BY <1>1, <1>3 DEF ItemDone, GoTo, Answer, Nth
    <2>3. \A n \in 1 .. Len(results'[r]) : TrueOf(r, n, now[n])'
        BY <1>6, <1>7
    <2> QED
        BY <1>6, <2>1, <2>2, <2>3 DEF Honest, TrueOf
<1>9. SingleTrue(r)'
    <2> SUFFICES ASSUME req[r].op = "invite" PROVE SingleTrue(r)'
        BY DEF SingleTrue
    <2>1. Len(req[r].items) = 1
        BY InvitationsAssumption DEF Inv, TypeOK
    <2>2. reply'[r] = SingleReply(status)
        BY <1>1, <2>1 DEF ItemDone, Nth, Answer
    <2>3. Mine(r) = {}
        BY <1>1 DEF Ledger, SingleTrue
    <2>4. CASE status = "created"
        <3>1. Mine(r)' = {NewRow(r)} /\ NewRow(r) \in invitations'
            BY <2>3, <2>4 DEF Mine, NewRow
        <3> QED
            BY <2>2, <2>4, <3>1 DEF SingleTrue, SingleReply
    <2>5. CASE status # "created"
        <3>1. Mine(r)' = {}
            BY <2>3, <2>5 DEF Mine
        <3> QED
            BY <2>2, <2>5, <3>1 DEF SingleTrue, SingleReply, Statuses
    <2> QED
        BY <2>4, <2>5
<1> QED
    BY <1>2, <1>8, <1>9, PageLedger

\* r goes on, or is answered, and writes nothing but, perhaps, its key.
LEMMA QuietLedger ==
    ASSUME Inv, Ledger, NEW r \in Requests, req' = req, pc[r] # "done",
           invitations' = invitations,
           \/ keys' = keys
           \/ keys' = StoreIn(keys, r) /\ pc[r] = "store",
           NEW label, NEW code, pc' = [pc EXCEPT ![r] = label], reply' = [reply EXCEPT ![r] = code],
           \A u \in Requests \ {r} : results'[u] = results[u],
           \/ label = "done" /\ (req[r].op = "invite" => code \notin {"created", "multi_status"})
           \/ /\ code = reply[r] /\ results' = results
              /\ label \in {"store", "reload"} => pc[r] \in {"store", "reload"}
    PROVE  Ledger'
<1>1. /\ pc'[r] = label /\ reply'[r] = code
      /\ \A u \in Requests \ {r} : pc'[u] = pc[u] /\ reply'[u] = reply[u]
    BY DEF Inv, TypeOK
<1>2. Honest(r)'
    <2>1. \A n, status : TrueOf(r, n, status) => TrueOf(r, n, status)'
        BY DEF TrueOf
    <2> QED
        BY <1>1, <2>1 DEF Ledger, Honest
<1>3. SingleTrue(r)'
    <2>1. Mine(r)' = Mine(r) /\ reply[r] = "none"
        BY DEF Mine, Ledger, Honest
    <2> QED
        BY <1>1, <2>1 DEF Ledger, SingleTrue
<1> QED
    BY <1>1, <1>2, <1>3, PageLedger

\* A connection that breaks in a COMMIT may have written one row, or the key.
LEMMA CutOffInCommitLedger ==
    ASSUME Inv, Ledger, NEW r \in Requests, CutOffInCommit(r)
    PROVE  Ledger'
<1>1. /\ pc[r] \in {"commit", "store"} /\ req' = req
      /\ pc' = [pc EXCEPT ![r] = "done"] /\ reply' = [reply EXCEPT ![r] = "gone"]
      /\ results' = results
    BY DEF CutOffInCommit, Answer
<1>2. CASE pc[r] = "store"
    BY <1>1, <1>2, QuietLedger DEF CutOffInCommit
<1>3. CASE pc[r] = "commit"
    <2>1. invitations' = invitations \cup {NewRow(r)} /\ keys' = keys
        BY <1>3 DEF CutOffInCommit
    <2>2. /\ pc'[r] = "done" /\ reply'[r] = "gone"
          /\ \A u \in Requests \ {r} : pc'[u] = pc[u] /\ reply'[u] = reply[u]
        BY <1>1 DEF Inv, TypeOK
    <2>3. Honest(r)'
        BY <2>2 DEF Honest
    <2>4. SingleTrue(r)'
        <3>1. req[r].op = "invite" => Mine(r) = {}
            BY <1>3 DEF Ledger, Honest, SingleTrue
        <3>2. req[r].op = "invite" => Mine(r)' = {NewRow(r)} /\ NewRow(r) \in invitations'
            BY <2>1, <3>1 DEF Mine, NewRow
        <3> QED
            BY <1>1, <2>2, <3>2 DEF SingleTrue
    <2> QED
        BY <1>1, <1>3, <2>1, <2>2, <2>3, <2>4, PageLedger
<1> QED
    BY <1>1, <1>2, <1>3

\* Nothing is told yet.
LEMMA InitLedger == Init => Ledger
BY DEF Init, Ledger, Honest, SingleTrue, Mine, StoredTrue

\* Every step keeps the ledger.
LEMMA NextLedger == Inv /\ Ledger /\ [Next]_vars => Ledger'
<1> SUFFICES ASSUME Inv, Ledger, [Next]_vars PROVE Ledger'
    OBVIOUS
<1>0. \A r \in Requests : reply = [reply EXCEPT ![r] = reply[r]]
    BY DEF Inv, TypeOK
<1>1. ASSUME NEW r \in Requests, Authorize(r) PROVE Ledger'
    <2>1. pc[r] = "authorize" /\ UNCHANGED <<invitations, keys, req, results>>
        BY <1>1 DEF Authorize
    <2>2. CASE RoleOf(r) \in {"admin", "contributor"}
        BY <1>0, <1>1, <2>1, <2>2, QuietLedger DEF Authorize, GoTo
    <2>3. CASE RoleOf(r) \notin {"admin", "contributor"}
        BY <1>1, <2>1, <2>3, QuietLedger DEF Authorize, Answer
    <2> QED
        BY <2>2, <2>3
<1>2. ASSUME NEW r \in Requests, Load(r) \/ Reload(r) PROVE Ledger'
    <2>1. /\ pc[r] \in {"load", "reload"} /\ UNCHANGED <<invitations, keys, req>>
          /\ req[r].op = "bulk"
        BY <1>2 DEF Load, Reload, Inv, Placed
    <2>2. CASE Replay(r)
        <3>1. \A u \in Requests \ {r} : results'[u] = results[u]
            BY <2>2 DEF Replay, Inv, TypeOK
        <3>2. PICK code : pc' = [pc EXCEPT ![r] = "done"] /\ reply' = [reply EXCEPT ![r] = code]
            BY <2>2 DEF Replay, Answer
        <3> QED
            BY <2>1, <3>1, <3>2, QuietLedger
    <2>3. CASE ~Replay(r)
        BY <1>0, <1>2, <2>1, <2>3, QuietLedger DEF Load, Reload, GoTo
    <2> QED
        BY <2>2, <2>3
<1>3. ASSUME NEW r \in Requests, Insert(r) \/ TakeSlot(r) PROVE Ledger'
    BY <1>0, <1>3, QuietLedger DEF Insert, TakeSlot, GoTo
<1>4. ASSUME NEW r \in Requests, InsertNothing(r) PROVE Ledger'
    BY <1>4, ItemDoneLedger DEF InsertNothing, Statuses
<1>5. ASSUME NEW r \in Requests, RejectDuplicate(r) PROVE Ledger'
    BY <1>5, ItemDoneLedger DEF RejectDuplicate, Statuses
<1>6. ASSUME NEW r \in Requests, Commit(r) PROVE Ledger'
    BY <1>6, ItemDoneLedger DEF Commit, Statuses
<1>7. ASSUME NEW r \in Requests, Store(r) PROVE Ledger'
    <2>1. /\ pc[r] = "store" /\ UNCHANGED <<invitations, req, results>>
          /\ keys' = StoreIn(keys, r) /\ req[r].op = "bulk"
        BY <1>7 DEF Store, Inv, Placed
    <2>2. CASE Entry(r) = NotStored
        BY <1>7, <2>1, <2>2, QuietLedger DEF Store, Answer
    <2>3. CASE Entry(r) # NotStored
        BY <1>0, <1>7, <2>1, <2>3, QuietLedger DEF Store, GoTo
    <2> QED
        BY <2>2, <2>3
<1>8. ASSUME NEW r \in Requests, CutOff(r) PROVE Ledger'
    BY <1>8, QuietLedger DEF CutOff, Answer
<1>9. ASSUME NEW r \in Requests, CutOffInCommit(r) PROVE Ledger'
    BY <1>9, CutOffInCommitLedger
<1>10. CASE (\E e \in Events, a \in Actors : LoseRole(e, a)) \/ UNCHANGED vars
    <2>1. UNCHANGED <<invitations, keys, req, pc, results, reply>>
        BY <1>10 DEF LoseRole, vars
    <2> QED
        BY <2>1 DEF Ledger, Honest, SingleTrue, Mine, StoredTrue, Computed, TrueOf
<1> QED
    BY <1>1, <1>2, <1>3, <1>4, <1>5, <1>6, <1>7, <1>8, <1>9, <1>10 DEF Next, Step

\* Both invariants hold in every reachable state.
THEOREM LedgerHolds == Spec => [](Inv /\ Ledger)
<1>1. Init => Inv /\ Ledger
    BY InitInv, InitLedger
<1>2. Inv /\ Ledger /\ [Next]_vars => Inv' /\ Ledger'
    BY NextInv, NextLedger
<1> QED
    BY <1>1, <1>2, PTL DEF Spec

\* Whatever was interrupted, retried or asked of another event: each item of
\* a 207 of BulkCreate is true of the event it was computed for.
THEOREM ItemsAreTrue == Spec => []ItemsTrue
<1>1. Inv /\ Ledger => ItemsTrue
    <2> SUFFICES ASSUME Inv, Ledger, NEW r \in Requests, reply[r] = "multi_status"
                 PROVE  \E u \in Requests :
                          /\ SameKey(r, u) /\ req[u].items = req[r].items
                          /\ Len(results[r]) = Len(req[r].items)
                          /\ \A n \in 1 .. Len(req[r].items) : TrueOf(u, n, results[r][n])
        BY DEF ItemsTrue, TrueOf
    <2>1. /\ Entry(r) # NotStored /\ Entry(r).results = results[r] /\ Entry(r).hash = req[r].items
        BY DEF Inv, Keyed
    <2>2. PICK u \in Requests : Computed(req[r].actor, req[r].key, u)
        BY <2>1, Asked DEF Ledger, StoredTrue, Entry, Inv
    <2>3. req[r].op = "bulk"
        BY Asked DEF Inv, Ledger, SingleTrue
    <2> QED
        BY <2>1, <2>2, <2>3 DEF Computed, Entry, SameKey
<1> QED
    BY <1>1, LedgerHolds, PTL

\* A single invitation that was answered 201 is in the table once, any other
\* answer of Create left nothing there.
THEOREM SingleAnswersAreTrue == Spec => []SingleAnswersTrue
<1>1. Inv /\ Ledger => SingleAnswersTrue
    <2> SUFFICES ASSUME Inv, Ledger, NEW r \in Requests, req[r].op = "invite"
                 PROVE  CASE reply[r] = "created" -> Cardinality(Mine(r)) = 1
                          [] reply[r] = "gone" -> Cardinality(Mine(r)) \in {0, 1}
                          [] OTHER -> Mine(r) = {}
        BY DEF SingleAnswersTrue, Mine
    <2>1. SingleTrue(r)
        BY DEF Ledger
    <2>2. Cardinality({}) = 0 /\ \A v : Cardinality({v}) = 1
        BY FS_EmptySet, FS_Singleton
    <2> QED
        BY <2>1, <2>2 DEF SingleTrue
<1> QED
    BY <1>1, LedgerHolds, PTL
=============================================================================

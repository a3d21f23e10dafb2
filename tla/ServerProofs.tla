---------------------------- MODULE ServerProofs ----------------------------
(***************************************************************************)
(* Proofs about Server.tla for every number of requests and connections,   *)
(* every matrix of permissions and every set of identities.                *)
(***************************************************************************)
EXTENDS Server, TLAPS

(***************************************************************************)
(* The inductive invariant.  What a request was granted is decided in      *)
(* Authz, what it does is seen in wrote and reply much later; Permitted    *)
(* carries the decision along the labels behind Authz, OnRoute says which  *)
(* labels a route comes to.  Leaving says what is known of a process on    *)
(* its way out.                                                            *)
(***************************************************************************)
Writing == {"write", "changing", "matched", "committing", "diagnose", "diagnoseLocked",
            "explaining", "explainingLocked"}
Reading == {"read", "reading"}

OnRoute(r) ==
    /\ pc[r] \in {"ping", "pinging"} => req[r].route = "health"
    /\ pc[r] \in {"standing", "checking"} => req[r].route \in {"read", "write"}
    /\ pc[r] \in Reading => req[r].route \in {"events", "read"}
    /\ pc[r] \in Writing => req[r].route = "write"
    /\ pc[r] \in Labels \ ({"idle", "done", "ping", "pinging"}) => req[r].route # "health"
    /\ pc[r] = "idle" => reply[r] = "none" /\ r \notin wrote

AllOnRoute == \A r \in Requests : OnRoute(r)

Granted(r) == \E x \in stood[r] : <<x, req[r].route>> \in permissions

Permitted(r) ==
    /\ Active(r) => role[Subject(r)] \in stood[r]
    /\ pc[r] \in Reading /\ req[r].route = "read" => Granted(r)
    /\ pc[r] \in Writing => Granted(r)
    /\ r \in wrote => Granted(r)
    /\ reply[r] = "ok" /\ req[r].route = "read" => Granted(r)

AllPermitted == \A r \in Requests : Permitted(r)

\* No request is accepted before the process serves.
NoneYet == phase \in Booting => \A r \in Requests : pc[r] = "idle"

Leaving ==
    /\ \A r \in Requests : reply[r] = "cut" => phase = "exited"
    /\ exit = "ok" => /\ phase \in {"close", "exited"}
                      /\ \A r \in Requests : ~Active(r) /\ reply[r] # "cut"

\* Of the sign-ins of one subject at most one is past the index on subject.
AloneInIndex ==
    \A r \in Requests : pc[r] = "entered" =>
        /\ users[Subject(r)] = None
        /\ \A q \in Requests \ {r} : pc[q] = "entered" => Subject(q) # Subject(r)

Inv == /\ AloneInIndex
       /\ TypeOK /\ ConnectionsReturned /\ NoneYet /\ AllOnRoute
       /\ AllPermitted /\ OneSubjectPerEmail /\ Leaving

(***************************************************************************)
(* The shape of requests.                                                  *)
(***************************************************************************)
\* What a request carries.
LEMMA RequestShape ==
    ASSUME TypeOK, NEW r \in Requests
    PROVE  /\ req[r] \in Inputs /\ req[r].route \in Routes
           /\ Subject(r) \in Subjects /\ req[r].email \in Emails
    BY ServerAssumption DEF TypeOK, Subject

\* What an answer does to the pool and to the request that gets it.
LEMMA Answering ==
    ASSUME TypeOK, NEW r \in Requests, NEW what \in Replies, Answer(r, what)
    PROVE  /\ owner' \in [Conns -> Requests \cup {None}]
           /\ pc' \in [Requests -> Labels] /\ reply' \in [Requests -> Replies]
           /\ \A c \in Conns : owner'[c] = None \/ (owner'[c] = owner[c] /\ owner[c] # r)
           /\ pc'[r] = "done" /\ reply'[r] = what
           /\ \A q \in Requests \ {r} : pc'[q] = pc[q] /\ reply'[q] = reply[q]
    BY ServerAssumption DEF Answer, Goto, Release, Released, TypeOK, Labels

\* A request that stays where it is, or leaves without success, stays permitted.
LEMMA StaysPermitted ==
    ASSUME TypeOK, AllPermitted, NEW q \in Requests,
           UNCHANGED <<req, permissions>>,
           pc'[q] \in {pc[q], "done"}, reply'[q] = reply[q] \/ reply'[q] # "ok",
           q \in wrote' => q \in wrote, stood[q] \subseteq stood'[q],
           Active(q) => role'[Subject(q)] \in stood'[q]
    PROVE  Permitted(q)'
<1>1. Granted(q) => Granted(q)'
    BY DEF Granted
<1> QED
    BY <1>1 DEF AllPermitted, Permitted, Active, Subject, Reading, Writing

(***************************************************************************)
(* One lemma per part of the invariant, one case per action.               *)
(***************************************************************************)
\* Every step keeps the types.
LEMMA TypeStep ==
    ASSUME TypeOK, [Next]_vars
    PROVE  TypeOK'
<1> USE ServerAssumption DEF TypeOK, Waiting, Running, Labels, Replies, Phases, Booting,
    process, data, history, Answer, Release, Released, Goto
<1>1. CASE Boot
    BY <1>1 DEF Boot, NewPool, NewVerifier, NewPolicy, Listen, BootFails, Advance,
        CoversEveryRole
<1>2. CASE Signal
    BY <1>2 DEF Signal, Advance
<1>3. CASE ServeFails
    BY <1>3 DEF ServeFails, Leave
<1>4. CASE Drained
    BY <1>4 DEF Drained, Leave
<1>5. CASE DrainTimeout
    BY <1>5 DEF DrainTimeout, Leave
<1>6. CASE Exit
    BY <1>6 DEF Exit
<1>7. CASE ChangeMembership
    BY <1>7 DEF ChangeMembership
<1>8. ASSUME NEW r \in Requests, Arrive(r) \/ Handle(r) \/ Interrupt(r)
      PROVE  TypeOK'
  <2> Subject(r) \in Subjects /\ req[r].email \in Emails /\ req[r].route \in Routes
    BY RequestShape
  <2>1. CASE Arrive(r)
    <3>1. CASE req[r].route # "health" /\ req[r].token # "valid"
      BY <2>1, <3>1 DEF Arrive
    <3>2. CASE ~(req[r].route # "health" /\ req[r].token # "valid")
      BY <2>1, <3>2 DEF Arrive
    <3> QED
      BY <3>1, <3>2
  <2>2. CASE Acquire(r)
    BY <2>2 DEF Acquire, Statement
  <2>3. CASE Refuse(r)
    BY <2>3 DEF Refuse, Failure
  <2>4. CASE Probe(r)
    <3>1. CASE Goto(r, "lookup") /\ Release(r) /\ UNCHANGED <<process, req, reply, data, history>>
      BY <3>1
    <3>2. CASE Goto(r, "passed") /\ UNCHANGED <<process, owner, req, reply, data, history>>
      BY <3>2
    <3> QED
      BY <2>4, <3>1, <3>2 DEF Probe
  <2>5. CASE EnterSubject(r)
    BY <2>5 DEF EnterSubject
  <2>6. CASE EnterEmail(r)
    <3>1. CASE Answer(r, "unauthorized") /\ UNCHANGED <<process, req, data, history>>
      BY <3>1
    <3>2. CASE pc[r] = "entered" /\ AddUser(r) /\ SignedIn(r)
               /\ UNCHANGED <<process, req, reply, role, version, wrote, history>>
      BY <3>2 DEF AddUser, SignedIn
    <3>3. CASE pc[r] = "beaten" /\ Goto(r, "probing")
               /\ UNCHANGED <<process, owner, req, reply, data, history>>
      BY <3>3
    <3> QED
      BY <2>6, <3>1, <3>2, <3>3 DEF EnterEmail
  <2>7. CASE SelectExisting(r)
    BY <2>7 DEF SelectExisting, SignedIn
  <2>8. CASE Authorize(r)
    <3>1. CASE Can(r)
      <4>1. req[r].route \in {"read", "write"}
        BY <3>1 DEF Can
      <4> QED
        BY <4>1, <3>1, <2>8 DEF Authorize
    <3>2. CASE ~Can(r)
      BY <3>2, <2>8, Answering DEF Authorize
    <3> QED
      BY <3>1, <3>2
  <2>9. CASE Read(r)
    BY <2>9 DEF Read
  <2>10. CASE Change(r)
    BY <2>10 DEF Change
  <2>15. CASE LockRow(r)
    BY <2>15 DEF LockRow
  <2>11. CASE Commit(r)
    BY <2>11 DEF Commit, Write
  <2>12. CASE Explain(r)
    BY <2>12 DEF Explain
  <2>13. CASE Ping(r)
    BY <2>13, Answering DEF Ping
  <2>14. CASE Interrupt(r)
    <3>1. PICK what \in {"gone", "unauthorized", "internal", "unavailable"} : Answer(r, what)
      BY <2>14 DEF Interrupt, Failure
    <3>2. /\ users' \in [Subjects -> Emails \cup {None}]
          /\ wrote' \subseteq Requests /\ version' \in Nat /\ role' = role
      BY <2>14 DEF Interrupt, Write, AddUser
    <3>3. UNCHANGED <<process, req, history>>
      BY <2>14 DEF Interrupt
    <3> QED
      BY <3>1, <3>2, <3>3, Answering
  <2> QED
    BY <1>8, <2>1, <2>2, <2>3, <2>4, <2>5, <2>6, <2>7, <2>8, <2>9, <2>10, <2>11, <2>12,
        <2>13, <2>14, <2>15 DEF Handle
<1>9. CASE UNCHANGED vars
    BY <1>9 DEF vars
<1> QED
    BY <1>1, <1>2, <1>3, <1>4, <1>5, <1>6, <1>7, <1>8, <1>9 DEF Next

\* Whoever is given a connection uses it, and gives it back with its answer.
LEMMA ReturnedStep ==
    ASSUME TypeOK, ConnectionsReturned, [Next]_vars
    PROVE  ConnectionsReturned'
<1> USE ServerAssumption DEF ConnectionsReturned, Diagnosing, TypeOK, Waiting, Running, Labels,
    Replies, Phases, Booting, process, data, history, Answer, Release, Released, Goto
<1>1. CASE Boot
    BY <1>1 DEF Boot, NewPool, NewVerifier, NewPolicy, Listen, BootFails, Advance,
        CoversEveryRole
<1>2. CASE Signal
    BY <1>2 DEF Signal, Advance
<1>3. CASE ServeFails
    BY <1>3 DEF ServeFails, Leave
<1>4. CASE Drained
    BY <1>4 DEF Drained, Leave
<1>5. CASE DrainTimeout
    BY <1>5 DEF DrainTimeout, Leave
<1>6. CASE Exit
    BY <1>6 DEF Exit
<1>7. CASE ChangeMembership
    BY <1>7 DEF ChangeMembership
<1>8. ASSUME NEW r \in Requests, Arrive(r) \/ Handle(r) \/ Interrupt(r)
      PROVE  ConnectionsReturned'
  <2>1. CASE Arrive(r)
    <3>1. \A c \in Conns : owner[c] # None => owner[c] # r
      BY <2>1 DEF Arrive
    <3>2. \A c \in Conns : owner'[c] # None => owner'[c] # r /\ owner'[c] = owner[c]
      BY <2>1, <3>1 DEF Arrive
    <3>3. \A q \in Requests \ {r} : pc'[q] = pc[q]
      BY <2>1 DEF Arrive
    <3> QED
      BY <3>2, <3>3
  <2>2. CASE Acquire(r)
    BY <2>2 DEF Acquire, Statement
  <2>3. CASE Refuse(r)
    BY <2>3 DEF Refuse, Failure
  <2>4. CASE Probe(r)
    BY <2>4 DEF Probe, Subject
  <2>5. CASE EnterSubject(r)
    BY <2>5 DEF EnterSubject
  <2>6. CASE EnterEmail(r)
    BY <2>6 DEF EnterEmail, SignedIn, AddUser, EmailTaken, Subject
  <2>7. CASE SelectExisting(r)
    BY <2>7 DEF SelectExisting, SignedIn
  <2>8. CASE Authorize(r)
    BY <2>8 DEF Authorize
  <2>9. CASE Read(r)
    BY <2>9 DEF Read
  <2>10. CASE Change(r)
    BY <2>10 DEF Change
  <2>15. CASE LockRow(r)
    BY <2>15 DEF LockRow
  <2>11. CASE Commit(r)
    BY <2>11 DEF Commit, Write
  <2>12. CASE Explain(r)
    BY <2>12 DEF Explain
  <2>13. CASE Ping(r)
    BY <2>13 DEF Ping
  <2>14. CASE Interrupt(r)
    <3>1. PICK what \in {"gone", "unauthorized", "internal", "unavailable"} : Answer(r, what)
      BY <2>14 DEF Interrupt, Failure
    <3> QED
      BY <3>1, Answering
  <2> QED
    BY <1>8, <2>1, <2>2, <2>3, <2>4, <2>5, <2>6, <2>7, <2>8, <2>9, <2>10, <2>11, <2>12,
        <2>13, <2>14, <2>15 DEF Handle
<1>9. CASE UNCHANGED vars
    BY <1>9 DEF vars
<1> QED
    BY <1>1, <1>2, <1>3, <1>4, <1>5, <1>6, <1>7, <1>8, <1>9 DEF Next

\* Requests only arrive while the process serves.
LEMMA NoneYetStep ==
    ASSUME TypeOK, NoneYet, [Next]_vars
    PROVE  NoneYet'
<1> USE DEF NoneYet, TypeOK, Waiting, Running, Labels, Replies, Phases, Booting, process,
    data, history, Answer, Release, Released, Goto
<1>1. CASE Boot
    BY <1>1 DEF Boot, NewPool, NewVerifier, NewPolicy, Listen, BootFails, Advance,
        CoversEveryRole
<1>2. CASE Signal
    BY <1>2 DEF Signal, Advance
<1>3. CASE ServeFails
    BY <1>3 DEF ServeFails, Leave
<1>4. CASE Drained
    BY <1>4 DEF Drained, Leave
<1>5. CASE DrainTimeout
    BY <1>5 DEF DrainTimeout, Leave
<1>6. CASE Exit
    BY <1>6 DEF Exit
<1>7. CASE ChangeMembership
    BY <1>7 DEF ChangeMembership
<1>8. ASSUME NEW r \in Requests, Arrive(r) \/ Handle(r) \/ Interrupt(r)
      PROVE  NoneYet'
  <2>1. CASE Arrive(r)
    BY <2>1 DEF Arrive, Subject
  <2>2. CASE Acquire(r)
    BY <2>2 DEF Acquire, Statement
  <2>3. CASE Refuse(r)
    BY <2>3 DEF Refuse, Failure
  <2>4. CASE Probe(r)
    BY <2>4 DEF Probe, Subject
  <2>5. CASE EnterSubject(r)
    BY <2>5 DEF EnterSubject
  <2>6. CASE EnterEmail(r)
    BY <2>6 DEF EnterEmail, SignedIn, AddUser, EmailTaken, Subject
  <2>7. CASE SelectExisting(r)
    BY <2>7 DEF SelectExisting, SignedIn
  <2>8. CASE Authorize(r)
    BY <2>8 DEF Authorize
  <2>9. CASE Read(r)
    BY <2>9 DEF Read
  <2>10. CASE Change(r)
    BY <2>10 DEF Change
  <2>15. CASE LockRow(r)
    BY <2>15 DEF LockRow
  <2>11. CASE Commit(r)
    BY <2>11 DEF Commit, Write
  <2>12. CASE Explain(r)
    BY <2>12 DEF Explain
  <2>13. CASE Ping(r)
    BY <2>13 DEF Ping
  <2>14. CASE Interrupt(r)
    BY <2>14 DEF Interrupt, Active
  <2> QED
    BY <1>8, <2>1, <2>2, <2>3, <2>4, <2>5, <2>6, <2>7, <2>8, <2>9, <2>10, <2>11, <2>12,
        <2>13, <2>14, <2>15 DEF Handle
<1>9. CASE UNCHANGED vars
    BY <1>9 DEF vars
<1> QED
    BY <1>1, <1>2, <1>3, <1>4, <1>5, <1>6, <1>7, <1>8, <1>9 DEF Next

\* A request stays on the labels of its route.
LEMMA RouteStep ==
    ASSUME TypeOK, AllOnRoute, NoneYet, [Next]_vars
    PROVE  AllOnRoute'
<1> USE DEF AllOnRoute, OnRoute, Reading, Writing, Active, Routes, NoneYet, TypeOK,
    Waiting, Running, Labels, Replies, Phases, Booting, process, data, history, Answer,
    Release, Released, Goto
<1>1. CASE Boot
    BY <1>1 DEF Boot, NewPool, NewVerifier, NewPolicy, Listen, BootFails, Advance,
        CoversEveryRole
<1>2. CASE Signal
    BY <1>2 DEF Signal, Advance
<1>3. CASE ServeFails
    BY <1>3 DEF ServeFails, Leave
<1>4. CASE Drained
    BY <1>4 DEF Drained, Leave
<1>5. CASE DrainTimeout
    BY <1>5 DEF DrainTimeout, Leave
<1>6. CASE Exit
    BY <1>6 DEF Exit
<1>7. CASE ChangeMembership
    BY <1>7 DEF ChangeMembership
<1>8. ASSUME NEW r \in Requests, Arrive(r) \/ Handle(r) \/ Interrupt(r)
      PROVE  AllOnRoute'
  <2> req[r].route \in Routes
    BY RequestShape
  <2>1. CASE Arrive(r)
    BY <2>1 DEF Arrive, Subject
  <2>2. CASE Acquire(r)
    BY <2>2 DEF Acquire, Statement
  <2>3. CASE Refuse(r)
    BY <2>3 DEF Refuse, Failure
  <2>4. CASE Probe(r)
    BY <2>4 DEF Probe, Subject
  <2>5. CASE EnterSubject(r)
    BY <2>5 DEF EnterSubject
  <2>6. CASE EnterEmail(r)
    BY <2>6 DEF EnterEmail, SignedIn, AddUser, EmailTaken, Subject
  <2>7. CASE SelectExisting(r)
    BY <2>7 DEF SelectExisting, SignedIn
  <2>8. CASE Authorize(r)
    BY <2>8 DEF Authorize
  <2>9. CASE Read(r)
    BY <2>9 DEF Read
  <2>10. CASE Change(r)
    BY <2>10 DEF Change
  <2>15. CASE LockRow(r)
    BY <2>15 DEF LockRow
  <2>11. CASE Commit(r)
    BY <2>11 DEF Commit, Write
  <2>12. CASE Explain(r)
    BY <2>12 DEF Explain
  <2>13. CASE Ping(r)
    BY <2>13 DEF Ping
  <2>14. CASE Interrupt(r)
    BY <2>14 DEF Interrupt, Write, AddUser, EmailTaken, Subject, Failure
  <2> QED
    BY <1>8, <2>1, <2>2, <2>3, <2>4, <2>5, <2>6, <2>7, <2>8, <2>9, <2>10, <2>11, <2>12,
        <2>13, <2>14, <2>15 DEF Handle
<1>9. CASE UNCHANGED vars
    BY <1>9 DEF vars
<1> QED
    BY <1>1, <1>2, <1>3, <1>4, <1>5, <1>6, <1>7, <1>8, <1>9 DEF Next

\* A row is added only when nobody has its e-mail address.
LEMMA EmailStep ==
    ASSUME TypeOK, OneSubjectPerEmail, [Next]_vars
    PROVE  OneSubjectPerEmail'
<1> USE ServerAssumption DEF OneSubjectPerEmail, TypeOK, Waiting, Running, Labels,
    Replies, Phases, Booting, process, data, history, Answer, Release, Released, Goto
<1>1. CASE Boot
    BY <1>1 DEF Boot, NewPool, NewVerifier, NewPolicy, Listen, BootFails, Advance,
        CoversEveryRole
<1>2. CASE Signal
    BY <1>2 DEF Signal, Advance
<1>3. CASE ServeFails
    BY <1>3 DEF ServeFails, Leave
<1>4. CASE Drained
    BY <1>4 DEF Drained, Leave
<1>5. CASE DrainTimeout
    BY <1>5 DEF DrainTimeout, Leave
<1>6. CASE Exit
    BY <1>6 DEF Exit
<1>7. CASE ChangeMembership
    BY <1>7 DEF ChangeMembership
<1>8. ASSUME NEW r \in Requests, Arrive(r) \/ Handle(r) \/ Interrupt(r)
      PROVE  OneSubjectPerEmail'
  <2> Subject(r) \in Subjects /\ req[r].email \in Emails
    BY RequestShape
  <2>1. CASE Arrive(r)
    BY <2>1 DEF Arrive, Subject
  <2>2. CASE Acquire(r)
    BY <2>2 DEF Acquire, Statement
  <2>3. CASE Refuse(r)
    BY <2>3 DEF Refuse, Failure
  <2>4. CASE Probe(r)
    BY <2>4 DEF Probe, Subject
  <2>5. CASE EnterSubject(r)
    BY <2>5 DEF EnterSubject
  <2>6. CASE EnterEmail(r)
    BY <2>6 DEF EnterEmail, SignedIn, AddUser, EmailTaken, Subject
  <2>7. CASE SelectExisting(r)
    BY <2>7 DEF SelectExisting, SignedIn
  <2>8. CASE Authorize(r)
    BY <2>8 DEF Authorize
  <2>9. CASE Read(r)
    BY <2>9 DEF Read
  <2>10. CASE Change(r)
    BY <2>10 DEF Change
  <2>15. CASE LockRow(r)
    BY <2>15 DEF LockRow
  <2>11. CASE Commit(r)
    BY <2>11 DEF Commit, Write
  <2>12. CASE Explain(r)
    BY <2>12 DEF Explain
  <2>13. CASE Ping(r)
    BY <2>13 DEF Ping
  <2>14. CASE Interrupt(r)
    BY <2>14 DEF Interrupt, Write, AddUser, EmailTaken, Subject, Failure
  <2> QED
    BY <1>8, <2>1, <2>2, <2>3, <2>4, <2>5, <2>6, <2>7, <2>8, <2>9, <2>10, <2>11, <2>12,
        <2>13, <2>14, <2>15 DEF Handle
<1>9. CASE UNCHANGED vars
    BY <1>9 DEF vars
<1> QED
    BY <1>1, <1>2, <1>3, <1>4, <1>5, <1>6, <1>7, <1>8, <1>9 DEF Next

\* A clean exit has seen every request answered.
LEMMA LeavingStep ==
    ASSUME TypeOK, Leaving, [Next]_vars
    PROVE  Leaving'
<1> USE DEF Leaving, Active, TypeOK, Waiting, Running, Labels, Replies, Phases, Booting,
    process, data, history, Answer, Release, Released, Goto
<1>1. CASE Boot
    BY <1>1 DEF Boot, NewPool, NewVerifier, NewPolicy, Listen, BootFails, Advance,
        CoversEveryRole
<1>2. CASE Signal
    BY <1>2 DEF Signal, Advance
<1>3. CASE ServeFails
    BY <1>3 DEF ServeFails, Leave
<1>4. CASE Drained
    BY <1>4 DEF Drained, Leave
<1>5. CASE DrainTimeout
    BY <1>5 DEF DrainTimeout, Leave
<1>6. CASE Exit
    BY <1>6 DEF Exit
<1>7. CASE ChangeMembership
    BY <1>7 DEF ChangeMembership
<1>8. ASSUME NEW r \in Requests, Arrive(r) \/ Handle(r) \/ Interrupt(r)
      PROVE  Leaving'

  <2>1. CASE Arrive(r)
    BY <2>1 DEF Arrive, Subject
  <2>2. CASE Acquire(r)
    BY <2>2 DEF Acquire, Statement
  <2>3. CASE Refuse(r)
    BY <2>3 DEF Refuse, Failure
  <2>4. CASE Probe(r)
    BY <2>4 DEF Probe, Subject
  <2>5. CASE EnterSubject(r)
    BY <2>5 DEF EnterSubject
  <2>6. CASE EnterEmail(r)
    BY <2>6 DEF EnterEmail, SignedIn, AddUser, EmailTaken, Subject
  <2>7. CASE SelectExisting(r)
    BY <2>7 DEF SelectExisting, SignedIn
  <2>8. CASE Authorize(r)
    BY <2>8 DEF Authorize
  <2>9. CASE Read(r)
    BY <2>9 DEF Read
  <2>10. CASE Change(r)
    BY <2>10 DEF Change
  <2>15. CASE LockRow(r)
    BY <2>15 DEF LockRow
  <2>11. CASE Commit(r)
    BY <2>11 DEF Commit, Write
  <2>12. CASE Explain(r)
    BY <2>12 DEF Explain
  <2>13. CASE Ping(r)
    BY <2>13 DEF Ping
  <2>14. CASE Interrupt(r)
    BY <2>14 DEF Interrupt, Write, AddUser, EmailTaken, Subject, Failure
  <2> QED
    BY <1>8, <2>1, <2>2, <2>3, <2>4, <2>5, <2>6, <2>7, <2>8, <2>9, <2>10, <2>11, <2>12,
        <2>13, <2>14, <2>15 DEF Handle
<1>9. CASE UNCHANGED vars
    BY <1>9 DEF vars
<1> QED
    BY <1>1, <1>2, <1>3, <1>4, <1>5, <1>6, <1>7, <1>8, <1>9 DEF Next

\* What Authz granted rests on a role held since the arrival.
LEMMA PermittedStep ==
    ASSUME TypeOK, AllOnRoute, AllPermitted, NoneYet, [Next]_vars
    PROVE  AllPermitted'
<1> SUFFICES ASSUME NEW q \in Requests
             PROVE  Permitted(q)'
    BY DEF AllPermitted
<1> Active(q) => role[Subject(q)] \in stood[q]
    BY DEF AllPermitted, Permitted
<1> Subject(q) \in Subjects /\ req[q].route \in Routes
    BY RequestShape
<1>1. CASE Boot
  <2>1. CASE NewPolicy
    <3>1. pc[q] = "idle" /\ pc'[q] = "idle" /\ reply'[q] = "none" /\ q \notin wrote'
      BY <1>1, <2>1 DEF Boot, NewPolicy, Advance, NoneYet, Booting, AllOnRoute, OnRoute,
          data
    <3> QED
      BY <3>1 DEF Permitted, Active, Reading, Writing
  <2>2. CASE ~NewPolicy
    BY <1>1, <2>2, StaysPermitted
    DEF Boot, NewPool, NewVerifier, Listen, BootFails, data, history
  <2> QED
    BY <2>1, <2>2
<1>2. CASE Signal \/ ServeFails \/ Drained \/ DrainTimeout
    BY <1>2, StaysPermitted
    DEF Signal, ServeFails, Drained, DrainTimeout, Leave, Advance, data, history
<1>3. CASE Exit
    BY <1>3, StaysPermitted DEF Exit, TypeOK, data, history
<1>4. CASE ChangeMembership
  <2>1. stood[q] \subseteq stood'[q] /\ (Active(q) => role'[Subject(q)] \in stood'[q])
    <3>1. PICK s \in Subjects, x \in Roles \cup {None} :
             /\ role' = [role EXCEPT ![s] = x]
             /\ stood' = [r \in Requests |-> IF Active(r) /\ Subject(r) = s
                                             THEN stood[r] \cup {x} ELSE stood[r]]
      BY <1>4 DEF ChangeMembership
    <3>2. stood[q] \subseteq stood'[q]
      BY <3>1
    <3>3. CASE Subject(q) = s
      BY <3>1, <3>3 DEF TypeOK
    <3>4. CASE Subject(q) # s
      BY <3>1, <3>2, <3>4 DEF TypeOK
    <3> QED
      BY <3>2, <3>3, <3>4
  <2> QED
    BY <2>1, <1>4, StaysPermitted DEF ChangeMembership, process
<1>5. ASSUME NEW r \in Requests, Arrive(r) \/ Handle(r) \/ Interrupt(r)
      PROVE  Permitted(q)'
  <2>1. CASE q # r
    <3>1. /\ UNCHANGED <<req, permissions>> /\ pc'[q] = pc[q] /\ reply'[q] = reply[q]
          /\ (q \in wrote' => q \in wrote) /\ stood'[q] = stood[q] /\ role' = role
      BY <1>5, <2>1
      DEF Arrive, Handle, Interrupt, Acquire, Refuse, Probe, EnterSubject, EnterEmail,
          SelectExisting, SignedIn, Authorize, Read, Change, LockRow, Commit, Explain, Ping, Answer,
          Goto, Write, AddUser, TypeOK, process, data, history
    <3> QED
      BY <3>1, StaysPermitted
  <2>2. CASE q = r
    <3>1. CASE Arrive(r)
      BY <2>2, <3>1 DEF Arrive, Answer, Goto, AllOnRoute, OnRoute, Permitted, Active,
          Subject,
                        Reading, Writing, TypeOK, process, data
    <3>2. CASE Acquire(r)
      <4>1. /\ UNCHANGED <<req, permissions, reply, wrote, stood, role>>
            /\ pc'[q] \in Reading <=> pc[q] \in Reading
            /\ pc'[q] \in Writing <=> pc[q] \in Writing
            /\ Active(q)
        BY <2>2, <3>2 DEF Acquire, Goto, Statement, Waiting, Reading, Writing, Active,
            TypeOK,
                          process, data, history
      <4> QED
        BY <4>1 DEF AllPermitted, Permitted, Granted, Subject
    <3>3. CASE Refuse(r) \/ Explain(r) \/ (Interrupt(r) /\ r \notin wrote')
      <4>1. /\ UNCHANGED <<req, permissions, stood, role>>
            /\ q \in wrote' => q \in wrote
        BY <2>2, <3>3 DEF Refuse, Explain, Interrupt, Failure, Answer, Goto, TypeOK, Write,
                          AddUser, process, data, history
      <4>2. pc'[q] = "done" /\ reply'[q] # "ok"
        BY <2>2, <3>3 DEF Refuse, Explain, Interrupt, Failure, Answer, Goto, TypeOK
      <4> QED
        BY <4>1, <4>2, StaysPermitted
    <3>4. CASE Interrupt(r) /\ r \in wrote'
      <4>1. /\ UNCHANGED <<req, permissions, stood, role>>
            /\ pc'[q] = "done" /\ reply'[q] # "ok"
            /\ q \in wrote \/ pc[q] = "committing"
        BY <2>2, <3>4 DEF Interrupt, Failure, Answer, Goto, TypeOK, Write, AddUser, process,
                          data, history
      <4> QED
        BY <4>1 DEF AllPermitted, Permitted, Granted, Active, Reading, Writing
    <3>5. CASE Probe(r) \/ EnterSubject(r) \/ Change(r) \/ LockRow(r)
      <4>1. /\ UNCHANGED <<req, permissions, reply, wrote, stood, role>>
            /\ pc'[q] \notin Reading
            /\ pc'[q] \in Writing => pc[q] \in Writing
            /\ Active(q)
        BY <2>2, <3>5 DEF Probe, EnterSubject, Change, LockRow, Goto, Reading, Writing, Active,
            TypeOK,
                          process, data, history
      <4> QED
        BY <4>1 DEF AllPermitted, Permitted, Granted, Subject
    <3>6. CASE EnterEmail(r) \/ SelectExisting(r)
      <4>1. /\ UNCHANGED <<req, permissions, wrote, stood, role>>
            /\ reply'[q] = reply[q] \/ reply'[q] # "ok"
            /\ pc'[q] \in {"done", "probing", "standing"}
                 \/ (pc'[q] = "read" /\ req[q].route = "events")
            /\ Active(q)
        BY <2>2, <3>6 DEF EnterEmail, SelectExisting, SignedIn, AddUser, Answer, Goto,
            Active,
                          TypeOK, process, data, history
      <4> QED
        BY <4>1 DEF AllPermitted, Permitted, Granted, Active, Subject, Reading, Writing
    <3>7. CASE Authorize(r)
      <4>1. CASE Can(r)
        <5>1. Granted(q)
          BY <2>2, <3>7, <4>1 DEF Authorize, Can, Granted, Active
        <5>2. /\ UNCHANGED <<req, permissions, wrote, stood, role, reply>>
              /\ pc'[q] = req[q].route /\ Active(q)
          BY <2>2, <3>7, <4>1 DEF Authorize, Goto, Active, TypeOK, process, data, history
        <5> QED
          BY <5>1, <5>2 DEF Permitted, Granted, Active, Subject
      <4>2. CASE ~Can(r)
        BY <2>2, <3>7, <4>2, StaysPermitted
        DEF Authorize, Answer, Goto, TypeOK, process, data, history
      <4> QED
        BY <4>1, <4>2
    <3>8. CASE Read(r) \/ Commit(r) \/ Ping(r)
      <4>1. /\ UNCHANGED <<req, permissions, stood, role>> /\ pc'[q] = "done"
            /\ q \in wrote' => q \in wrote \/ pc[q] = "committing"
            /\ reply'[q] = "ok" /\ req[q].route = "read" => pc[q] = "reading"
        BY <2>2, <3>8 DEF Read, Commit, Ping, Answer, Goto, Write, AllOnRoute, OnRoute,
            Writing,
                          TypeOK, process, data, history
      <4> QED
        BY <4>1 DEF AllPermitted, Permitted, Granted, Active, Reading, Writing
    <3> QED
      BY <1>5, <3>1, <3>2, <3>3, <3>4, <3>5, <3>6, <3>7, <3>8 DEF Handle
  <2> QED
    BY <2>1, <2>2
<1>6. CASE UNCHANGED vars
    BY <1>6, StaysPermitted DEF vars, process, data, history
<1> QED
    BY <1>1, <1>2, <1>3, <1>4, <1>5, <1>6 DEF Next

\* Whoever finds another one entering the subject is beaten.
LEMMA AloneStep ==
    ASSUME TypeOK, AloneInIndex, [Next]_vars
    PROVE  AloneInIndex'
<1> USE ServerAssumption DEF AloneInIndex, Subject, TypeOK, Waiting, Running, Labels,
    Replies, Phases, Booting, process, data, history, Answer, Release, Released, Goto
<1>1. CASE Boot
    BY <1>1 DEF Boot, NewPool, NewVerifier, NewPolicy, Listen, BootFails, Advance,
        CoversEveryRole
<1>2. CASE Signal
    BY <1>2 DEF Signal, Advance
<1>3. CASE ServeFails
    BY <1>3 DEF ServeFails, Leave
<1>4. CASE Drained
    BY <1>4 DEF Drained, Leave
<1>5. CASE DrainTimeout
    BY <1>5 DEF DrainTimeout, Leave
<1>6. CASE Exit
    BY <1>6 DEF Exit
<1>7. CASE ChangeMembership
    BY <1>7 DEF ChangeMembership
<1>8. ASSUME NEW r \in Requests, Arrive(r) \/ Handle(r) \/ Interrupt(r)
      PROVE  AloneInIndex'
  <2> Subject(r) \in Subjects /\ req[r].email \in Emails /\ req[r].route \in Routes
    BY RequestShape
  <2>1. CASE Arrive(r)
    BY <2>1 DEF Arrive
  <2>2. CASE Acquire(r)
    BY <2>2 DEF Acquire, Statement
  <2>3. CASE Refuse(r)
    BY <2>3 DEF Refuse, Failure
  <2>4. CASE Probe(r)
    BY <2>4 DEF Probe
  <2>5. CASE EnterSubject(r)
    <3>1. pc'[r] = "entered" => users[Subject(r)] = None /\ ~Entering(r)
      BY <2>5 DEF EnterSubject
    <3> QED
      BY <2>5, <3>1 DEF EnterSubject, Entering
  <2>6. CASE EnterEmail(r)
    <3>1. CASE UNCHANGED users
      BY <2>6, <3>1 DEF EnterEmail, SignedIn
    <3>2. CASE pc[r] = "entered" /\ AddUser(r) /\ SignedIn(r) /\ req' = req
      BY <3>2 DEF SignedIn, AddUser
    <3> QED
      BY <2>6, <3>1, <3>2 DEF EnterEmail
  <2>7. CASE SelectExisting(r)
    BY <2>7 DEF SelectExisting, SignedIn
  <2>8. CASE Authorize(r)
    BY <2>8 DEF Authorize, Routes
  <2>9. CASE Read(r)
    BY <2>9 DEF Read
  <2>10. CASE Change(r)
    BY <2>10 DEF Change
  <2>15. CASE LockRow(r)
    BY <2>15 DEF LockRow
  <2>11. CASE Commit(r)
    BY <2>11 DEF Commit, Write
  <2>12. CASE Explain(r)
    BY <2>12 DEF Explain
  <2>13. CASE Ping(r)
    BY <2>13 DEF Ping
  <2>14. CASE Interrupt(r)
    BY <2>14 DEF Interrupt, Write, AddUser, EmailTaken, Failure
  <2> QED
    BY <1>8, <2>1, <2>2, <2>3, <2>4, <2>5, <2>6, <2>7, <2>8, <2>9, <2>10, <2>11, <2>12,
        <2>13, <2>14, <2>15 DEF Handle
<1>9. CASE UNCHANGED vars
    BY <1>9 DEF vars
<1> QED
    BY <1>1, <1>2, <1>3, <1>4, <1>5, <1>6, <1>7, <1>8, <1>9 DEF Next

\* The invariant holds at the start.
LEMMA Initially ==
    ASSUME Init
    PROVE  Inv
<1>1. TypeOK
    BY ServerAssumption DEF Init, TypeOK, Labels, Replies, Phases, Booting
<1>2. OneSubjectPerEmail
    BY ServerAssumption DEF Init, OneSubjectPerEmail
<1>3. AllOnRoute /\ AllPermitted
    BY DEF Init, AllOnRoute, OnRoute, AllPermitted, Permitted, Active, Reading, Writing,
        Labels, Waiting, Running
<1>4. AloneInIndex
    BY DEF Init, AloneInIndex
<1>5. ConnectionsReturned /\ NoneYet /\ Leaving
    BY DEF Init, ConnectionsReturned, NoneYet, Leaving
<1> QED
    BY <1>1, <1>2, <1>3, <1>4, <1>5 DEF Inv

\* The invariant holds throughout.
THEOREM Invariance == Spec => []Inv
<1>1. Inv /\ [Next]_vars => Inv'
    BY TypeStep, ReturnedStep, NoneYetStep, RouteStep, EmailStep, LeavingStep,
       PermittedStep, AloneStep DEF Inv
<1> QED
    BY Initially, <1>1, PTL DEF Spec

(***************************************************************************)
(* The properties.                                                         *)
(***************************************************************************)
\* Types of the process, its pool, its requests and the tables.
THEOREM TypeCorrect == Spec => []TypeOK
<1>1. Inv => TypeOK
    BY DEF Inv
<1> QED
    BY Invariance, <1>1, PTL

\* No path of a request keeps a connection it no longer uses: only a write that
\* diagnoses itself holds one while it waits.
THEOREM NothingLeaks == Spec => []ConnectionsReturned
<1>1. Inv => ConnectionsReturned
    BY DEF Inv
<1> QED
    BY Invariance, <1>1, PTL

\* What a request did on an event its caller had standing for since it arrived.
THEOREM StandingIsFresh == Spec => []NextRequestDenied
<1>1. Inv => NextRequestDenied
    BY DEF Inv, AllPermitted, Permitted, Granted, NextRequestDenied
<1> QED
    BY Invariance, <1>1, PTL

\* No two subjects share an e-mail address.
THEOREM IdentitiesApart == Spec => []OneSubjectPerEmail
<1>1. Inv => OneSubjectPerEmail
    BY DEF Inv
<1> QED
    BY Invariance, <1>1, PTL

\* A process that ends cleanly has cut nobody off.
THEOREM CleanExit == Spec => []GracefulExit
<1>1. Inv => GracefulExit
    BY DEF Inv, Leaving, GracefulExit
<1> QED
    BY Invariance, <1>1, PTL

\* A users row is written once, with an address nobody else has.
THEOREM WrittenOnce == Spec => IdentitySetOnce
<1>1. Inv /\ [Next]_vars =>
        [\A s \in Subjects : users'[s] # users[s] =>
            users[s] = None /\ \A t \in Subjects \ {s} : users'[t] # users'[s]]_users
  <2> SUFFICES ASSUME Inv, [Next]_vars, NEW s \in Subjects, users'[s] # users[s]
               PROVE  users[s] = None /\ \A t \in Subjects \ {s} : users'[t] # users'[s]
    OBVIOUS
  <2>1. CASE \E r \in Requests : Arrive(r) \/ Handle(r) \/ Interrupt(r)
    <3>1. PICK r \in Requests : Arrive(r) \/ Handle(r) \/ Interrupt(r)
      BY <2>1
    <3>2. AddUser(r) /\ pc[r] = "entered" /\ ~EmailTaken(r)
      BY <3>1
      DEF Arrive, Handle, Interrupt, Acquire, Refuse, Probe, EnterSubject, EnterEmail,
          SelectExisting, Authorize, Read, Change, LockRow, Commit, Explain, Ping, Write, data
    <3>3. users' = [users EXCEPT ![Subject(r)] = req[r].email] /\ Subject(r) = s
      BY <3>2 DEF AddUser, Inv, TypeOK
    <3>4. users[s] = None
      BY <3>2, <3>3 DEF Inv, AloneInIndex
    <3>5. users'[s] = req[r].email /\ \A t \in Subjects \ {s} : users'[t] = users[t] /\ users[t] # req[r].email
      BY <3>2, <3>3 DEF EmailTaken, Inv, TypeOK
    <3> QED
      BY <3>4, <3>5
  <2>2. CASE Boot \/ Signal \/ ServeFails \/ Drained \/ DrainTimeout \/ Exit \/ ChangeMembership
    BY <2>2 DEF Boot, Signal, ServeFails, Drained, DrainTimeout, Leave, Exit,
        ChangeMembership, data
  <2> QED
    BY <2>1, <2>2 DEF Next, vars, data
<1> QED
    BY <1>1, Invariance, PTL DEF Spec, IdentitySetOnce

\* Only a client that goes away ends a starvation: neither the process's signal
\* nor its drain timer nor any step of a request does.
THEOREM StarvedForGood == Spec => [][Starved => Starved' \/ \E r \in Requests : Interrupt(r)]_vars
<1>1. ASSUME Inv, [Next]_vars, Starved, ~(\E r \in Requests : Interrupt(r))
      PROVE  Starved'
  <2> SUFFICES ASSUME NEW c \in Conns
               PROVE  /\ owner'[c] \in Requests
                      /\ \/ pc'[owner'[c]] \in Diagnosing
                         \/ /\ pc'[owner'[c]] = "matched"
                            /\ \E q \in Requests : pc'[q] = "diagnoseLocked"
    BY DEF Starved
  <2>1. /\ owner[c] \in Requests /\ owner[c] # None
        /\ \/ pc[owner[c]] \in Diagnosing
           \/ pc[owner[c]] = "matched" /\ \E q \in Requests : pc[q] = "diagnoseLocked"
    BY <1>1, ServerAssumption DEF Starved
  <2>2. ASSUME NEW r \in Requests, r # owner[c], pc[r] # "diagnoseLocked",
               owner'[c] = owner[c], \A q \in Requests \ {r} : pc'[q] = pc[q]
        PROVE  /\ owner'[c] \in Requests
               /\ \/ pc'[owner'[c]] \in Diagnosing
                  \/ /\ pc'[owner'[c]] = "matched"
                     /\ \E q \in Requests : pc'[q] = "diagnoseLocked"
    BY <2>1, <2>2
  <2>3. CASE Boot \/ Signal \/ ServeFails \/ Drained \/ DrainTimeout \/ ChangeMembership
             \/ UNCHANGED vars
    BY <2>1, <2>3 DEF Boot, Signal, ServeFails, Drained, DrainTimeout, Leave, ChangeMembership, vars
  <2>4. CASE Exit
    BY <2>1, <2>4 DEF Exit
  <2>5. ASSUME NEW r \in Requests, Arrive(r) \/ Handle(r)
        PROVE  /\ owner'[c] \in Requests
               /\ \/ pc'[owner'[c]] \in Diagnosing
                  \/ /\ pc'[owner'[c]] = "matched"
                     /\ \E q \in Requests : pc'[q] = "diagnoseLocked"
    <3>1. ~Acquire(r) /\ ~Refuse(r)
      BY <1>1, <2>1, ServerAssumption DEF Acquire, Refuse, Starved
    <3>2. pc[r] \notin Diagnosing
      BY <2>5, <3>1
      DEF Arrive, Handle, Probe, EnterSubject, EnterEmail, SelectExisting, Authorize, Read,
          Change, LockRow, Commit, Explain, Ping, Diagnosing
    <3>3. pc[r] = "matched" => \A q \in Requests : pc[q] # "diagnoseLocked"
      BY <2>5, <3>1
      DEF Arrive, Handle, Probe, EnterSubject, EnterEmail, SelectExisting, Authorize, Read,
          Change, LockRow, LocksRow, Commit, Explain, Ping
    <3>4. r # owner[c]
      BY <2>1, <3>2, <3>3
    <3>5. owner' = owner \/ Release(r)
      BY <2>5, <3>1
      DEF Arrive, Handle, Probe, EnterSubject, EnterEmail, SelectExisting, SignedIn,
          Authorize, Read, Change, LockRow, Commit, Explain, Ping, Answer
    <3>6. \E label : Goto(r, label)
      <4>1. CASE Arrive(r) \/ Probe(r) \/ EnterSubject(r) \/ SelectExisting(r)
        BY <4>1 DEF Arrive, Probe, EnterSubject, SelectExisting, SignedIn, Answer, Goto
      <4>2. CASE EnterEmail(r)
        BY <4>2 DEF EnterEmail, SignedIn, Answer, Goto
      <4>3. CASE Authorize(r) \/ Read(r) \/ Change(r) \/ LockRow(r) \/ Commit(r) \/ Explain(r)
                 \/ Ping(r)
        BY <4>3 DEF Authorize, Read, Change, LockRow, Commit, Explain, Ping, Answer, Goto
      <4> QED
        BY <2>5, <3>1, <4>1, <4>2, <4>3 DEF Handle
    <3>7. owner'[c] = owner[c]
      BY <3>4, <3>5 DEF Release, Released
    <3>8. \A q \in Requests \ {r} : pc'[q] = pc[q]
      BY <1>1, <3>6 DEF Goto, Inv, TypeOK
    <3> QED
      BY <2>2, <3>2, <3>4, <3>7, <3>8 DEF Diagnosing
  <2> QED
    BY <1>1, <2>3, <2>4, <2>5 DEF Next
<1>2. Inv /\ [Next]_vars => [Starved => Starved' \/ \E r \in Requests : Interrupt(r)]_vars
  BY <1>1
<1> QED
    BY <1>2, Invariance, PTL DEF Spec
=============================================================================

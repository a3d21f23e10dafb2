------------------------------- MODULE Roster -------------------------------
(***************************************************************************)
(* The membership endpoints: internal/adapter/postgres/member_repo.go and  *)
(* EventRepository.Create over PostgreSQL at READ COMMITTED, behind the    *)
(* authorization lookup of internal/adapter/authz/policy.go, run by any    *)
(* number of requests at once while people sign in for the first time.     *)
(*                                                                         *)
(* AssignRole and Delete lock the events row (FOR UPDATE) before they look *)
(* at the roster.  Create takes no such lock itself; its foreign key does, *)
(* in the mode that conflicts with theirs (FOR KEY SHARE), but only after  *)
(* the statement has decided what to insert.                               *)
(***************************************************************************)
EXTENDS MemberRows, Sequences, FiniteSets

CONSTANTS
    Requests,   \* the requests in flight
    Droppable,  \* the requests whose client may hang up before the answer
    Inputs,     \* what a validated request may ask for
    Live,       \* the events that exist when the requests arrive
    Seated,     \* the event_members table when the requests arrive
    SignedIn,   \* the people with a users row when the requests arrive
    NoWrite     \* no uncommitted write

\* One shape for the four operations; each reads the fields it is about.
\* user is the one the e-mail address of an "add" belongs to.
Input == [op : {"found", "add", "assign", "remove"}, actor : Users, event : Events,
          user : Users, role : Roles, id : MemberIds, version : Nat \ {0}]

\* An uncommitted write: the row it leaves under id, or none after a delete.
Write == [id : MemberIds, new : Member \cup {NoMember}]

ASSUME RosterAssumption ==
    /\ Inputs \subseteq Input
    /\ NoWrite \notin Write /\ NoWrite \notin Requests
    /\ SignedIn \subseteq Users
    /\ \A q \in Inputs : q.actor \in SignedIn

ASSUME SeatedAssumption ==
    /\ Live \subseteq Events
    /\ Seated \in [MemberIds -> Member \cup {NoMember}]
    /\ OneSeatEach(Seated) /\ Governed(Live, Seated)
    /\ \A i \in MemberIds : Seated[i] # NoMember =>
          Seated[i].event \in Live /\ Seated[i].user \in SignedIn /\ Seated[i].version = 1

VARIABLES
    events,     \* events, committed
    roster,     \* event_members, committed
    audit,      \* audit_log, committed, per membership in commit order
    users,      \* users, committed
    req,        \* what each request asks for
    pc,         \* the statement each request runs next
    pend,       \* what its open transaction has written
    reply,      \* the answer written by the handler
    shown       \* details.current of a version_conflict answer

db == <<events, roster, audit>>
vars == <<events, roster, audit, users, req, pc, pend, reply, shown>>

Init ==
    /\ events = Live
    /\ roster = Seated
    /\ audit = [i \in MemberIds |-> IF Seated[i] = NoMember THEN << >>
                ELSE <<[by |-> NoWrite, action |-> "create", before |-> "none", after |-> Seated[i].role]>>]
    /\ users = SignedIn
    /\ req \in [Requests -> Inputs]
    /\ pc = [r \in Requests |-> IF req[r].op = "found" THEN "found" ELSE "authorize"]
    /\ pend = [r \in Requests |-> NoWrite]
    /\ reply = [r \in Requests |-> "none"]
    /\ shown = [r \in Requests |-> NoMember]

Answer(r, code) ==
    /\ pc' = [pc EXCEPT ![r] = "done"]
    /\ reply' = [reply EXCEPT ![r] = code]

GoTo(r, label) ==
    /\ pc' = [pc EXCEPT ![r] = label]
    /\ UNCHANGED reply

(***************************************************************************)
(* Who may do what.                                                        *)
(***************************************************************************)
\* role_permissions, the rows on the resource "member" other than "read".
Permitted == [admin |-> {"add", "assign", "remove"}, contributor |-> {}, attendee |-> {}]

SeatOf(u, e) ==
    {i \in MemberIds : roster[i] # NoMember /\ roster[i].event = e /\ roster[i].user = u}

\* Policy.Can: the live role, against the permissions loaded at boot.
Can(r) == \E i \in SeatOf(req[r].actor, req[r].event) : req[r].op \in Permitted[roster[i].role]

Authorize(r) ==
    /\ pc[r] = "authorize"
    /\ IF Can(r) THEN GoTo(r, IF req[r].op = "add" THEN "insert" ELSE "lock")
       ELSE Answer(r, "forbidden")
    /\ UNCHANGED <<db, users, req, pend, shown>>

\* canGrantRoleGuard: any member may grant attendee, an admin any role.
MayGrant(r) ==
    \E i \in SeatOf(req[r].actor, req[r].event) : req[r].role = "attendee" \/ roster[i].role = "admin"

(***************************************************************************)
(* Locks (PostgreSQL).                                                     *)
(***************************************************************************)
Writing(r) == pend[r] # NoWrite

\* Mutant: the transaction of a last_admin answer is never rolled back.
HoldsEventOn(r, e) ==
    /\ req[r].op \in {"assign", "remove"} /\ req[r].event = e
    /\ pc[r] \in {"write", "diagnose", "commit"} \/ reply[r] = "last_admin"

\* The events row is locked FOR UPDATE by AssignRole and Delete ...
HoldsEvent(r, e) ==
    /\ req[r].op \in {"assign", "remove"} /\ req[r].event = e
    /\ pc[r] \in {"write", "diagnose", "commit"}

\* ... and FOR KEY SHARE once Create's foreign key has been checked.
SharesEvent(r, e) == req[r].op = "add" /\ req[r].event = e /\ pc[r] = "commit"

\* A primary key no committed or open transaction has ever used (uuidv7).
FreshId(i) == audit[i] = << >> /\ \A u \in Requests : Writing(u) => pend[u].id # i

NewRow(r) == [event |-> req[r].event, user |-> req[r].user, role |-> req[r].role, version |-> 1]

(***************************************************************************)
(* EventRepository.Create: the event and its creator's seat in one         *)
(* statement, seen by nobody before the commit.                            *)
(***************************************************************************)
Found(r) ==
    /\ pc[r] = "found"
    /\ \E e \in Events \ events, i \in MemberIds :
        /\ FreshId(i)
        /\ \A u \in Requests : Writing(u) /\ pend[u].new # NoMember => pend[u].new.event # e
        /\ pend' = [pend EXCEPT ![r] =
             [id |-> i, new |-> [event |-> e, user |-> req[r].actor, role |-> "admin", version |-> 1]]]
    /\ GoTo(r, "commit")
    /\ UNCHANGED <<db, users, req, shown>>

(***************************************************************************)
(* MemberRepository.Create.                                                *)
(***************************************************************************)
\* INSERT ... SELECT FROM users WHERE email = ? AND canGrantRoleGuard: what
\* the statement's snapshot shows decides, whatever it waits for later.
Insert(r) ==
    /\ pc[r] = "insert"
    /\ req[r].user \in users /\ MayGrant(r)
    /\ \E i \in MemberIds : FreshId(i) /\ pend' = [pend EXCEPT ![r] = [id |-> i, new |-> NewRow(r)]]
    /\ GoTo(r, "seat")
    /\ UNCHANGED <<db, users, req, shown>>

InsertNothing(r) ==
    /\ pc[r] = "insert"
    /\ ~(req[r].user \in users /\ MayGrant(r))
    /\ GoTo(r, "reason")
    /\ UNCHANGED <<db, users, req, pend, shown>>

\* The read that tells an unknown e-mail address from a forbidden role.
Reason(r) ==
    /\ pc[r] = "reason"
    /\ Answer(r, IF req[r].user \in users THEN "cannot_assign_role" ELSE "user_not_found")
    /\ UNCHANGED <<db, users, req, pend, shown>>

\* Another open transaction has put a row for r's seat in the unique index,
\* or is changing the row that sits there: r has to wait for its end.
OpenSeat(r) ==
    \E u \in Requests \ {r} :
        /\ Writing(u)
        /\ \/ roster[pend[u].id] # NoMember /\ SameSeat(roster[pend[u].id], pend[r].new)
           \/ /\ req[u].op = "add" /\ pc[u] \in {"event", "commit"}
              /\ SameSeat(pend[u].new, pend[r].new)

\* UNIQUE (event_id, user_id)
Occupied(r) == \E i \in MemberIds : roster[i] # NoMember /\ SameSeat(roster[i], pend[r].new)

\* 23505
RejectSeat(r) ==
    /\ pc[r] = "seat"
    /\ ~OpenSeat(r) /\ Occupied(r)
    /\ pend' = [pend EXCEPT ![r] = NoWrite]
    /\ Answer(r, "already_member")
    /\ UNCHANGED <<db, users, req, shown>>

TakeSeat(r) ==
    /\ pc[r] = "seat"
    /\ ~OpenSeat(r) /\ ~Occupied(r)
    /\ GoTo(r, "event")
    /\ UNCHANGED <<db, users, req, pend, shown>>

\* Mutant: no foreign key, so no lock on the event.
ShareEventAtOnce(r) ==
    /\ pc[r] = "event"
    /\ GoTo(r, "commit")
    /\ UNCHANGED <<db, users, req, pend, shown>>

\* The foreign key to events: waits for whoever holds the row FOR UPDATE.
ShareEvent(r) ==
    /\ pc[r] = "event"
    /\ \A u \in Requests : ~HoldsEvent(u, req[r].event)
    /\ GoTo(r, "commit")
    /\ UNCHANGED <<db, users, req, pend, shown>>

(***************************************************************************)
(* MemberRepository.AssignRole and Delete.                                 *)
(***************************************************************************)
\* Mutant: the event is read without FOR UPDATE.
LockNothing(r) ==
    /\ pc[r] = "lock"
    /\ GoTo(r, "write")
    /\ UNCHANGED <<db, users, req, pend, shown>>

Lock(r) ==
    /\ pc[r] = "lock"
    /\ \A u \in Requests : ~HoldsEvent(u, req[r].event) /\ ~SharesEvent(u, req[r].event)
    /\ GoTo(r, "write")
    /\ UNCHANGED <<db, users, req, pend, shown>>

Present(r) == roster[req[r].id] # NoMember /\ roster[req[r].id].event = req[r].event

\* Mutant: an admin made admin again counts as a demotion.
KeepsAdminUnranked(r) ==
    \/ roster[req[r].id].role # "admin"
    \/ Admins(roster, req[r].event) \ {req[r].id} # {}

\* role <> 'admin' OR (the new role) = 'admin' OR EXISTS (another admin)
KeepsAdmin(r) ==
    \/ roster[req[r].id].role # "admin"
    \/ req[r].op = "assign" /\ req[r].role = "admin"
    \/ Admins(roster, req[r].event) \ {req[r].id} # {}

\* Mutant: no last-admin guard in the WHERE clause.
MatchesVersion(r) == Present(r) /\ roster[req[r].id].version = req[r].version

Matches(r) == Present(r) /\ roster[req[r].id].version = req[r].version /\ KeepsAdmin(r)

WriteRow(r) ==
    /\ pc[r] = "write"
    /\ Matches(r)
    /\ pend' = [pend EXCEPT ![r] =
         [id |-> req[r].id,
          new |-> IF req[r].op = "remove" THEN NoMember ELSE Ranked(roster[req[r].id], req[r].role)]]
    /\ GoTo(r, "commit")
    /\ UNCHANGED <<db, users, req, shown>>

\* Mutant: nobody looks at the number of rows the statement changed.
WriteMissUnseen(r) ==
    /\ pc[r] = "write"
    /\ ~Matches(r)
    /\ Answer(r, "ok")
    /\ UNCHANGED <<db, users, req, pend, shown>>

WriteMiss(r) ==
    /\ pc[r] = "write"
    /\ ~Matches(r)
    /\ GoTo(r, "diagnose")
    /\ UNCHANGED <<db, users, req, pend, shown>>

\* diagnoseAdminGuardedFailure, still in the transaction; the rollback that
\* follows releases the events row.
Diagnose(r) ==
    /\ pc[r] = "diagnose"
    /\ CASE ~Present(r) -> Answer(r, "not_found")
         [] Present(r) /\ roster[req[r].id].version # req[r].version -> GoTo(r, "current")
         [] OTHER -> Answer(r, "last_admin")
    /\ UNCHANGED <<db, users, req, pend, shown>>

\* GetMember for details.current, null when the member is gone by now.
ShowCurrent(r) ==
    /\ pc[r] = "current"
    /\ shown' = [shown EXCEPT ![r] = IF Present(r) THEN roster[req[r].id] ELSE NoMember]
    /\ Answer(r, "version_conflict")
    /\ UNCHANGED <<db, users, req, pend>>

(***************************************************************************)
(* The end of all four: the audit row and the commit.                      *)
(***************************************************************************)
ActionName(r) ==
    CASE req[r].op = "assign" -> "update" [] req[r].op = "remove" -> "delete" [] OTHER -> "create"

RoleIn(row) == IF row = NoMember THEN "none" ELSE row.role

\* Mutant: the audit row of a removal is forgotten.
ApplyUnaudited(r) ==
    LET i == pend[r].id IN
    /\ events' = IF req[r].op = "found" THEN events \cup {pend[r].new.event} ELSE events
    /\ roster' = [roster EXCEPT ![i] = pend[r].new]
    /\ audit' = IF req[r].op = "remove" THEN audit
                ELSE [audit EXCEPT ![i] =
                        Append(@, [by |-> r, action |-> ActionName(r),
                                   before |-> RoleIn(roster[i]), after |-> RoleIn(pend[r].new)])]
    /\ pend' = [pend EXCEPT ![r] = NoWrite]

Apply(r) ==
    LET i == pend[r].id IN
    /\ events' = IF req[r].op = "found" THEN events \cup {pend[r].new.event} ELSE events
    /\ roster' = [roster EXCEPT ![i] = pend[r].new]
    /\ audit' = [audit EXCEPT ![i] =
         Append(@, [by |-> r, action |-> ActionName(r),
                    before |-> RoleIn(roster[i]), after |-> RoleIn(pend[r].new)])]
    /\ pend' = [pend EXCEPT ![r] = NoWrite]

Success(op) ==
    CASE op = "assign" -> "ok" [] op = "remove" -> "no_content" [] OTHER -> "created"

Commit(r) ==
    /\ pc[r] = "commit"
    /\ Apply(r)
    /\ Answer(r, Success(req[r].op))
    /\ UNCHANGED <<users, req, shown>>

\* The client hangs up: the deferred Rollback runs, unless the COMMIT was
\* already on its way and is carried out all the same.
HangUp(r) ==
    /\ r \in Droppable /\ pc[r] # "done"
    /\ pend' = [pend EXCEPT ![r] = NoWrite]
    /\ Answer(r, "gone")
    /\ UNCHANGED <<db, users, req, shown>>

HangUpInCommit(r) ==
    /\ r \in Droppable /\ pc[r] = "commit"
    /\ Apply(r)
    /\ Answer(r, "gone")
    /\ UNCHANGED <<users, req, shown>>

\* GetOrCreateBySubject: a first authenticated request creates the users row.
SignIn(u) ==
    /\ u \notin users
    /\ users' = users \cup {u}
    /\ UNCHANGED <<db, req, pc, pend, reply, shown>>

Step(r) ==
    \/ Authorize(r)
    \/ Found(r)
    \/ Insert(r) \/ InsertNothing(r) \/ Reason(r)
    \/ RejectSeat(r) \/ TakeSeat(r) \/ ShareEvent(r)
    \/ Lock(r) \/ WriteRow(r) \/ WriteMiss(r) \/ Diagnose(r) \/ ShowCurrent(r)
    \/ Commit(r)

Done == \A r \in Requests : pc[r] = "done"

\* Every request has been answered; the server waits for more.
Idle == Done /\ UNCHANGED vars

Next ==
    \/ \E r \in Requests : Step(r) \/ HangUp(r) \/ HangUpInCommit(r)
    \/ \E u \in Users : SignIn(u)
    \/ Idle

\* Every goroutine keeps running; nobody need hang up or sign in.
Fairness == \A r \in Requests : WF_vars(Step(r))

Spec == Init /\ [][Next]_vars
FairSpec == Spec /\ Fairness

(***************************************************************************)
(* Properties.                                                             *)
(***************************************************************************)
Roll == INSTANCE Membership

Replies == {"none", "created", "ok", "no_content", "forbidden", "cannot_assign_role",
            "user_not_found", "already_member", "not_found", "version_conflict",
            "last_admin", "gone"}

AuditEntry == [by : Requests \cup {NoWrite}, action : {"create", "update", "delete"},
               before : Roles \cup {"none"}, after : Roles \cup {"none"}]

\* The type of every table and of every goroutine's state.
TypeOK ==
    /\ events \subseteq Events
    /\ roster \in [MemberIds -> Member \cup {NoMember}]
    /\ audit \in [MemberIds -> Seq(AuditEntry)]
    /\ users \subseteq Users
    /\ req \in [Requests -> Inputs]
    /\ pc \in [Requests -> {"authorize", "found", "insert", "reason", "seat", "event", "lock",
                            "write", "diagnose", "current", "commit", "done"}]
    /\ pend \in [Requests -> Write \cup {NoWrite}]
    /\ reply \in [Requests -> Replies]
    /\ shown \in [Requests -> Member \cup {NoMember}]

\* Last-admin protection: no interleaving of demotions, removals and adds
\* leaves an event without an admin.
AtLeastOneAdmin == Governed(events, roster)

\* Nobody sits twice on one event, although two adds, or an add and a
\* removal, of the same person may run at once.
OneSeatPerUser == OneSeatEach(roster)

Seats(table, e) == {<<i, table[i]>> : i \in {j \in MemberIds : table[j] # NoMember /\ table[j].event = e}}

\* "This is eventID's last admin", concluded from a version that matches, is
\* true: at the read that concludes it no other admin sits on the event, and
\* the write would have left none.
LastAdminAnswerTrue ==
    [][\A r \in Requests :
         reply[r] # "last_admin" /\ reply'[r] = "last_admin" =>
           /\ Admins(roster, req[r].event) = {req[r].id}
           /\ roster[req[r].id].version = req[r].version
           /\ req[r].op = "remove" \/ req[r].role # "admin"]_vars

\* While AssignRole or Delete holds the events row, from the guard's read to
\* the end of its transaction, nobody else changes that event's seats: not
\* even Create, which never asks for that lock.
FrozenWhileLocked ==
    [][\A r \in Requests, e \in Events :
         HoldsEvent(r, e) /\ pc'[r] # "done" => Seats(roster, e) = Seats(roster', e)]_vars

\* The audit rows of a membership are its whole history, without a gap or a
\* lost update, from its creation to the role it has now; a removed
\* membership's last row is its delete, and its id never comes back.
AuditTrail ==
    \A i \in MemberIds :
        /\ \A n \in 1 .. Len(audit[i]) :
             /\ audit[i][n].before = IF n = 1 THEN "none" ELSE audit[i][n - 1].after
             /\ audit[i][n].action = "create" <=> n = 1
             /\ audit[i][n].action = "delete" <=> audit[i][n].after = "none"
        /\ IF roster[i] = NoMember
           THEN audit[i] # << >> => audit[i][Len(audit[i])].action = "delete"
           ELSE Len(audit[i]) = roster[i].version /\ audit[i][Len(audit[i])].after = roster[i].role

WritesBy(r) == {w \in UNION {{i} \X (1 .. Len(audit[i])) : i \in MemberIds} : audit[w[1]][w[2]].by = r}

\* An answer tells the truth about the log: a success was written exactly
\* once, a rejection never; only a client that hung up cannot know.
AnswersTellTruth ==
    \A r \in Requests :
        Cardinality(WritesBy(r)) \in
            (CASE reply[r] = "gone" -> {0, 1}
               [] reply[r] \in {"created", "ok", "no_content"} -> {1}
               [] OTHER -> {0})

\* The requests, interleaved statement by statement, change the roster the
\* way Membership.tla does: one seat at a time, an admin always left.
ImplementsMembership == Roll!Spec

\* Every request is answered: the events row, the unique index and the
\* foreign key are never waited for in a circle.
EveryRequestAnswered == \A r \in Requests : <>(pc[r] = "done")
=============================================================================

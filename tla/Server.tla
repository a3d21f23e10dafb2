------------------------------- MODULE Server -------------------------------
(***************************************************************************)
(* The API process (cmd/api): boot, the chain of middleware a request goes *)
(* through (Auth, then Authz, then its handler), the connection pool all   *)
(* of them draw from, sign-in as an upsert into users, and graceful        *)
(* shutdown.                                                               *)
(*                                                                         *)
(* A request waits for a connection at the labels in Waiting and holds one *)
(* at the labels in Running; only a versioned write that changed no row    *)
(* holds one while it waits for another, in Diagnosing.  The handlers' own *)
(* work is reduced to what they do to the pool: one read, or one versioned *)
(* write of one row; reads that hold nothing meanwhile (the one a 409's    *)
(* details take afterwards, say) are left out.                             *)
(***************************************************************************)
EXTENDS Naturals

CONSTANTS Requests, Conns,      \* HTTP requests, connections of the pool
          Subjects, Emails,     \* identities of the OIDC issuer, e-mail claims
          Roles, Tables,        \* roles; contents of role_permissions boot may find
          Inputs,               \* what a request may ask for and with which token
          Registered, Members,  \* users and event_members at the start
          Droppable,            \* requests whose client or connection may go away
          MaxChanges,           \* bound on changes of membership by others
          None

Routes == {"health", "events", "read", "write"}
Tokens == {"missing", "invalid", "claimless", "valid"}

ASSUME ServerAssumption ==
    /\ MaxChanges \in Nat
    /\ None \notin Requests /\ None \notin Emails /\ None \notin Roles
    /\ Tables \subseteq SUBSET (Roles \X {"read", "write"})
    /\ Inputs \subseteq [route: Routes, token: Tokens, subject: Subjects,
                         email: Emails, version: Nat]
    /\ Registered \in [Subjects -> Emails \cup {None}]
    /\ Members \in [Subjects -> Roles \cup {None}]
    /\ \A s, t \in Subjects :
          Registered[s] = Registered[t] /\ Registered[s] # None => s = t

VARIABLES
    phase,        \* where Boot is, up to the exit of the process
    exit,         \* "none", or how Boot returned
    permissions,  \* Policy.permissions, loaded once
    owner,        \* connection -> the request that has acquired it, or None
    pc, req, reply,
    users,        \* users: subject -> e-mail of its row, or None
    role,         \* event_members of the one event, by subject
    version,      \* version column of the one row writes go to
    wrote,        \* history: requests whose write was committed
    stood,        \* history: the roles a request's caller held since it arrived
    changes       \* changes of membership made so far (bounded)

process == <<phase, exit, permissions>>
data == <<users, role, version, wrote>>
history == <<stood, changes>>
vars == <<process, owner, pc, req, reply, data, history>>

Waiting == {"ping", "signin", "lookup", "standing", "read", "write",
            "diagnose", "diagnoseLocked"}
Running == {"pinging", "probing", "passed", "entered", "beaten", "finding",
            "checking", "reading", "changing", "matched", "committing",
            "explaining", "explainingLocked"}
Diagnosing == {"diagnose", "diagnoseLocked"}
Labels == {"idle", "done"} \cup Waiting \cup Running
Replies == {"none", "ok", "unauthorized", "forbidden", "conflict", "internal",
            "unavailable", "gone", "cut"}
Booting == {"connect", "discover", "policy", "listen"}
Phases == Booting \cup {"serve", "drain", "close", "exited"}

Active(r) == pc[r] \notin {"idle", "done"}
Holds(r) == \E c \in Conns : owner[c] = r
Subject(r) == req[r].subject

\* Nobody will give a connection back: each is held by a request that waits for
\* one more, or for the row that such a request has locked.
Starved ==
    \A c \in Conns :
        /\ owner[c] \in Requests
        /\ \/ pc[owner[c]] \in Diagnosing
           \/ pc[owner[c]] = "matched" /\ \E q \in Requests : pc[q] = "diagnoseLocked"

Goto(r, label) == pc' = [pc EXCEPT ![r] = label]
Released(r) == [c \in Conns |-> IF owner[c] = r THEN None ELSE owner[c]]
Release(r) == owner' = Released(r)
Answer(r, what) == /\ reply' = [reply EXCEPT ![r] = what]
                   /\ Goto(r, "done")
                   /\ Release(r)

Init ==
    /\ phase = "connect" /\ exit = "none" /\ permissions = {}
    /\ owner = [c \in Conns |-> None]
    /\ pc = [r \in Requests |-> "idle"]
    /\ req \in [Requests -> Inputs]
    /\ reply = [r \in Requests |-> "none"]
    /\ users = Registered /\ role = Members
    /\ version = 1 /\ wrote = {}
    /\ stood = [r \in Requests |-> {}] /\ changes \in 0..MaxChanges

-----------------------------------------------------------------------------
(* Boot: the database answers a ping, the issuer its discovery, the policy    *)
(* covers every role, the port is free; whatever fails closes the pool.       *)

CoversEveryRole(table) == \A x \in Roles : \E p \in table : p[1] = x

Advance(from, to) == phase = from /\ phase' = to /\ UNCHANGED exit

NewPool == Advance("connect", "discover") /\ UNCHANGED permissions
NewVerifier == Advance("discover", "policy") /\ UNCHANGED permissions
NewPolicy == /\ Advance("policy", "listen")
               /\ \E table \in Tables :
                     CoversEveryRole(table) /\ permissions' = table
Listen == Advance("listen", "serve") /\ UNCHANGED permissions
BootFails == /\ phase \in Booting
               /\ phase' = "close" /\ exit' = "failed" /\ UNCHANGED permissions

Boot == /\ NewPool \/ NewVerifier \/ NewPolicy \/ Listen \/ BootFails
        /\ UNCHANGED <<owner, pc, req, reply, data, history>>

-----------------------------------------------------------------------------
(* The pool.  Acquire blocks, first come first served, until a connection is  *)
(* free; on a closed pool it fails, but only once it got that far.            *)

Statement ==
    [ping |-> "pinging", signin |-> "probing", lookup |-> "finding",
     standing |-> "checking", read |-> "reading", write |-> "changing",
     diagnose |-> "explaining", diagnoseLocked |-> "explainingLocked"]

Acquire(r) ==
    /\ pc[r] \in Waiting /\ phase \in {"serve", "drain"}
    /\ \E c \in Conns : owner[c] = None /\ owner' = [owner EXCEPT ![c] = r]
    /\ Goto(r, Statement[pc[r]])
    /\ UNCHANGED <<process, req, reply, data, history>>

\* What the caller of a failed statement answers: Auth turns every error into
\* 401, the health check into 503, Authz and the handlers into 500.
Failure(r) ==
    IF pc[r] \in {"ping", "pinging"} THEN "unavailable"
    ELSE IF pc[r] \in {"signin", "probing", "passed", "entered", "beaten",
                       "lookup", "finding"} THEN "unauthorized"
    ELSE "internal"

Refuse(r) ==
    /\ pc[r] \in Waiting /\ phase = "close"
    /\ \E c \in Conns : owner[c] = None
    /\ Answer(r, Failure(r))
    /\ UNCHANGED <<process, req, data, history>>

-----------------------------------------------------------------------------
(* A request: Auth (token, then the upsert of its subject), Authz, handler.   *)

\* Every route but /health is behind Auth, which verifies the token first.
Arrive(r) ==
    /\ phase = "serve" /\ pc[r] = "idle"
    /\ \/ /\ req[r].route = "health" \/ req[r].token = "valid"
          /\ Goto(r, IF req[r].route = "health" THEN "ping" ELSE "signin")
          /\ UNCHANGED <<owner, reply>>
       \/ /\ req[r].route # "health" /\ req[r].token # "valid"
          /\ Answer(r, "unauthorized")
    /\ stood' = [stood EXCEPT ![r] = {role[Subject(r)]}]
    /\ UNCHANGED <<process, req, data, changes>>

\* INSERT ... ON CONFLICT (subject) DO NOTHING, as PostgreSQL carries it out:
\* the arbiter index is probed, the row entered into the index on subject, then
\* into the one on email, which is no arbiter.
Entering(r) == \E q \in Requests \ {r} :
                  Subject(q) = Subject(r) /\ pc[q] \in {"entered", "beaten"}
EmailTaken(r) == \E s \in Subjects : users[s] = req[r].email

Probe(r) ==
    /\ pc[r] = "probing"
    /\ \/ users[Subject(r)] # None /\ Goto(r, "lookup") /\ Release(r)
       \/ /\ users[Subject(r)] = None /\ ~Entering(r)
          /\ Goto(r, "passed") /\ UNCHANGED owner
    /\ UNCHANGED <<process, req, reply, data, history>>

EnterSubject(r) ==
    /\ pc[r] = "passed"
    /\ Goto(r, IF users[Subject(r)] # None \/ Entering(r) THEN "beaten" ELSE "entered")
    /\ UNCHANGED <<process, owner, req, reply, data, history>>

\* Authz is mounted on every route that names an event.
SignedIn(r) == /\ Goto(r, IF req[r].route = "events" THEN "read" ELSE "standing")
               /\ Release(r)

AddUser(r) == users' = [users EXCEPT ![Subject(r)] = req[r].email]

EnterEmail(r) ==
    \/ /\ pc[r] \in {"entered", "beaten"} /\ EmailTaken(r)
       /\ Answer(r, "unauthorized")
       /\ UNCHANGED <<process, req, data, history>>
    \/ /\ pc[r] = "beaten" /\ ~EmailTaken(r)
       /\ Goto(r, "probing")
       /\ UNCHANGED <<process, owner, req, reply, data, history>>
    \/ /\ pc[r] = "entered" /\ ~EmailTaken(r)
       /\ AddUser(r) /\ SignedIn(r)
       /\ UNCHANGED <<process, req, reply, role, version, wrote, history>>

\* Mutant: ON CONFLICT (subject) DO UPDATE SET email = EXCLUDED.email.
SelectExistingRefreshed(r) ==
    /\ pc[r] = "finding" /\ SignedIn(r) /\ AddUser(r)
    /\ UNCHANGED <<process, req, reply, role, version, wrote, history>>

\* The second statement of the upsert, on a connection of its own.
SelectExisting(r) ==
    /\ pc[r] = "finding" /\ SignedIn(r)
    /\ UNCHANGED <<process, req, reply, data, history>>

\* Mutant: memberships are cached beside the permissions.
CanCached(r) == <<Members[Subject(r)], req[r].route>> \in permissions
Can(r) == <<role[Subject(r)], req[r].route>> \in permissions

\* Mutant: a denied request leaves its rows open.
AuthorizeOpen(r) ==
    /\ pc[r] = "checking"
    /\ \/ Can(r) /\ Goto(r, req[r].route) /\ Release(r) /\ UNCHANGED reply
       \/ /\ ~Can(r) /\ Goto(r, "done") /\ UNCHANGED owner
          /\ reply' = [reply EXCEPT ![r] = "forbidden"]
    /\ UNCHANGED <<process, req, data, history>>

Authorize(r) ==
    /\ pc[r] = "checking"
    /\ \/ Can(r) /\ Goto(r, req[r].route) /\ Release(r) /\ UNCHANGED reply
       \/ ~Can(r) /\ Answer(r, "forbidden")
    /\ UNCHANGED <<process, req, data, history>>

Read(r) ==
    /\ pc[r] = "reading" /\ Answer(r, "ok")
    /\ UNCHANGED <<process, req, data, history>>

\* UPDATE ... WHERE version = $n, as PostgreSQL carries it out: the row is looked
\* for in the statement's snapshot; if it is there, it is locked, after whoever has
\* it locked, and looked at again.  One that misses only now has it locked until
\* its transaction ends.
LocksRow(q) == pc[q] \in {"committing", "diagnoseLocked", "explainingLocked"}
Current(r) == req[r].version = version

Change(r) ==
    /\ pc[r] = "changing"
    /\ Goto(r, IF Current(r) THEN "matched" ELSE "diagnose")
    /\ UNCHANGED <<process, owner, req, reply, data, history>>

LockRow(r) ==
    /\ pc[r] = "matched" /\ \A q \in Requests : ~LocksRow(q)
    /\ Goto(r, IF Current(r) THEN "committing" ELSE "diagnoseLocked")
    /\ UNCHANGED <<process, owner, req, reply, data, history>>

Write(r) == version' = version + 1 /\ wrote' = wrote \cup {r}

Commit(r) ==
    /\ pc[r] = "committing" /\ Write(r) /\ Answer(r, "ok")
    /\ UNCHANGED <<process, req, users, role, history>>

\* The diagnostic read runs on the pool while the transaction is still open.
Explain(r) ==
    /\ pc[r] \in {"explaining", "explainingLocked"} /\ Answer(r, "conflict")
    /\ UNCHANGED <<process, req, data, history>>

Ping(r) ==
    /\ \/ pc[r] = "pinging" /\ Answer(r, "ok")
       \/ pc[r] \in {"ping", "pinging"} /\ Answer(r, "unavailable")   \* pingTimeout
    /\ UNCHANGED <<process, req, data, history>>

Handle(r) == \/ Acquire(r) \/ Refuse(r) \/ Probe(r)
             \/ EnterSubject(r) \/ EnterEmail(r) \/ SelectExisting(r)
             \/ Authorize(r) \/ Read(r) \/ Change(r) \/ LockRow(r)
             \/ Commit(r) \/ Explain(r) \/ Ping(r)

\* The client hangs up, or the connection breaks under a statement; one that was
\* being committed may have been carried out.
Interrupt(r) ==
    /\ r \in Droppable /\ Active(r)
    /\ \/ Answer(r, "gone")
       \/ Holds(r) /\ Answer(r, Failure(r))
    /\ \/ UNCHANGED data
       \/ /\ pc[r] = "committing" /\ Write(r) /\ UNCHANGED <<users, role>>
       \/ /\ pc[r] = "entered" /\ ~EmailTaken(r) /\ AddUser(r)
          /\ UNCHANGED <<role, version, wrote>>
    /\ UNCHANGED <<process, req, history>>

\* Another process, or an admin's request, changes a membership of the event.
ChangeMembership ==
    /\ changes < MaxChanges /\ changes' = changes + 1
    /\ \E s \in Subjects, x \in Roles \cup {None} :
          /\ users[s] # None /\ role[s] # x
          /\ role' = [role EXCEPT ![s] = x]
          /\ stood' = [r \in Requests |-> IF Active(r) /\ Subject(r) = s
                                          THEN stood[r] \cup {x} ELSE stood[r]]
    /\ UNCHANGED <<process, owner, pc, req, reply, users, version, wrote>>

-----------------------------------------------------------------------------
(* Run and the exit of Boot.                                                 *)

Leave(from, how) == /\ phase = from /\ phase' = "close" /\ exit' = how
                    /\ UNCHANGED <<permissions, owner, pc, req, reply, data, history>>

Signal == /\ Advance("serve", "drain")
          /\ UNCHANGED <<permissions, owner, pc, req, reply, data, history>>
ServeFails == Leave("serve", "failed")
\* Mutant: the listener is closed and nobody waited for.
DrainedAtOnce == Leave("drain", "ok")
Drained == (\A r \in Requests : ~Active(r)) /\ Leave("drain", "ok")
DrainTimeout == (\E r \in Requests : Active(r)) /\ Leave("drain", "failed")

\* Pool.Close returns once every connection is back; then the process is gone.
Exit ==
    /\ phase = "close" /\ (\A c \in Conns : owner[c] = None)
    /\ phase' = "exited"
    /\ reply' = [r \in Requests |-> IF Active(r) THEN "cut" ELSE reply[r]]
    /\ pc' = [r \in Requests |-> IF Active(r) THEN "done" ELSE pc[r]]
    /\ UNCHANGED <<exit, permissions, owner, req, data, history>>

Next == \/ Boot \/ Signal \/ ServeFails \/ Drained \/ DrainTimeout \/ Exit
        \/ ChangeMembership
        \/ \E r \in Requests : Arrive(r) \/ Handle(r) \/ Interrupt(r)

Spec == Init /\ [][Next]_vars

\* Goroutines and the database go on; the pool serves its waiters in turn;
\* timers fire.  Nothing makes a client hang up or a signal come.
Fairness == /\ \A r \in Requests : WF_vars(Handle(r))
            /\ WF_vars(Drained \/ DrainTimeout) /\ WF_vars(Exit)

FairSpec == Spec /\ Fairness

-----------------------------------------------------------------------------
\* Types of the process, its pool, its requests and the tables.
TypeOK ==
    /\ phase \in Phases /\ exit \in {"none", "ok", "failed"}
    /\ permissions \in SUBSET (Roles \X {"read", "write"})
    /\ owner \in [Conns -> Requests \cup {None}]
    /\ pc \in [Requests -> Labels] /\ req \in [Requests -> Inputs]
    /\ reply \in [Requests -> Replies]
    /\ users \in [Subjects -> Emails \cup {None}]
    /\ role \in [Subjects -> Roles \cup {None}]
    /\ version \in Nat /\ wrote \subseteq Requests
    /\ stood \in [Requests -> SUBSET (Roles \cup {None})] /\ changes \in Nat

\* A connection is only ever out with a request that is using it, or that waits
\* for its second one (session_repo.go:325): every path of a handler, errors,
\* rollbacks and hang-ups included, gives back what it acquired.
ConnectionsReturned ==
    \A c \in Conns : owner[c] # None => pc[owner[c]] \in Running \cup Diagnosing

\* policy.go:40: a removed member's very next request is denied.  Whatever a
\* request reads or writes on the event, its caller held, at some moment between
\* its arrival and its answer, a role that permits it; deciding once, in the
\* middleware, is never staler than the request itself.
NextRequestDenied ==
    \A r \in Requests :
        r \in wrote \/ (reply[r] = "ok" /\ req[r].route = "read") =>
            \E x \in stood[r] : <<x, req[r].route>> \in permissions

\* user_repo.go:26: however sign-ins overlap, fail or are repeated, two subjects
\* never share an e-mail address, so nobody is mistaken for somebody else.
OneSubjectPerEmail ==
    \A s, t \in Subjects : users[s] = users[t] /\ users[s] # None => s = t

\* user_repo.go:30: e-mail and name are set once, at creation, and no later
\* sign-in, with whatever claims, overwrites them; and however sign-ins overlap,
\* nobody is given a row with an address that is already somebody's.
IdentitySetOnce ==
    [][\A s \in Subjects : users'[s] # users[s] =>
          users[s] = None /\ \A t \in Subjects \ {s} : users'[t] # users'[s]]_users

\* server.go:36: a process that reports a clean exit has answered every request
\* it accepted, none was cut off when the process went.
GracefulExit ==
    phase = "exited" /\ exit = "ok" => \A r \in Requests : reply[r] # "cut"

\* Every accepted request is answered and a process told to stop stops, unless
\* every connection of the pool ends up with a request that waits for one more
\* (session_repo.go:325), or for the row lock one of those keeps until its deferred
\* Rollback (session_repo.go:309); no timeout of the server resolves that.
ServedUnlessStarved ==
    \/ <>[]Starved
    \/ /\ \A r \in Requests : Active(r) ~> pc[r] = "done"
       /\ phase \in {"drain", "close"} ~> phase = "exited"
=============================================================================

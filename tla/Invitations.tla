---------------------------- MODULE Invitations -----------------------------
(***************************************************************************)
(* POST .../invitations and POST .../invitations/bulk:                     *)
(* internal/adapter/postgres/invitation_repo.go (Create, BulkCreate,       *)
(* loadIdempotencyResult) and the answers of                               *)
(* internal/http/handler/invitation.go, while roles are taken away and     *)
(* requests are cut off and retried.                                       *)
(*                                                                         *)
(* A bulk request is a sequence of transactions, one per item, with a look *)
(* at idempotency_keys before the first and an insert into it after the    *)
(* last: nothing ties them together.                                       *)
(***************************************************************************)
EXTENDS Integers, Sequences, FiniteSets

CONSTANTS
    Events, Actors, Emails, Keys,
    Requests,   \* the requests in flight, retries included
    Droppable,  \* the requests that may be cut off before the answer
    Inputs,     \* what a validated request may ask for
    Standing,   \* the role of every actor on every event, "none" for no member
    NotStored   \* no idempotency_keys row

Roles == {"admin", "contributor", "attendee"}
Item == [email : Emails, role : Roles]

\* A single invitation has one item and no key; it carries one all the same.
Input == [op : {"invite", "bulk"}, actor : Actors, event : Events, key : Keys, items : Seq(Item)]

\* An invitations row, with the request and the item that asked for it.
Invitation == [event : Events, email : Emails, role : Roles, by : Requests, item : Nat \ {0}]

Statuses == {"created", "conflict", "forbidden"}

\* An idempotency_keys row; the hash of a body is as good as its items.
Stored == [hash : Seq(Item), results : Seq(Statuses)]

ASSUME InvitationsAssumption ==
    /\ Inputs \subseteq Input
    /\ \A q \in Inputs : q.items # << >> /\ (q.op = "invite" => Len(q.items) = 1)
    /\ Standing \in [Events -> [Actors -> Roles \cup {"none"}]]
    /\ NotStored \notin Stored

VARIABLES
    invitations,    \* invitations, committed
    keys,           \* idempotency_keys, committed: per actor and key
    standing,       \* event_members, committed
    req,            \* what each request asks for
    pc,             \* the statement each request runs next
    results,        \* the per-item results, its own or the stored ones
    reply           \* the answer written by the handler

vars == <<invitations, keys, standing, req, pc, results, reply>>

Init ==
    /\ invitations = {}
    /\ keys = [a \in Actors |-> [k \in Keys |-> NotStored]]
    /\ standing = Standing
    /\ req \in [Requests -> Inputs]
    /\ pc = [r \in Requests |-> "authorize"]
    /\ results = [r \in Requests |-> << >>]
    /\ reply = [r \in Requests |-> "none"]

Answer(r, code) ==
    /\ pc' = [pc EXCEPT ![r] = "done"]
    /\ reply' = [reply EXCEPT ![r] = code]

GoTo(r, label) ==
    /\ pc' = [pc EXCEPT ![r] = label]
    /\ UNCHANGED reply

RoleOf(r) == standing[req[r].event][req[r].actor]

\* role_permissions: who holds invitation:create.
Authorize(r) ==
    /\ pc[r] = "authorize"
    /\ IF RoleOf(r) \in {"admin", "contributor"}
       THEN GoTo(r, IF req[r].op = "bulk" THEN "load" ELSE "insert")
       ELSE Answer(r, "forbidden")
    /\ UNCHANGED <<invitations, keys, standing, req, results>>

(***************************************************************************)
(* The idempotency key.                                                    *)
(***************************************************************************)
Entry(r) == keys[req[r].actor][req[r].key]

\* Two bulk requests that are attempts under one key.
SameKey(r, u) ==
    /\ req[r].op = "bulk" /\ req[u].op = "bulk"
    /\ req[r].actor = req[u].actor /\ req[r].key = req[u].key

\* Mutant: the stored hash is not compared.
ReplayAnyBody(r) ==
    /\ Entry(r) # NotStored
    /\ results' = [results EXCEPT ![r] = Entry(r).results]
    /\ Answer(r, "multi_status")

\* A stored result is replayed if the body is the one it was computed for.
Replay(r) ==
    /\ Entry(r) # NotStored
    /\ IF Entry(r).hash = req[r].items
       THEN results' = [results EXCEPT ![r] = Entry(r).results] /\ Answer(r, "multi_status")
       ELSE Answer(r, "idempotency_key_conflict") /\ UNCHANGED results

\* Mutant: the key is reserved before the work and stays so after a crash.
LoadReserving(r) ==
    /\ pc[r] = "load"
    /\ \/ Replay(r)
       \/ /\ Entry(r) = NotStored
          /\ \A u \in Requests \ {r} : SameKey(r, u) => pc[u] \in {"authorize", "load"}
          /\ GoTo(r, "insert") /\ UNCHANGED results
    /\ UNCHANGED <<invitations, keys, standing, req>>

Load(r) ==
    /\ pc[r] = "load"
    /\ \/ Replay(r)
       \/ Entry(r) = NotStored /\ GoTo(r, "insert") /\ UNCHANGED results
    /\ UNCHANGED <<invitations, keys, standing, req>>

\* INSERT ... ON CONFLICT DO NOTHING
StoreIn(table, r) ==
    [table EXCEPT ![req[r].actor][req[r].key] =
        IF @ = NotStored THEN [hash |-> req[r].items, results |-> results[r]] ELSE @]

\* Mutant: the loser of the race answers with what it computed itself.
StoreUnread(r) ==
    /\ pc[r] = "store"
    /\ keys' = StoreIn(keys, r)
    /\ Answer(r, "multi_status")
    /\ UNCHANGED <<invitations, standing, req, results>>

Store(r) ==
    /\ pc[r] = "store"
    /\ keys' = StoreIn(keys, r)
    /\ IF Entry(r) = NotStored THEN Answer(r, "multi_status") ELSE GoTo(r, "reload")
    /\ UNCHANGED <<invitations, standing, req, results>>

\* The race for the key is lost: the winner's result is read back.  (The
\* code's "vanished" branch is dead: nothing ever deletes a key.)
Reload(r) ==
    /\ pc[r] = "reload"
    /\ Replay(r)
    /\ UNCHANGED <<invitations, keys, standing, req>>

(***************************************************************************)
(* Create: one transaction per item.                                       *)
(***************************************************************************)
Nth(r) == Len(results[r]) + 1
Current(r) == req[r].items[Nth(r)]

NewRow(r) == [event |-> req[r].event, email |-> Current(r).email, role |-> Current(r).role,
              by |-> r, item |-> Nth(r)]

\* UNIQUE (event_id, email)
SameSlot(a, b) == a.event = b.event /\ a.email = b.email

\* Mutant: an address may be invited once per role.
InvitedAs(r) == \E v \in invitations : SameSlot(v, NewRow(r)) /\ v.role = NewRow(r).role

\* UNIQUE (event_id, email)
Invited(r) == \E v \in invitations : SameSlot(v, NewRow(r))

\* Mutant: the guard asks for a membership only.
MayInviteAny(r) == RoleOf(r) # "none"

\* canGrantRoleGuard: a member may invite attendees, an admin anybody.
MayInvite(r) == RoleOf(r) # "none" /\ (Current(r).role = "attendee" \/ RoleOf(r) = "admin")

\* Mutant: a duplicate is taken for a success.
SingleReplyLenient(status) ==
    IF status \in {"created", "conflict"} THEN "created" ELSE "cannot_invite_at_role"

SingleReply(status) ==
    CASE status = "created" -> "created" [] status = "conflict" -> "already_invited"
      [] status = "forbidden" -> "cannot_invite_at_role"

\* The outcome of one item: on to the next, to the key, or to the answer.
ItemDone(r, status) ==
    /\ results' = [results EXCEPT ![r] = Append(@, status)]
    /\ IF Nth(r) < Len(req[r].items) THEN GoTo(r, "insert")
       ELSE IF req[r].op = "bulk" THEN GoTo(r, "store")
       ELSE Answer(r, SingleReply(status))

\* The statement's snapshot decides whether there is a row to insert ...
Insert(r) ==
    /\ pc[r] = "insert"
    /\ MayInvite(r)
    /\ GoTo(r, "unique")
    /\ UNCHANGED <<invitations, keys, standing, req, results>>

InsertNothing(r) ==
    /\ pc[r] = "insert"
    /\ ~MayInvite(r)
    /\ ItemDone(r, "forbidden")
    /\ UNCHANGED <<invitations, keys, standing, req>>

\* ... the unique index whether it may stay.  An uncommitted row for the
\* same address is waited for (PostgreSQL).
RejectDuplicate(r) ==
    /\ pc[r] = "unique"
    /\ Invited(r)
    /\ ItemDone(r, "conflict")
    /\ UNCHANGED <<invitations, keys, standing, req>>

TakeSlot(r) ==
    /\ pc[r] = "unique"
    /\ ~Invited(r)
    /\ \A u \in Requests : pc[u] = "commit" => ~SameSlot(NewRow(u), NewRow(r))
    /\ GoTo(r, "commit")
    /\ UNCHANGED <<invitations, keys, standing, req, results>>

Commit(r) ==
    /\ pc[r] = "commit"
    /\ invitations' = invitations \cup {NewRow(r)}
    /\ ItemDone(r, "created")
    /\ UNCHANGED <<keys, standing, req>>

(***************************************************************************)
(* What interrupts a request.                                              *)
(***************************************************************************)
\* The client hangs up, or the database is lost: the open transaction is
\* rolled back, what was committed before it stays, the key is not stored.
CutOff(r) ==
    /\ r \in Droppable /\ pc[r] # "done"
    /\ Answer(r, "gone")
    /\ UNCHANGED <<invitations, keys, standing, req, results>>

\* The same while a COMMIT is on its way and carried out all the same.
CutOffInCommit(r) ==
    /\ r \in Droppable /\ pc[r] \in {"commit", "store"}
    /\ IF pc[r] = "commit"
       THEN invitations' = invitations \cup {NewRow(r)} /\ UNCHANGED keys
       ELSE keys' = StoreIn(keys, r) /\ UNCHANGED invitations
    /\ Answer(r, "gone")
    /\ UNCHANGED <<standing, req, results>>

\* An admin demotes the actor or removes them from the event.
LoseRole(e, a) ==
    /\ standing[e][a] # "none"
    /\ standing' = [standing EXCEPT ![e][a] = IF @ = "admin" THEN "contributor" ELSE "none"]
    /\ UNCHANGED <<invitations, keys, req, pc, results, reply>>

Step(r) ==
    \/ Authorize(r) \/ Load(r)
    \/ Insert(r) \/ InsertNothing(r) \/ RejectDuplicate(r) \/ TakeSlot(r) \/ Commit(r)
    \/ Store(r) \/ Reload(r)

Done == \A r \in Requests : pc[r] = "done"

Next ==
    \/ \E r \in Requests : Step(r) \/ CutOff(r) \/ CutOffInCommit(r)
    \/ \E e \in Events, a \in Actors : LoseRole(e, a)
    \/ Done /\ UNCHANGED vars

\* Every goroutine keeps running; nobody need be cut off or demoted.
Spec == Init /\ [][Next]_vars
FairSpec == Spec /\ \A r \in Requests : WF_vars(Step(r))

(***************************************************************************)
(* Properties.                                                             *)
(***************************************************************************)
Replies == {"none", "created", "already_invited", "cannot_invite_at_role", "multi_status",
            "idempotency_key_conflict", "forbidden", "gone"}

\* The type of every table and of every goroutine's state.
TypeOK ==
    /\ invitations \subseteq Invitation
    /\ keys \in [Actors -> [Keys -> Stored \cup {NotStored}]]
    /\ standing \in [Events -> [Actors -> Roles \cup {"none"}]]
    /\ req \in [Requests -> Inputs]
    /\ pc \in [Requests -> {"authorize", "load", "insert", "unique", "commit", "store", "reload", "done"}]
    /\ results \in [Requests -> Seq(Statuses)]
    /\ reply \in [Requests -> Replies]

\* Never a double-send: one invitation per address and event, whoever asks,
\* in bulk or singly, first time or again.
InvitedOnce == \A v, w \in invitations : SameSlot(v, w) => v = w

\* Retries replay stored results: all the 207 answers one actor gets under
\* one key are the same, although each attempt may have done its own work.
StableResults ==
    \A r, u \in Requests :
        SameKey(r, u) /\ reply[r] = "multi_status" /\ reply[u] = "multi_status" =>
            results[r] = results[u] /\ req[r].items = req[u].items

\* What a 207 says of an item is so on the event of the attempt that computed
\* it: "created" was sent by that very attempt for this item, at the role asked
\* for; "conflict" has an invitation standing in its way.  The key is looked up
\* by actor and body, so that attempt may have been made on another event.
ItemsTrue ==
    \A r \in Requests : reply[r] = "multi_status" => \E u \in Requests :
        /\ SameKey(r, u) /\ req[u].items = req[r].items
        /\ Len(results[r]) = Len(req[r].items)
        /\ \A n \in 1 .. Len(req[r].items) :
            LET asked == req[r].items[n]
                sent == {v \in invitations : v.event = req[u].event /\ v.email = asked.email}
            IN /\ results[r][n] = "created" =>
                     \E v \in sent : v.role = asked.role /\ v.by = u /\ v.item = n
               /\ results[r][n] = "conflict" => sent # {}

\* Nobody who was never an admin of an event has invited anybody to it as
\* more than an attendee, however the roles change under a running batch.
NoEscalation ==
    \A v \in invitations : v.role # "attendee" => Standing[v.event][req[v.by].actor] = "admin"

\* A single invitation's answer and the table agree: 201 wrote it, any other
\* answer wrote nothing.
SingleAnswersTrue ==
    \A r \in Requests : req[r].op = "invite" =>
        LET mine == {v \in invitations : v.by = r}
        IN CASE reply[r] = "created" -> Cardinality(mine) = 1
             [] reply[r] = "gone" -> Cardinality(mine) \in {0, 1}
             [] OTHER -> mine = {}

\* Every request is answered: no two requests wait for each other, although
\* their batches name the same addresses in opposite orders.
EveryRequestAnswered == \A r \in Requests : <>(pc[r] = "done")

(***************************************************************************)
(* What the documentation says and the code does not do.                   *)
(***************************************************************************)
\* openapi.yaml: "the same key but a different body is rejected outright
\* (422 idempotency_key_conflict) -- never silently replayed, never silently
\* reprocessed".
RejectedOutright ==
    \A r \in Requests : reply[r] = "idempotency_key_conflict" => \A v \in invitations : v.by # r
=============================================================================

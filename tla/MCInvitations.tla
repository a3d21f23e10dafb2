--------------------------- MODULE MCInvitations ----------------------------
(***************************************************************************)
(* Small instances of Invitations: an admin and a contributor, batches of  *)
(* two addresses in both orders, retries under one key, on two events.     *)
(***************************************************************************)
EXTENDS Invitations

\* ann runs the conference and helps at the other event; bob helps at the first.
MCStanding ==
    [e \in Events |-> [a \in Actors |->
        IF a = "ann" THEN (IF e = "conf" THEN "admin" ELSE "contributor")
        ELSE IF e = "conf" THEN "contributor" ELSE "none"]]

As(email, role) == [email |-> email, role |-> role]

Bulk(actor, event, items) == [op |-> "bulk", actor |-> actor, event |-> event, key |-> "k", items |-> items]

Single(actor, item) == [op |-> "invite", actor |-> actor, event |-> "conf", key |-> "k", items |-> <<item>>]

Both == <<As("x", "contributor"), As("y", "attendee")>>
Swapped == <<As("y", "attendee"), As("x", "contributor")>>
Twice == <<As("x", "attendee"), As("x", "contributor")>>

\* Retries of one batch, other batches under the same key (one names an
\* address twice), the same batch by somebody else or on another event, and
\* single invitations to the same addresses.
InputList ==
    <<Bulk("ann", "conf", Both), Bulk("ann", "conf", Swapped), Bulk("ann", "conf", Twice),
      Bulk("ann", "expo", Both), Bulk("bob", "conf", Swapped),
      Single("ann", As("x", "attendee")), Single("bob", As("x", "contributor"))>>
AllInputs == {InputList[n] : n \in 1..Len(InputList)}
Number(input) == CHOOSE n \in 1..Len(InputList) : InputList[n] = input

\* A batch, whatever else meets it, and a single invitation; or three attempts
\* at one batch.  The requests nobody cuts off are interchangeable: one order of
\* them is enough.
MCInit ==
    /\ Init
    /\ Number(req[1]) <= Number(req[2])
    /\ \/ req[2].op = "invite" /\ \E r \in {1, 3} : req[r] = InputList[1]
       \/ \A r \in Requests : req[r] = InputList[1]

MCSpec == MCInit /\ [][Next]_vars /\ \A r \in Requests : WF_vars(Step(r))

TwoBodies == {Bulk("ann", "conf", <<As("x", "attendee")>>), Bulk("ann", "conf", <<As("y", "attendee")>>)}
=============================================================================

------------------------------ MODULE MCRoster ------------------------------
(***************************************************************************)
(* Small instances of Roster: an event with two admins, somebody who has   *)
(* never signed in, room for an event to be founded.                       *)
(***************************************************************************)
EXTENDS Roster

Admin(u) == [event |-> "conf", user |-> u, role |-> "admin", version |-> 1]

TwoAdmins ==
    [i \in MemberIds |-> CASE i = "m1" -> Admin("ann") [] i = "m2" -> Admin("bob")
                           [] OTHER -> NoMember]

Ask(op, actor, user, role, id, version) ==
    [op |-> op, actor |-> actor, event |-> "conf", user |-> user, role |-> role,
     id |-> id, version |-> version]

AddUser(actor, user, role) == Ask("add", actor, user, role, "m1", 1)
AssignTo(actor, id, version, role) == Ask("assign", actor, "ann", role, id, version)
RemoveOf(actor, id, version) == Ask("remove", actor, "ann", "admin", id, version)

\* Two admins who demote, promote, remove and replace each other, adds that
\* meet a removal, each other and a person who signs in for the first time;
\* an event is founded meanwhile.
InputList ==
    <<AssignTo("ann", "m1", 1, "attendee"), AssignTo("ann", "m2", 1, "attendee"),
      AssignTo("bob", "m1", 1, "attendee"), AssignTo("ann", "m2", 2, "admin"),
      AssignTo("ann", "m2", 1, "admin"), RemoveOf("ann", "m2", 2), RemoveOf("bob", "m1", 1),
      AddUser("ann", "bob", "admin"), AddUser("ann", "cy", "admin"),
      AddUser("bob", "cy", "attendee"), Ask("found", "bob", "bob", "admin", "m1", 1)>>
AllInputs == {InputList[n] : n \in 1..Len(InputList)}
Number(input) == CHOOSE n \in 1..Len(InputList) : InputList[n] = input

\* The two requests that nobody drops are interchangeable: one order of them is
\* enough.  There are keys for two new seats and there is one more event.
MCInit ==
    /\ Init
    /\ Number(req[1]) <= Number(req[3])
    /\ \E r \in Requests : req[r].op \in {"assign", "remove"}
    /\ \A q, r \in Requests : req[q].op = "found" /\ req[r].op = "found" => q = r

MCSpec == MCInit /\ [][Next]_vars /\ Fairness
=============================================================================

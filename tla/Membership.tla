----------------------------- MODULE Membership -----------------------------
(***************************************************************************)
(* What the member endpoints promise: seats change one at a time, each     *)
(* person has at most one per event, and an event that exists is never     *)
(* left without an admin.  Roster.tla is shown to implement it.            *)
(***************************************************************************)
EXTENDS MemberRows

VARIABLES events, roster

Init ==
    /\ events \subseteq Events
    /\ roster \in [MemberIds -> Member \cup {NoMember}]
    /\ OneSeatEach(roster) /\ Governed(events, roster)
    /\ \A i \in MemberIds : roster[i] # NoMember => roster[i].event \in events

\* Nobody else sits in row's seat.
Vacant(row) == \A j \in MemberIds : roster[j] # NoMember => ~SameSeat(roster[j], row)

\* A new event comes with its creator as its admin.
Found(i, row) ==
    /\ roster[i] = NoMember
    /\ row \in Member /\ row.role = "admin" /\ row.version = 1
    /\ row.event \notin events
    /\ events' = events \cup {row.event}
    /\ roster' = [roster EXCEPT ![i] = row]

Join(i, row) ==
    /\ roster[i] = NoMember
    /\ row \in Member /\ row.version = 1
    /\ row.event \in events /\ Vacant(row)
    /\ roster' = [roster EXCEPT ![i] = row]
    /\ UNCHANGED events

\* The event of seat i keeps an admin although i stops being one.
OtherAdmin(i) == Admins(roster, roster[i].event) \ {i} # {}

Rank(i, role) ==
    /\ roster[i] # NoMember
    /\ role \in Roles
    /\ roster[i].role # "admin" \/ role = "admin" \/ OtherAdmin(i)
    /\ roster' = [roster EXCEPT ![i] = Ranked(@, role)]
    /\ UNCHANGED events

Leave(i) ==
    /\ roster[i] # NoMember
    /\ roster[i].role # "admin" \/ OtherAdmin(i)
    /\ roster' = [roster EXCEPT ![i] = NoMember]
    /\ UNCHANGED events

Next ==
    \E i \in MemberIds :
        \/ Found(i, roster'[i])
        \/ Join(i, roster'[i])
        \/ \E role \in Roles : Rank(i, role)
        \/ Leave(i)

vars == <<events, roster>>

Spec == Init /\ [][Next]_vars
=============================================================================

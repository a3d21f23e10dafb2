----------------------------- MODULE MemberRows -----------------------------
(***************************************************************************)
(* The event_members table: who sits on an event, in which role.           *)
(***************************************************************************)
EXTENDS Integers

CONSTANTS
    MemberIds,  \* primary keys memberships may be given
    Events,     \* primary keys events may be given
    Users,      \* the people who may ever sign in
    NoMember    \* no row under this id

Roles == {"admin", "contributor", "attendee"}

\* An event_members row.
Member == [event : Events, user : Users, role : Roles, version : Nat \ {0}]

ASSUME NoMemberAssumption == NoMember \notin Member

\* A row with that role, one version later.
Ranked(row, role) == [[row EXCEPT !.role = role] EXCEPT !.version = @ + 1]

Admins(table, e) ==
    {i \in MemberIds : table[i] # NoMember /\ table[i].event = e /\ table[i].role = "admin"}

\* UNIQUE (event_id, user_id): two rows for one seat.
SameSeat(a, b) == a.event = b.event /\ a.user = b.user

OneSeatEach(table) ==
    \A i, j \in MemberIds :
        i # j /\ table[i] # NoMember /\ table[j] # NoMember => ~SameSeat(table[i], table[j])

Governed(existing, table) == \A e \in existing : Admins(table, e) # {}
=============================================================================

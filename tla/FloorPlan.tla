----------------------------- MODULE FloorPlan ------------------------------
(***************************************************************************)
(* What the event and room endpoints promise: a floor plan that changes    *)
(* one room at a time, atomically, with no name twice in one event, no     *)
(* room torn down while something refers to it, and nothing closed that    *)
(* opens again.  Venue.tla is shown to implement it.                       *)
(***************************************************************************)
EXTENDS Integers

CONSTANTS
    RoomIds,    \* primary keys rooms may be given
    Names,      \* what a room may be called
    Events,     \* the events table
    NoRoom      \* no room under this id

VARIABLES
    rooms,      \* each id to its event and name
    closed,     \* rooms that were torn down
    used,       \* rooms a session or a series refers to
    running     \* events that have not been deleted

plan == <<rooms, closed, used, running>>

NameFree(x, row) == \A y \in RoomIds \ {x} : rooms[y] # row

Init ==
    /\ rooms \in [RoomIds -> [event : Events, name : Names] \cup {NoRoom}]
    /\ \A x \in RoomIds : rooms[x] # NoRoom => NameFree(x, rooms[x])
    /\ closed = {}
    /\ used \subseteq {x \in RoomIds : rooms[x] # NoRoom}
    /\ running \subseteq Events

Furnish(x, row) ==
    /\ rooms[x] = NoRoom /\ x \notin closed
    /\ row \in [event : Events, name : Names] /\ NameFree(x, row)
    /\ rooms' = [rooms EXCEPT ![x] = row]
    /\ UNCHANGED <<closed, used, running>>

Rename(x, row) ==
    /\ rooms[x] # NoRoom
    /\ row \in [event : {rooms[x].event}, name : Names] /\ NameFree(x, row)
    /\ rooms' = [rooms EXCEPT ![x] = row]
    /\ UNCHANGED <<closed, used, running>>

TearDown(x) ==
    /\ rooms[x] # NoRoom /\ x \notin used
    /\ rooms' = [rooms EXCEPT ![x] = NoRoom]
    /\ closed' = closed \cup {x}
    /\ UNCHANGED <<used, running>>

Use(x) ==
    /\ rooms[x] # NoRoom
    /\ used' = used \cup {x}
    /\ UNCHANGED <<rooms, closed, running>>

CallOff(event) ==
    /\ event \in running
    /\ running' = running \ {event}
    /\ UNCHANGED <<rooms, closed, used>>

Next ==
    \/ \E x \in RoomIds : Furnish(x, rooms'[x]) \/ Rename(x, rooms'[x]) \/ TearDown(x) \/ Use(x)
    \/ \E event \in Events : CallOff(event)

Spec == Init /\ [][Next]_plan
=============================================================================

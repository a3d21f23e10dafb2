------------------------------ MODULE MCVenue -------------------------------
(***************************************************************************)
(* An instance of Venue.tla for TLC: the conference has a hall and a lab,  *)
(* the other event an annex a session already stands in.                   *)
(***************************************************************************)
EXTENDS Venue, TLC

A(event, name) == [event |-> event, name |-> name, version |-> 1]

MCFurnished ==
    [x \in RoomIds |-> CASE x = "hall" -> A("conf", "big")
                         [] x = "lab" -> A("conf", "small")
                         [] x = "annex" -> A("other", "big")
                         [] OTHER -> NoRoom]

MCInUse == {[table |-> "sessions", by |-> NoOne, event |-> "other", room |-> "annex"]}

Patching(room, version, name) ==
    [op |-> "room-update", event |-> "conf", room |-> room, version |-> version, name |-> name]
Deleting(event, room, version) == [op |-> "room-delete", event |-> event, room |-> room, version |-> version]
Creating(name) == [op |-> "room-create", event |-> "conf", name |-> name]
Meeting(op, room) == [op |-> op, event |-> "conf", room |-> room]
Editing(version) == [op |-> "event-update", event |-> "conf", version |-> version]
CallingOff(version) == [op |-> "event-delete", event |-> "conf", version |-> version]

\* Two rooms swap names, or want one that is being given up; sessions and
\* series go into rooms that are renamed, resized or deleted, and name rooms
\* of another event or none; the event is edited and deleted meanwhile.
MCInputs ==
    {Patching("hall", 1, "small"), Patching("lab", 1, "big"), Patching("hall", 1, Keep),
     Patching("hall", 2, "big"), Creating("small"),
     Deleting("conf", "hall", 1), Deleting("conf", "lab", 1), Deleting("other", "annex", 1),
     Meeting("session", "hall"),
     Meeting("series", "hall"), Meeting("series", "annex"), Meeting("series", "nowhere"),
     Editing(1), CallingOff(1), CallingOff(2)}
=============================================================================

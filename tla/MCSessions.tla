----------------------------- MODULE MCSessions -----------------------------
(***************************************************************************)
(* Instances of Sessions.tla for TLC: one room of the conference, a second *)
(* room, a room of another event; two speakers; instants 0..4 with ranges  *)
(* that overlap, coincide or only touch.                                   *)
(***************************************************************************)
EXTENDS Sessions

MCEventOf == [hall |-> "conf", lab |-> "conf", annex |-> "other"]
MCSpeakers == {"ann", "bob"}
MCRoomRefs == {"hall", "lab", "annex", "nowhere"}
MCSpeakerRefs == {"ann", "bob", "nobody"}

Span(a, b) == [from |-> a, to |-> b]

Base == [op |-> "create", event |-> "conf", room |-> "hall", speaker |-> "ann", range |-> Span(0, 2),
         id |-> "s1", version |-> 1, retime |-> FALSE, count |-> 1, step |-> 1]

Creating(room, speaker, range) == [Base EXCEPT !.room = room, !.speaker = speaker, !.range = range]
Moving(id, version, range) ==
    [Base EXCEPT !.op = "update", !.id = id, !.version = version, !.range = range, !.retime = TRUE]
Editing(id, version) == [Base EXCEPT !.op = "update", !.id = id, !.version = version]
Deleting(id, version) == [Base EXCEPT !.op = "delete", !.id = id, !.version = version]
Repeating(room, speaker, range, count, step) ==
    [Base EXCEPT !.op = "series", !.room = room, !.speaker = speaker, !.range = range,
                 !.count = count, !.step = step]

Booking(room, speaker, range, of) ==
    [room |-> room, speaker |-> speaker, range |-> range, version |-> 1, live |-> TRUE, series |-> of]

EmptyTable == [i \in Ids |-> NoRow]

(***************************************************************************)
(* s1 and s2 follow each other in one room; s2 belongs to a series.  They  *)
(* are edited, moved and cancelled while creates race for the lab, for the *)
(* speakers across events, and for what a move or a cancellation frees.    *)
(***************************************************************************)
TwoBooked ==
    [i \in Ids |-> CASE i = "s1" -> Booking("hall", "ann", Span(0, 2), NoSeries)
                     [] i = "s2" -> Booking("hall", "bob", Span(2, 4), 4)
                     [] OTHER -> NoRow]

InputList ==
    <<Moving("s1", 1, Span(2, 4)), Editing("s1", 1), Deleting("s2", 1), Moving("s2", 1, Span(0, 2)),
      Moving("s2", 2, Span(3, 4)), Deleting("s2", 2), [Deleting("s1", 1) EXCEPT !.event = "other"],
      Creating("hall", "bob", Span(1, 3)), Creating("lab", "bob", Span(2, 3)),
      Creating("lab", "ann", Span(1, 2)), Creating("lab", "nobody", Span(0, 2)),
      Creating("annex", "ann", Span(0, 2)), [Creating("annex", "bob", Span(1, 3)) EXCEPT !.event = "other"],
      Repeating("lab", "ann", Span(1, 2), 2, 1), Repeating("annex", "ann", Span(0, 1), 2, 1),
      Repeating("lab", "nobody", Span(0, 1), 2, 1)>>
AllInputs == {InputList[n] : n \in 1..Len(InputList)}
Number(input) == CHOOSE n \in 1..Len(InputList) : InputList[n] = input

\* Sessions a request may add to the table.
Needs(input) ==
    CASE input.op = "create" -> 1 [] input.op = "series" -> input.count [] OTHER -> 0

\* Requests that are turned away whatever the others do.
Hopeless(input) ==
    \/ input.op \in {"create", "series"} /\ (input.room = "annex" <=> input.event = "conf")
    \/ input.op \in {"create", "series"} /\ input.speaker = "nobody"
    \/ input.op = "delete" /\ input.event = "other"

\* Requests that nobody drops are interchangeable: one order of them is enough.
\* Two requests that have no chance do not meet each other.  There are keys for
\* three new sessions.
MCInit ==
    /\ Init
    /\ Number(req[1]) <= Number(req[2])
    /\ \A q, r \in Requests : Hopeless(req[q]) /\ Hopeless(req[r]) => q = r
    /\ Needs(req[1]) + Needs(req[2]) + Needs(req[3]) <= 3

MCSpec == MCInit /\ [][Next]_vars /\ Fairness

(***************************************************************************)
(* The single inputs of the disagreements with the documentation.          *)
(***************************************************************************)
SameSlot == {Creating("hall", "ann", Span(0, 2))}
MoveOntoTaken == {Moving("s1", 1, Span(2, 4))}
=============================================================================

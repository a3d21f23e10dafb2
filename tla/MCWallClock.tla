---------------------------- MODULE MCWallClock -----------------------------
(***************************************************************************)
(* Instances of WallClock.tla for TLC, in half hours.                      *)
(***************************************************************************)
EXTENDS WallClock

Make == "make"      \* creates what the others change and read
Move == "move"
Look == "look"

MCRequests == {Make, Move, Look}

\* New York and Berlin when the clocks go forward and back, at instant 40: local
\* 30 and 31, or 42 and 43, are then skipped or shown twice.
NewYorkSpring == [before |-> -10, after |-> -8, at |-> 40]
NewYorkFall   == [before |-> -8, after |-> -10, at |-> 40]
BerlinSpring  == [before |-> 2, after |-> 4, at |-> 40]
BerlinFall    == [before |-> 4, after |-> 2, at |-> 40]

MCZones == {NewYorkSpring, NewYorkFall, BerlinSpring, BerlinFall}

Body(op, timed, starts, ends, version, every, weekly, count) ==
    [op |-> op, timed |-> timed, starts |-> starts, ends |-> ends, id |-> <<Make, 1>>,
     version |-> version, every |-> every, weekly |-> weekly, count |-> count]

\* Before, at, across and after what is skipped or doubled; the wrong way round.
Around == {<<28, 30>>, <<29, 33>>, <<31, 32>>, <<31, 30>>, <<41, 42>>, <<41, 45>>, <<43, 44>>, <<43, 43>>}

Creates == {Body("create", TRUE, p[1], p[2], 1, 1, FALSE, 1) : p \in Around}

\* The change of the clocks lies between two occurrences, or within one.
SeriesOf(every, weekly, count) ==
    {Body("series", TRUE, s, s + 3, 1, every, weekly, count) : s \in {-19, 20}}

Patches == {Body("patch", TRUE, p[1], p[2], 1, 1, FALSE, 1) : p \in {<<29, 33>>, <<30, 32>>, <<42, 45>>}}
           \cup {Body("patch", FALSE, 0, 0, 1, 1, FALSE, 1)}

MCInputs == [r \in MCRequests |->
    CASE r = Make -> Creates \cup SeriesOf(1, FALSE, 2) \cup SeriesOf(1, TRUE, 2) \cup SeriesOf(2, FALSE, 2)
      [] r = Move -> Patches \cup {Body("delete", FALSE, 0, 0, 1, 1, FALSE, 1)}
      [] r = Look -> {Body("get", FALSE, 0, 0, 1, 1, FALSE, 1),
                      Body("patch", TRUE, 50, 52, 1, 1, FALSE, 1)}]
=============================================================================

----------------------------- MODULE LocalTime ------------------------------
(***************************************************************************)
(* Instants, the local times clocks show at them, and the way back:        *)
(* utils/localtime.go on top of Go's package time.  Instants, local times  *)
(* and offsets are integers in one unit; a zone is known around one change *)
(* of its clocks, which may leave a gap or an overlap, or be none.         *)
(***************************************************************************)
EXTENDS Integers

CONSTANTS
    Day,        \* 24 hours
    Half        \* 2^63 nanoseconds: a time.Duration holds -Half .. Half - 1

ASSUME LocalTimeAssumption == Day \in Nat \ {0} /\ Half \in Nat \ {0}

\* Clocks are z.before ahead of UTC up to z.at, and z.after from then on.
Zone == [before : Int, after : Int, at : Int]

Offset(z, t) == IF t < z.at THEN z.before ELSE z.after

\* time.In: what the clocks of z show at t.
In(z, t) == t + Offset(z, t)

SamePeriod(z, t, u) == (t < z.at) <=> (u < z.at)

\* Mutant: the first guess is not looked at again.
ParseOnce(z, local) == local - Offset(z, local)

\* time.ParseInLocation: the local time is taken for UTC to find an offset; if
\* the instant that follows has not that offset, its own is taken.
ParseInLocation(z, local) ==
    LET utc == local - Offset(z, local)
    IN IF SamePeriod(z, utc, local) THEN utc ELSE local - Offset(z, utc)

\* ResolveLocalTime returns an instant and no error: it shows as it was written.
Exists(z, local) == In(z, ParseInLocation(z, local)) = local

\* int64 arithmetic: beyond its range a result wraps.
Duration(d) == IF d \in -Half .. Half - 1 THEN d ELSE ((d + Half) % (2 * Half)) - Half

\* Mutant: every week is every day.
StepDaily(every, weekly) == Duration(every * Day)

Step(every, weekly) == Duration(every * Day * (IF weekly THEN 7 ELSE 1))

\* The n-th start of a series.
Occurrence(first, n, step) == first + Duration((n - 1) * step)

-----------------------------------------------------------------------------
\* The instants at which the clocks of z show a local time: none in a gap, two
\* in an overlap.
ShownAt(z, local) == {t \in {local - z.before, local - z.after} : In(z, t) = local}
=============================================================================

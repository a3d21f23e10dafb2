---------------------------- MODULE SessionRows ----------------------------
(***************************************************************************)
(* The sessions table: what a row holds and when two rows exclude each     *)
(* other.  Titles, descriptions and timestamps decide nothing and are left *)
(* out; a row keeps the columns the EXCLUDE constraints, the version gate  *)
(* and the recurrence history look at.                                     *)
(***************************************************************************)
EXTENDS Integers

CONSTANTS
    Ids,        \* primary keys sessions may be given
    EventOf,    \* the rooms table: each existing room to its event
    Speakers,   \* the users table
    SeriesIds,  \* primary keys session_series rows may be given
    NoSeries,   \* series_id IS NULL
    NoRow       \* no row under this id

Rooms == DOMAIN EventOf

\* tstzrange(starts_at, ends_at, '[)'): bounded and never empty.
TimeRange == {g \in [from : Int, to : Int] : g.from < g.to}

\* A sessions row; live is "deleted_at IS NULL".
Row == [room : Rooms, speaker : Speakers, range : TimeRange,
        version : Nat \ {0}, live : BOOLEAN, series : SeriesIds \cup {NoSeries}]

ASSUME NullsAssumption == NoRow \notin Row /\ NoSeries \notin SeriesIds

\* The && operator on half-open ranges: ranges that only touch do not overlap.
Overlap(g, h) == g.from < h.to /\ h.from < g.to

\* The columns the two EXCLUDE constraints compare with "=".
Index == {"room", "speaker"}

\* Two live rows one EXCLUDE constraint forbids to stand side by side.
Clash(k, a, b) == a.live /\ b.live /\ a[k] = b[k] /\ Overlap(a.range, b.range)

\* SET version = version + 1
Bump(row) == [row EXCEPT !.version = @ + 1]

\* A row Get finds: present, of the event in the path, not soft-deleted.
Visible(table, id, event) ==
    /\ table[id] # NoRow
    /\ table[id].live
    /\ EventOf[table[id].room] = event

\* No two sessions of the table hold one room, or one speaker, at one time.
ClashFree(table) ==
    \A i, j \in Ids : \A k \in Index :
        i # j /\ table[i] # NoRow /\ table[j] # NoRow => ~Clash(k, table[i], table[j])
=============================================================================

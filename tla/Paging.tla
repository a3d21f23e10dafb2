------------------------------- MODULE Paging -------------------------------
(***************************************************************************)
(* A reader pages through a list while the list changes: the List method   *)
(* of every repository in internal/adapter/postgres, the list handlers of  *)
(* internal/http/handler, and the cursor of internal/utils/cursor.go.  All *)
(* five lists work alike: rows in the order of (created_at, id), one row   *)
(* more than asked for to see whether there is a further page, and the     *)
(* next page after the last row of this one.                               *)
(*                                                                         *)
(* created_at is DEFAULT now(), which is when the inserting transaction    *)
(* began; the row is seen when it has committed.                           *)
(*                                                                         *)
(* The server keeps nothing of a traversal, so a page that is asked for    *)
(* again, or refused for its limit (422) or cursor (400), changes nothing. *)
(***************************************************************************)
EXTENDS Integers, FiniteSets

CONSTANTS
    Rows,       \* ids, numbers for the order uuid has
    Others,     \* events of somebody else's: in the reader's list while they have a seat
    Asked,      \* limit query parameters the reader sends
    Absent,     \* no limit query parameter
    DefaultLimit, MaxLimit,     \* defaultListLimit, maxListLimit
    MaxClock,   \* bound on the clock
    NoCursor    \* no cursor query parameter

ASSUME PagingAssumption ==
    /\ Rows \subseteq Int /\ IsFiniteSet(Rows) /\ Others \subseteq Rows
    /\ MaxLimit \in Nat /\ DefaultLimit \in 1 .. MaxLimit
    /\ Asked \subseteq Int \cup {Absent} /\ Absent \notin Int
    /\ MaxClock \in Nat
    /\ NoCursor \notin Nat \X Rows

VARIABLES
    clock,      \* the database server's
    status,     \* of each row: absent, open (its transaction is), listed, unlisted or gone
    created,    \* created_at
    cursor,     \* where the next page starts
    done,       \* there is no next page
    page,       \* the rows of the latest page
    seen,       \* those of all pages (history)
    again,      \* rows that were in two pages (history)
    owed        \* rows the reader may count on (history)

table == <<clock, status, created>>
traversal == <<cursor, done, page, seen, again>>
vars == <<clock, status, created, cursor, done, page, seen, again, owed>>

Key(x) == <<created[x], x>>

\* (created_at, id) < (created_at, id)
Precedes(k, l) == k[1] < l[1] \/ (k[1] = l[1] /\ k[2] < l[2])

Listed == {x \in Rows : status[x] = "listed"}

\* Mutant: a page starts at its cursor.
AheadInclusive(x) == cursor = NoCursor \/ ~Precedes(Key(x), cursor)

\* Mutant: created_at alone, so as not to miss its equals.
AheadInTime(x) == cursor = NoCursor \/ created[x] >= cursor[1]

\* WHERE ... (created_at, id) > cursor
Ahead(x) == cursor = NoCursor \/ Precedes(cursor, Key(x))

\* ORDER BY created_at, id LIMIT n: the one set that can be the answer.
Firsts(S, n) ==
    {F \in SUBSET S :
        /\ Cardinality(F) = (IF Cardinality(S) <= n THEN Cardinality(S) ELSE n)
        /\ \A x \in F, y \in S \ F : Precedes(Key(x), Key(y))}

Lasts(S) == {x \in S : \A y \in S : ~Precedes(Key(x), Key(y))}

Init ==
    /\ clock = 0
    /\ status \in [Rows -> {"absent", "listed", "unlisted"}]
    /\ \A x \in Rows : status[x] = "unlisted" => x \in Others
    /\ created = [x \in Rows |-> 0]
    /\ cursor = NoCursor /\ done = FALSE
    /\ page = {} /\ seen = {} /\ again = {}
    /\ owed = Listed

(***************************************************************************)
(* The list changes.                                                       *)
(***************************************************************************)
Tick ==
    /\ clock < MaxClock
    /\ clock' = clock + 1
    /\ UNCHANGED <<status, created, traversal, owed>>

\* A transaction begins that inserts row x.
Begin(x) ==
    /\ status[x] = "absent"
    /\ status' = [status EXCEPT ![x] = "open"]
    /\ created' = [created EXCEPT ![x] = clock]
    /\ UNCHANGED <<clock, traversal, owed>>

\* x comes into the list: the reader may count on it if it lies ahead.
Enter(x) ==
    /\ status' = [status EXCEPT ![x] = "listed"]
    /\ owed' = IF ~done /\ Ahead(x) THEN owed \cup {x} ELSE owed
    /\ UNCHANGED <<clock, created, traversal>>

Leave(x, how) ==
    /\ status' = [status EXCEPT ![x] = how]
    /\ owed' = owed \ {x}
    /\ UNCHANGED <<clock, created, traversal>>

Commit(x) ==
    /\ status[x] = "open"
    /\ IF x \in Others THEN Leave(x, "unlisted") ELSE Enter(x)

Rollback(x) == status[x] = "open" /\ Leave(x, "gone")

\* A DELETE, or a soft delete.
Delete(x) == status[x] \in {"listed", "unlisted"} /\ Leave(x, "gone")

\* The reader is given a seat in an event of somebody else's, or loses it.
Join(x) == x \in Others /\ status[x] = "unlisted" /\ Enter(x)
Quit(x) == x \in Others /\ status[x] = "listed" /\ Leave(x, "unlisted")

(***************************************************************************)
(* The reader.                                                             *)
(***************************************************************************)
\* A limit has to be positive and no greater than the maximum.
Accepted(raw) == raw # Absent => raw \in 1 .. MaxLimit

LimitOf(raw) == IF raw = Absent THEN DefaultLimit ELSE raw

Limits == {LimitOf(raw) : raw \in {r \in Asked : Accepted(r)}}

\* The rows of the answer.
Trimmed(fetched, limit) == Firsts(fetched, limit)

\* Mutant: the cursor is taken from the extra row.
CursorOfExtra(fetched, rows) == {Key(x) : x \in Lasts(fetched)}

\* next_cursor
CursorOf(fetched, rows) == {Key(x) : x \in Lasts(rows)}

\* One SELECT, which sees the rows committed before it.
Page(limit) ==
    /\ ~done
    /\ \E fetched \in Firsts({x \in Listed : Ahead(x)}, limit + 1) :
       \E rows \in Trimmed(fetched, limit) :
         /\ page' = rows
         /\ seen' = seen \cup rows
         /\ again' = again \cup (seen \cap rows)
         /\ IF Cardinality(fetched) > limit
            THEN cursor' \in CursorOf(fetched, rows) /\ UNCHANGED done
            ELSE done' = TRUE /\ UNCHANGED cursor
    /\ UNCHANGED <<table, owed>>

Change(x) == Begin(x) \/ Commit(x) \/ Rollback(x) \/ Delete(x) \/ Join(x) \/ Quit(x)

\* The traversal is over.
Idle == done /\ UNCHANGED vars

Next ==
    \/ Tick
    \/ \E x \in Rows : Change(x)
    \/ \E limit \in Limits : Page(limit)
    \/ Idle

\* The reader goes on asking; nobody else need do anything.
Fairness == WF_vars(\E limit \in Limits : Page(limit))

Spec == Init /\ [][Next]_vars
FairSpec == Spec /\ Fairness

(***************************************************************************)
(* Properties.                                                             *)
(***************************************************************************)
\* The type of the table and of the traversal; no page holds more rows than
\* the largest limit.
TypeOK ==
    /\ clock \in 0 .. MaxClock
    /\ status \in [Rows -> {"absent", "open", "listed", "unlisted", "gone"}]
    /\ created \in [Rows -> 0 .. MaxClock]
    /\ cursor \in (Nat \X Rows) \cup {NoCursor}
    /\ done \in BOOLEAN
    /\ page \subseteq Rows /\ Cardinality(page) <= MaxLimit
    /\ seen \subseteq Rows /\ again \subseteq Rows /\ owed \subseteq Rows

\* However the list changes between the pages, none of them repeats a row,
\* and every row of a page comes after all rows of the pages before it.
PagesAscend ==
    /\ again = {}
    /\ \A x \in page, y \in seen \ page : Precedes(Key(y), Key(x))

\* No skips: once there is no next page, every row that was listed when the
\* traversal began, or has been listed since ahead of the cursor, and was not
\* taken away, has been in a page.
OwedListed == done => owed \subseteq seen

\* The traversal ends, whatever limits the reader asks for.
TraversalEnds == <>done

\* docs/assignment.md: pagination "stays correct ... when rows are inserted
\* mid-traversal".  Taken to mean that a row which is in the list when the
\* last page is read has been in a page.
NothingMissed == [][(~done /\ done') => Listed \subseteq seen']_vars
=============================================================================

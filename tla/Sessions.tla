------------------------------ MODULE Sessions ------------------------------
(***************************************************************************)
(* The session endpoints over PostgreSQL at READ COMMITTED: the repository *)
(* of internal/adapter/postgres/session_repo.go (Create, Update, Delete,   *)
(* CreateSeries, versionedWrite) and the error mapping of                  *)
(* internal/http/handler/session.go, run by any number of requests at once.*)
(*                                                                         *)
(* A statement is one step unless it can block.  The two EXCLUDE           *)
(* constraints are the only blocking ones beside the row lock: a writer    *)
(* first puts its tuple in an index and only then looks for clashes, so it *)
(* may wait for another writer, and two writers may wait for each other    *)
(* until the deadlock detector fails one of them.                          *)
(***************************************************************************)
EXTENDS SessionRows, Sequences, FiniteSets

CONSTANTS
    Events,     \* the events table
    RoomRefs,   \* room ids a request may name, existing or not
    SpeakerRefs,\* user ids a request may name, existing or not
    Requests,   \* the requests in flight (each is served by its own goroutine)
    Droppable,  \* the requests whose client may hang up before the answer
    Inputs,     \* what a validated request may ask for
    Booked,     \* the sessions table when the requests arrive
    NoOne,      \* waiting for nobody
    NoWrite     \* no uncommitted tuple

\* One shape for the four operations; each reads the fields it is about.
Input == [op : {"create", "update", "delete", "series"}, event : Events,
          room : RoomRefs, speaker : SpeakerRefs, range : TimeRange, id : Ids,
          version : Nat \ {0}, retime : BOOLEAN, count : Nat \ {0}, step : Nat \ {0}]

\* What a transaction writes before the foreign keys have been checked.
Tuple == [room : Rooms, speaker : SpeakerRefs, range : TimeRange,
          version : Nat \ {0}, live : BOOLEAN, series : SeriesIds \cup {NoSeries}]

ASSUME RequestsAssumption ==
    /\ Rooms \subseteq RoomRefs /\ Speakers \subseteq SpeakerRefs
    /\ Requests \subseteq SeriesIds
    /\ NoOne \notin Requests
    /\ NoWrite \notin [id : Ids, row : Tuple]
    /\ Inputs \subseteq Input

ASSUME BookedAssumption ==
    /\ Booked \in [Ids -> Row \cup {NoRow}]
    /\ ClashFree(Booked)
    /\ \A i \in Ids : Booked[i] # NoRow =>
          Booked[i].version = 1 /\ Booked[i].live /\ Booked[i].series \notin Requests

VARIABLES
    rows,       \* sessions, committed
    audit,      \* audit_log, committed, per session in commit order
    exceptions, \* session_exceptions, committed, per session in commit order
    series,     \* session_series, committed
    req,        \* what each request asks for
    pc,         \* the statement each request runs next
    pend,       \* the tuple its open transaction has written
    waits,      \* whose transaction it waits for
    results,    \* CreateSeries' results so far
    reply,      \* the answer written by the handler
    shown       \* details.current of a version_conflict answer

db == <<rows, audit, exceptions, series>>
vars == <<rows, audit, exceptions, series, req, pc, pend, waits, results, reply, shown>>

(***************************************************************************)
(* Where a request starts, and the rows it writes.                         *)
(***************************************************************************)
FirstStatement(op) ==
    CASE op = "create" -> "insert" [] op = "series" -> "series" [] OTHER -> "write"

\* The i-th occurrence (from 0): starts and ends shifted by i * step.
Occurrence(q, i) == [from |-> q.range.from + i * q.step, to |-> q.range.to + i * q.step]

\* Mutant: the first occurrence is counted from 1.
NewRowFromOne(r) ==
    [room |-> req[r].room, speaker |-> req[r].speaker,
     range |-> IF req[r].op = "series" THEN Occurrence(req[r], Len(results[r]) + 1) ELSE req[r].range,
     version |-> 1, live |-> TRUE,
     series |-> IF req[r].op = "series" THEN r ELSE NoSeries]

NewRow(r) ==
    [room |-> req[r].room, speaker |-> req[r].speaker,
     range |-> IF req[r].op = "series" THEN Occurrence(req[r], Len(results[r])) ELSE req[r].range,
     version |-> 1, live |-> TRUE,
     series |-> IF req[r].op = "series" THEN r ELSE NoSeries]

\* Mutant: a soft delete leaves the version alone.
WrittenRowStale(r) ==
    LET old == rows[req[r].id] IN
    IF req[r].op = "delete" THEN [old EXCEPT !.live = FALSE]
    ELSE IF req[r].retime THEN [Bump(old) EXCEPT !.range = req[r].range]
    ELSE Bump(old)

\* SET version = version + 1 with the patch, or with deleted_at.
WrittenRow(r) ==
    LET bumped == Bump(rows[req[r].id]) IN
    IF req[r].op = "delete" THEN [bumped EXCEPT !.live = FALSE]
    ELSE IF req[r].retime THEN [bumped EXCEPT !.range = req[r].range]
    ELSE bumped

Init ==
    /\ rows = Booked
    /\ audit = [i \in Ids |-> IF Booked[i] = NoRow THEN << >>
                ELSE <<[actor |-> NoOne, action |-> "create", before |-> NoRow, after |-> Booked[i]]>>]
    /\ exceptions = [i \in Ids |-> << >>]
    /\ series = {Booked[i].series : i \in {j \in Ids : Booked[j] # NoRow}} \ {NoSeries}
    /\ req \in [Requests -> Inputs]
    /\ pc = [r \in Requests |-> FirstStatement(req[r].op)]
    /\ pend = [r \in Requests |-> NoWrite]
    /\ waits = [r \in Requests |-> NoOne]
    /\ results = [r \in Requests |-> << >>]
    /\ reply = [r \in Requests |-> "none"]
    /\ shown = [r \in Requests |-> NoRow]

(***************************************************************************)
(* Transactions.                                                           *)
(***************************************************************************)
\* Commit or rollback: the locks go, and whoever waited for them wakes up.
EndTx(r) ==
    /\ pend' = [pend EXCEPT ![r] = NoWrite]
    /\ waits' = [w \in Requests |-> IF w = r \/ waits[w] = r THEN NoOne ELSE waits[w]]

Answer(r, code) ==
    /\ pc' = [pc EXCEPT ![r] = "done"]
    /\ reply' = [reply EXCEPT ![r] = code]

\* What Create's outcome means to its caller: the answer of a plain create,
\* one occurrence's result inside CreateSeries, whose loop goes on after a
\* success or a conflict and gives up on anything else.
Conclude(r, code) ==
    LET partOfSeries == req[r].op = "series" /\ code \in {"created", "session_conflict"}
    IN
    /\ results' = IF partOfSeries THEN [results EXCEPT ![r] = Append(@, code)] ELSE results
    /\ IF partOfSeries /\ Len(results[r]) + 1 < req[r].count
       THEN pc' = [pc EXCEPT ![r] = "insert"] /\ UNCHANGED reply
       ELSE Answer(r, IF partOfSeries THEN "created" ELSE code)

\* What a failed write's error becomes.  Create maps 23P01 and the speaker's
\* 23503; versionedWrite maps nothing but a missing row.
WriteError(r, code) ==
    IF req[r].op \in {"create", "series"} THEN code ELSE "internal"

\* Mutant: an error path forgets to roll back.
FailOpen(r, code) ==
    /\ Conclude(r, WriteError(r, code))
    /\ UNCHANGED <<db, req, pend, waits, shown>>

Fail(r, code) ==
    /\ EndTx(r)
    /\ Conclude(r, WriteError(r, code))
    /\ UNCHANGED <<db, req, shown>>

(***************************************************************************)
(* The EXCLUDE constraints (PostgreSQL).                                   *)
(***************************************************************************)
Writing(u) == pend[u] # NoWrite

\* u's new tuple has been put in index k.
InIndex(u, k) ==
    Writing(u) /\ pc[u] \in (IF k = "room" THEN {"room", "speaker", "commit"} ELSE {"speaker", "commit"})

\* A committed row that nobody is changing clashes with r's tuple.
SettledClash(r, k) ==
    \E i \in Ids :
        /\ i # pend[r].id
        /\ rows[i] # NoRow
        /\ Clash(k, rows[i], pend[r].row)
        /\ \A u \in Requests : Writing(u) => pend[u].id # i

\* u's transaction has to end before it is known whether r's tuple clashes:
\* with the tuple u has put in the index, or with the row u is replacing.
OpenClash(r, k, u) ==
    /\ u # r
    /\ Writing(u)
    /\ \/ InIndex(u, k) /\ Clash(k, pend[u].row, pend[r].row)
       \/ rows[pend[u].id] # NoRow /\ Clash(k, rows[pend[u].id], pend[r].row)

\* 23P01: the slot is taken.
RejectClash(r, k) ==
    /\ pc[r] = k /\ waits[r] = NoOne
    /\ SettledClash(r, k)
    /\ Fail(r, "session_conflict")

AwaitClash(r, k, u) ==
    /\ pc[r] = k /\ waits[r] = NoOne
    /\ OpenClash(r, k, u)
    /\ waits' = [waits EXCEPT ![r] = u]
    /\ UNCHANGED <<db, req, pc, pend, results, reply, shown>>

Unopposed(r, k) ==
    /\ pc[r] = k /\ waits[r] = NoOne
    /\ ~SettledClash(r, k)
    /\ \A u \in Requests : ~OpenClash(r, k, u)

\* Mutant: no constraint keeps a room to one session at a time.
PassRoomUnchecked(r) ==
    /\ pc[r] = "room" /\ waits[r] = NoOne
    /\ pc' = [pc EXCEPT ![r] = "speaker"]
    /\ UNCHANGED <<db, req, pend, waits, results, reply, shown>>

\* The room index is done; the tuple goes into the speaker index.
PassRoom(r) ==
    /\ Unopposed(r, "room")
    /\ pc' = [pc EXCEPT ![r] = "speaker"]
    /\ UNCHANGED <<db, req, pend, waits, results, reply, shown>>

\* Foreign keys are checked at the end of the statement, after the indexes.
PassSpeaker(r) ==
    /\ Unopposed(r, "speaker")
    /\ pend[r].row.speaker \in Speakers
    /\ pc' = [pc EXCEPT ![r] = "commit"]
    /\ UNCHANGED <<db, req, pend, waits, results, reply, shown>>

RejectSpeaker(r) ==
    /\ Unopposed(r, "speaker")
    /\ pend[r].row.speaker \notin Speakers
    /\ Fail(r, "speaker_not_found")

\* A cycle of waiters through r: some set of requests is exactly the set
\* its members wait for.
InCycle(r) == \E S \in SUBSET Requests : r \in S /\ {waits[s] : s \in S} = S

\* 40P01: neither Create nor versionedWrite knows this code.
DeadlockDetected(r) ==
    /\ InCycle(r)
    /\ Fail(r, "internal")

(***************************************************************************)
(* Create and CreateSeries.                                                *)
(***************************************************************************)
\* The session_series row is a statement of its own, committed at once; its
\* foreign keys know rooms and users, not the event the room belongs to.
InsertSeries(r) ==
    /\ pc[r] = "series"
    /\ IF req[r].room \in Rooms /\ req[r].speaker \in Speakers
       THEN /\ series' = series \cup {r}
            /\ pc' = [pc EXCEPT ![r] = "insert"]
            /\ UNCHANGED reply
       ELSE Answer(r, "internal") /\ UNCHANGED series
    /\ UNCHANGED <<rows, audit, exceptions, req, pend, waits, results, shown>>

\* INSERT ... SELECT FROM rooms: no room of this event, no source row.
InsertNoRoom(r) ==
    /\ pc[r] = "insert"
    /\ ~(req[r].room \in Rooms /\ EventOf[req[r].room] = req[r].event)
    /\ Fail(r, "room_not_found")

\* Primary keys no committed or open transaction has used; which of them the
\* next row gets (uuidv7) makes no difference to anybody.
Unused == {i \in Ids : rows[i] = NoRow /\ \A u \in Requests : Writing(u) => pend[u].id # i}
NewKey == CHOOSE i \in Unused : TRUE

Insert(r) ==
    /\ pc[r] = "insert"
    /\ req[r].room \in Rooms /\ EventOf[req[r].room] = req[r].event
    /\ Unused # {}
    /\ pend' = [pend EXCEPT ![r] = [id |-> NewKey, row |-> NewRow(r)]]
    /\ pc' = [pc EXCEPT ![r] = "room"]
    /\ UNCHANGED <<db, req, waits, results, reply, shown>>

(***************************************************************************)
(* Update, Delete and versionedWrite.                                      *)
(***************************************************************************)
\* WHERE id = ? AND event_id = ? AND version = ? AND deleted_at IS NULL
Matches(r) ==
    /\ Visible(rows, req[r].id, req[r].event)
    /\ rows[req[r].id].version = req[r].version

Holds(u, i) == Writing(u) /\ pend[u].id = i

\* Mutant: nobody looks at the number of rows the statement changed.
WriteMissUnseen(r) ==
    /\ pc[r] = "write" /\ waits[r] = NoOne
    /\ ~Matches(r)
    /\ Answer(r, "ok")
    /\ UNCHANGED <<db, req, pend, waits, results, shown>>

WriteMiss(r) ==
    /\ pc[r] = "write" /\ waits[r] = NoOne
    /\ ~Matches(r)
    /\ pc' = [pc EXCEPT ![r] = "diagnose"]
    /\ UNCHANGED <<db, req, pend, waits, results, reply, shown>>

AwaitRow(r, u) ==
    /\ pc[r] = "write" /\ waits[r] = NoOne
    /\ Matches(r)
    /\ u # r /\ Holds(u, req[r].id)
    /\ waits' = [waits EXCEPT ![r] = u]
    /\ UNCHANGED <<db, req, pc, pend, results, reply, shown>>

\* A cancelled row leaves the partial indexes and an unmoved one may stay
\* where it is (a HOT update); any other new version is checked again.
Write(r) ==
    /\ pc[r] = "write" /\ waits[r] = NoOne
    /\ Matches(r)
    /\ \A u \in Requests : ~Holds(u, req[r].id)
    /\ pend' = [pend EXCEPT ![r] = [id |-> req[r].id, row |-> WrittenRow(r)]]
    /\ \/ /\ \/ req[r].op = "delete"
             \/ WrittenRow(r).range = rows[req[r].id].range
          /\ pc' = [pc EXCEPT ![r] = "commit"]
       \/ /\ req[r].op = "update"
          /\ pc' = [pc EXCEPT ![r] = "room"]
    /\ UNCHANGED <<db, req, waits, results, reply, shown>>

\* The read after the failed write, on another connection of the pool.
Diagnose(r) ==
    /\ pc[r] = "diagnose"
    /\ IF Visible(rows, req[r].id, req[r].event)
       THEN pc' = [pc EXCEPT ![r] = "current"] /\ UNCHANGED reply
       ELSE Answer(r, "not_found")
    /\ UNCHANGED <<db, req, pend, waits, results, shown>>

\* The handler fetches the current session for details.current, null when
\* it has been deleted meanwhile.
ShowCurrent(r) ==
    /\ pc[r] = "current"
    /\ shown' = [shown EXCEPT ![r] =
                    IF Visible(rows, req[r].id, req[r].event) THEN rows[req[r].id] ELSE NoRow]
    /\ Answer(r, "version_conflict")
    /\ UNCHANGED <<db, req, pend, waits, results>>

(***************************************************************************)
(* The end of both: audit row, exception row of an occurrence, commit.     *)
(***************************************************************************)
ActionName(r) == IF req[r].op = "series" THEN "create" ELSE req[r].op

\* Mutant: the audit row of a delete is forgotten.
ApplyUnaudited(r) ==
    LET i == pend[r].id IN
    /\ rows' = [rows EXCEPT ![i] = pend[r].row]
    /\ audit' = IF req[r].op = "delete" THEN audit
                ELSE [audit EXCEPT ![i] = Append(@, [actor |-> r, action |-> ActionName(r),
                                                    before |-> rows[i], after |-> pend[r].row])]
    /\ UNCHANGED <<exceptions, series>>

\* Mutant: cancelling an occurrence leaves no exception row.
ApplyEditsOnly(r) ==
    LET i == pend[r].id  old == rows[pend[r].id] IN
    /\ rows' = [rows EXCEPT ![i] = pend[r].row]
    /\ audit' = [audit EXCEPT ![i] = Append(@, [actor |-> r, action |-> ActionName(r),
                                               before |-> old, after |-> pend[r].row])]
    /\ exceptions' =
         IF req[r].op = "update" /\ old.series # NoSeries
         THEN [exceptions EXCEPT ![i] = Append(@, [status |-> "modified", original |-> old.range.from])]
         ELSE exceptions
    /\ UNCHANGED series

Apply(r) ==
    LET i == pend[r].id  old == rows[pend[r].id] IN
    /\ rows' = [rows EXCEPT ![i] = pend[r].row]
    /\ audit' = [audit EXCEPT ![i] = Append(@, [actor |-> r, action |-> ActionName(r),
                                               before |-> old, after |-> pend[r].row])]
    /\ exceptions' =
         IF ActionName(r) # "create" /\ old.series # NoSeries
         THEN [exceptions EXCEPT ![i] =
                 Append(@, [status |-> IF req[r].op = "delete" THEN "cancelled" ELSE "modified",
                            original |-> old.range.from])]
         ELSE exceptions
    /\ UNCHANGED series

Success(op) ==
    CASE op = "update" -> "ok" [] op = "delete" -> "no_content" [] OTHER -> "created"

Commit(r) ==
    /\ pc[r] = "commit"
    /\ Apply(r)
    /\ EndTx(r)
    /\ Conclude(r, Success(req[r].op))
    /\ UNCHANGED <<req, shown>>

(***************************************************************************)
(* The client hangs up (or its connection to the database is lost): the    *)
(* request's context is cancelled and the deferred Rollback runs.  If the  *)
(* COMMIT was on its way it may have been carried out all the same.        *)
(***************************************************************************)
HangUp(r) ==
    /\ r \in Droppable /\ pc[r] # "done"
    /\ EndTx(r)
    /\ Answer(r, "gone")
    /\ UNCHANGED <<db, req, results, shown>>

HangUpInCommit(r) ==
    /\ r \in Droppable /\ pc[r] = "commit"
    /\ Apply(r)
    /\ EndTx(r)
    /\ Answer(r, "gone")
    /\ UNCHANGED <<req, results, shown>>

Step(r) ==
    \/ InsertSeries(r) \/ InsertNoRoom(r) \/ Insert(r)
    \/ WriteMiss(r) \/ Write(r) \/ Diagnose(r) \/ ShowCurrent(r)
    \/ \E u \in Requests : AwaitRow(r, u)
    \/ \E k \in Index : RejectClash(r, k)
    \/ \E k \in Index, u \in Requests : AwaitClash(r, k, u)
    \/ PassRoom(r) \/ PassSpeaker(r) \/ RejectSpeaker(r)
    \/ DeadlockDetected(r)
    \/ Commit(r)

Done == \A r \in Requests : pc[r] = "done"

\* Every request has been answered; the server waits for more.
Idle == Done /\ UNCHANGED vars

Next ==
    \/ \E r \in Requests : Step(r) \/ HangUp(r) \/ HangUpInCommit(r)
    \/ Idle

\* Every goroutine keeps running and the deadlock detector does its work;
\* a client need never hang up.
Fairness == \A r \in Requests : WF_vars(Step(r))

Spec == Init /\ [][Next]_vars
FairSpec == Spec /\ Fairness

(***************************************************************************)
(* Properties.                                                             *)
(***************************************************************************)
Cal == INSTANCE Calendar

Replies == {"none", "created", "ok", "no_content", "session_conflict", "room_not_found",
            "speaker_not_found", "not_found", "version_conflict", "internal", "gone"}

AuditEntry == [actor : Requests \cup {NoOne}, action : {"create", "update", "delete"},
               before : Row \cup {NoRow}, after : Row]

\* The type of every table and of every goroutine's state.
TypeOK ==
    /\ rows \in [Ids -> Row \cup {NoRow}]
    /\ audit \in [Ids -> Seq(AuditEntry)]
    /\ exceptions \in [Ids -> Seq([status : {"modified", "cancelled"}, original : Int])]
    /\ series \subseteq SeriesIds
    /\ req \in [Requests -> Inputs]
    /\ pc \in [Requests -> {"series", "insert", "write", "diagnose", "current",
                            "room", "speaker", "commit", "done"}]
    /\ pend \in [Requests -> [id : Ids, row : Tuple] \cup {NoWrite}]
    /\ waits \in [Requests -> Requests \cup {NoOne}]
    /\ results \in [Requests -> Seq({"created", "session_conflict"})]
    /\ reply \in [Requests -> Replies]
    /\ shown \in [Requests -> Row \cup {NoRow}]

\* A room or a speaker can't be double-booked, however the requests
\* interleave, whichever of them fail and whoever hangs up.
NoDoubleBooking == ClashFree(rows)

\* No lost update: the audit rows of a session are its whole history.  The
\* n-th one produced version n out of what the one before it had left, the
\* last one produced the row as it stands, and nothing follows a delete.
AuditTrail ==
    \A i \in Ids :
        /\ rows[i] = NoRow <=> audit[i] = << >>
        /\ rows[i] # NoRow => Len(audit[i]) = rows[i].version /\ audit[i][Len(audit[i])].after = rows[i]
        /\ \A n \in 1 .. Len(audit[i]) :
             /\ audit[i][n].after.version = n
             /\ audit[i][n].before = IF n = 1 THEN NoRow ELSE audit[i][n - 1].after
             /\ audit[i][n].after.live <=> audit[i][n].action # "delete"

\* A series occurrence has one session_exceptions row for every PATCH and
\* DELETE it has seen, with the start it had before; other sessions none.
ExceptionsMatchAudit ==
    \A i \in Ids : rows[i] # NoRow =>
        IF rows[i].series = NoSeries THEN exceptions[i] = << >>
        ELSE /\ Len(exceptions[i]) = Len(audit[i]) - 1
             /\ \A n \in 1 .. Len(exceptions[i]) :
                  exceptions[i][n] =
                    [status |-> IF audit[i][n + 1].action = "delete" THEN "cancelled" ELSE "modified",
                     original |-> audit[i][n].after.range.from]

\* r's tuple has been through the check of index k.
Past(r, k) == Writing(r) /\ pc[r] \in (IF k = "room" THEN {"speaker", "commit"} ELSE {"commit"})

\* A slot once checked stays checked until its transaction ends, although
\* the check and the commit are separate statements: nobody commits, and
\* nobody else gets past the check with, a tuple that clashes with it.
SlotsSecured ==
    \A r \in Requests, k \in Index : Past(r, k) =>
        /\ \A i \in Ids \ {pend[r].id} : rows[i] # NoRow => ~Clash(k, rows[i], pend[r].row)
        /\ \A u \in Requests \ {r} : Past(u, k) => ~Clash(k, pend[u].row, pend[r].row)

\* An open transaction owns the row it writes: no other one writes it too,
\* and what it will replace is still what its WHERE clause matched.
WritersOwnRows ==
    \A r \in Requests :
        /\ Writing(r) <=> pc[r] \in {"room", "speaker", "commit"}
        /\ Writing(r) =>
             LET old == rows[pend[r].id]  new == pend[r].row IN
             /\ \A u \in Requests \ {r} : Writing(u) => pend[u].id # pend[r].id
             /\ IF req[r].op \in {"create", "series"}
                THEN old = NoRow /\ new.version = 1 /\ new.live
                ELSE /\ old # NoRow /\ old.live
                     /\ new.version = old.version + 1
                     /\ new.room = old.room /\ new.speaker = old.speaker /\ new.series = old.series
                     /\ req[r].version = old.version
                     /\ new.live <=> req[r].op # "delete"
             /\ new.live \/ (pc[r] = "commit" /\ new.range = old.range)
             /\ pc[r] = "commit" => new.speaker \in Speakers

WritesBy(r) == {w \in UNION {{i} \X (1 .. Len(audit[i])) : i \in Ids} : audit[w[1]][w[2]].actor = r}

Created(r) == {n \in 1 .. Len(results[r]) : results[r][n] = "created"}

\* An answer tells the truth about the log: a success was written exactly
\* once, a rejection or a 500 never, a series' result list names exactly the
\* occurrences that exist; only a client that hung up cannot know.
AnswersTellTruth ==
    \A r \in Requests :
        LET known == IF req[r].op = "series" THEN Cardinality(Created(r))
                     ELSE IF reply[r] \in {"created", "ok", "no_content"} THEN 1 ELSE 0
        IN Cardinality(WritesBy(r)) \in (IF reply[r] = "gone" THEN {known, known + 1} ELSE {known})

\* The occurrences reported as created, and those that were inserted.
Told(r) == {Occurrence(req[r], n - 1) : n \in Created(r)}
Made(r) == {audit[i][1].after.range : i \in {j \in Ids : rows[j] # NoRow /\ rows[j].series = r}}

\* A series is what its answer says: the sessions that came from it are, as
\* first written, exactly the occurrences reported as created, whichever of
\* the others were conflicts; a 201 lists every occurrence, and a session
\* names a series that exists.  A client that hung up may miss the last one.
SeriesAsAnswered ==
    \A r \in Requests : req[r].op = "series" =>
        /\ IF reply[r] = "gone"
           THEN Told(r) \subseteq Made(r) /\ Made(r) \subseteq Told(r) \cup {Occurrence(req[r], Len(results[r]))}
           ELSE Made(r) = Told(r)
        /\ reply[r] = "created" => Len(results[r]) = req[r].count
        /\ Made(r) # {} => r \in series

\* The requests, interleaved statement by statement, change the calendar the
\* way Calendar.tla does: one session at a time, into slots that are free.
ImplementsCalendar == Cal!Spec

\* Every request is answered: row locks, exclusion waits and deadlocks all
\* resolve.
EveryRequestAnswered == \A r \in Requests : <>(pc[r] = "done")

(***************************************************************************)
(* What the documentation says and the code does not do.                   *)
(***************************************************************************)
\* docs/requirements.md: two creates for one slot end as "one 201, one 409".
OneCreatedOneConflict ==
    Done => {reply[r] : r \in Requests} = {"created", "session_conflict"}

\* domain/errors.go: ErrConflict is "a session's EXCLUDE overlap (item 16).
\* Maps to 409": moving a session onto a taken slot is such an overlap.
MoveOntoTakenSlotIs409 ==
    \A r \in Requests : req[r].op = "update" => reply[r] # "internal"
=============================================================================

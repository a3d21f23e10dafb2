# A verification project for the event platform API

The program is a Go REST API (`cmd/api`, `internal/`) over PostgreSQL 18 at
`READ COMMITTED`, with a loader of test data (`cmd/seed`) and a demonstration
client driven by a language model (`cmd/agent`). The API keeps no state of its
own between requests but its connection pool and the permissions read at boot: every rule
that must hold *across* requests - no double booking, an admin always left, no
invitation sent twice - is left to single SQL statements, constraints, row
locks and a version column. That is what these TLA+ modules model: requests as
processes, statements as steps, the database's tables as state, and the parts
of PostgreSQL's concurrency control on which the code leans. TLC checks small
instances, TLAPS proves the central results for every instance.

## Inventory

| Component | State | Operations | Interacts with |
|---|---|---|---|
| Sessions (`session_repo.go`, `handler/session.go`) | `sessions`, `session_series`, `session_exceptions`, `audit_log` | Create, Get, List, Update, Delete (soft), CreateSeries | rooms and users by foreign key; the event for its time zone; itself through two EXCLUDE constraints |
| Members (`member_repo.go`, `roles.go`, `handler/member.go`) | `event_members`, `audit_log` | Create, Get, List, AssignRole, Delete | locks the `events` row; reads `users`; authorization reads its rows |
| Invitations (`invitation_repo.go`, `handler/invitation.go`) | `invitations`, `idempotency_keys`, `audit_log` | Create, BulkCreate | the inviter's `event_members` row |
| Events (`event_repo.go`, `handler/event.go`) | `events` | Create (with the founder's seat), Get, List, Update, Delete (soft) | founds a membership; its row is the lock of Members |
| Rooms (`room_repo.go`, `handler/room.go`) | `rooms` | Create, Get, List, Update, Delete (hard) | sessions refer to rooms; unique names per event |
| Users (`user_repo.go`) | `users` | GetOrCreateBySubject on every request | Members finds people by e-mail address |
| Authorization (`authz/policy.go`, `middleware/authz.go`) | `role_permissions`, read once at boot | Can: the live role against the matrix | before every handler of an event |
| Authentication (`middleware/auth.go`, `auth/verifier.go`) | none | verifies a token | Users |
| Router, server, container, health | the phase of the process, its open requests | boot, serve, health check, graceful shutdown, close | everything |
| Pagination (every `List`, `utils/cursor.go`) | none; the client carries the cursor | first page, page after a cursor | whatever inserts and deletes rows |
| Configuration, logging, connection pool (`utils/db.go`) | the pool | acquire, release | every repository |
| Local time, validation | the event's time zone | resolve a local time in a zone, render an instant in it | session handlers; admins change the zone |
| Agent (`cmd/agent`) | the conversation, the results of a turn | Run: ask the model, dispatch its tool calls, report | the API, with the caller's token; the model's API |
| Seed generator (`cmd/seed`) | the dataset; every table | truncate, generate, load, self-check | the database beside a running API; the issuer |

What is hard, component by component, and what makes it correct:

* **Sessions.** The overlap check is an index operation that *writes first and
  looks afterwards*, waits for other writers and may deadlock; commit comes
  several statements after the check; an update is gated on a version and its
  failure is explained by a later read; a series is a loop of independent
  transactions. Correct means: no overlap, no lost update, a truthful answer,
  a complete audit trail, exception rows that follow it, a series that is what
  its answer says.
* **Members.** The last-admin guard is a read of *other* rows, so it needs a
  lock; two write paths do not take it. Correct means: an admin is always
  left, one seat per person, `last_admin` only when it is so.
* **Invitations.** A batch is a sequence of transactions between a look-up of
  its idempotency key and the insert of it; nothing ties them together, and
  retries may overlap. Correct means: one invitation per address, equal
  answers to retries, answers that are true, no role above the inviter's.
* **Events and rooms.** Versioned updates as in Sessions; a hard delete
  against a foreign key from soft-deleted rows; an event soft-deleted under
  running requests.
* **Users.** Every request signs its caller in with an upsert that names one
  of two unique indexes. Correct means: no two people behind one address, an
  identity written once, a valid token accepted.
* **Authorization.** A decision made before the handler and used after it.
  Correct means: it is no staler than the request.
* **Pagination.** `(created_at, id)` cursors where `created_at` is the start
  of a transaction that commits later.
* **Connection pool.** Repositories that ask for a second connection while
  their transaction holds the first; errors, rollbacks and hang-ups on every
  path. Correct means: what was acquired is given back, and everybody is served
  unless the pool starves itself.
* **Server.** Boot may fail half-way; shutdown waits for requests for a limited
  time and then for the pool without limit. Correct means: a clean exit has cut
  nobody off.
* **Seed generator.** Thirteen-odd statements that commit one by one, against
  tables in which an earlier run was cut off and the API goes on. Correct
  means: a run that reports success left the whole dataset and nothing else;
  the dataset fits constraints it was not generated by.
* **Local time.** Clocks skip an hour and show another twice; the zone is read
  once, before a write in another transaction. Correct means: rejected is what
  no clock shows and nothing else, and what was asked for is what is read back.
* **Agent.** A loop that a model steers. Correct means: one true result per
  call, in its place, and an end.

`PROJECT.json` lists each of these at the line where it bites ("hazards"),
with the properties that would notice.

## How requests, statements and the database are modelled

A request is a member of `Requests`; `req[r]` is its validated input, `pc[r]`
the statement it runs next and `reply[r]` its answer (an error code of
`handler/*.go`, with `ok`, `no_content`, `multi_status` for 200, 204 and 207,
`internal` for the unmapped 500, and `gone` for a client that will not read
the answer). `req` is chosen once, in `Init`, from the inputs of the instance:
TLC tries every combination of requests that its MC module lets through. Each
request is served by a goroutine of its own, so any request may take the next
step.

* The tables hold **committed** rows. What an open transaction has written is
  in `pend[r]` until its `Commit` or rollback: nobody else sees it, though its
  locks and index entries count. (In `Venue` it is not stored but follows from
  the request and the row it has locked.)
* A statement that cannot block is one step. One that can is split where it
  blocks. A rollback (the deferred `tx.Rollback`) is part of the step that
  returns the error; the audit insert, the exception insert and the commit are
  one step, for nobody can observe the time between them, except by hanging
  up, which may happen before it.
* `HangUp` and `CutOff` cancel a request at any point; `HangUpInCommit` and
  `CutOffInCommit` do so while a COMMIT is on its way that is nevertheless
  carried out. A crash of the server is the same thing to all its requests.
* The `EXCLUDE` constraints: a writer's tuple enters the room index, is
  checked there, enters the speaker index, is checked there. A clash with a
  committed row fails the statement with 23P01 (`RejectClash`); a clash with a
  tuple, or with a row being replaced, of an open transaction makes the writer
  wait for its end (`AwaitClash`). Two writers can each find the other's
  tuple; `DeadlockDetected` then fails one in the circle with 40P01. Foreign
  keys are checked after the indexes, at the end of the statement.
* An `UPDATE` whose row is locked waits, and evaluates its WHERE clause again
  on what the other transaction left (`AwaitRow`, then `Write` or `WriteMiss`).
  One that matches nothing only now keeps the row locked until its rollback;
  `Server` models that lock, since there it decides whether anybody goes on. In
  `Sessions` and `Venue`, where connections are unlimited, its holder always
  comes to its rollback, the lock does no more than put others off, and is
  left out: their models have those orders of steps and more.
* A new row version that changes no indexed column may be a HOT update, which
  checks no index, or may not: `Write` allows both.
* A foreign key to `events` takes `FOR KEY SHARE`, which conflicts with
  `FOR UPDATE` (`ShareEvent` and `Lock`). The unique index of `event_members`
  and that of `invitations` wait for open transactions and then decide.
* In `Venue` a lock is held from the statement that takes it to the end of
  the transaction, so who holds what follows from `pc`; `Blockers(r)` are the
  transactions that have to end before `r`'s statement can go on. The foreign
  key of a session takes its room `FOR KEY SHARE`; a rename or a delete
  excludes that, a change of capacity does not.
* In `Paging` a row has `created_at` from the beginning of its transaction
  (`DEFAULT now()`) and is seen from its commit on. A page is one `SELECT` and
  so one step. Who writes the rows does not matter there; that is why the rows
  come and go freely.

* In `Server` a request waits for a connection at the labels in `Waiting` and
  holds one at those in `Running`; `owner` says who has which. Only a versioned
  write that changed no row holds one and waits for another. Its `UPDATE` is what
  PostgreSQL makes of it: the row is looked for in the statement's snapshot
  (`Change`); where it is found, the statement waits for whoever has it locked,
  locks it and evaluates its WHERE again (`LockRow`), and one that matches no more
  keeps the lock while it asks the pool for its diagnostic read
  (`diagnoseLocked`). `INSERT ... ON
  CONFLICT (subject)` is what PostgreSQL makes of it: a look into the arbiter
  index (`Probe`), the row entered into it (`EnterSubject`, which sends the
  loser back to look again), then into the index on e-mail, which arbitrates
  nothing (`EnterEmail`). `stood` records the roles a caller held since the
  request arrived: the measure of how stale a decision may be. The rows the
  handlers work on are one row with a version; what they do to them is the other
  modules' business.
* In `Seeding` a row is its id and the ids it refers to, and an id says which
  run made it, so that what is left of an earlier run can be told apart. The
  program is a sequence of statements, `Step` the one under way; a run may be
  cut off in and between any of them, in which case the statement may have been
  carried out. What the random source draws is drawn once, for all runs: the
  source is seeded. `Dataset` computes the sessions from it with a fold over
  the slots in the order the program fills them.
* In `Agent` a call is named by its place in the conversation; `decided` records
  what became of it at the API, apart from what the program makes of the answer.
* In `LocalTime` instants, local times and offsets are integers, and a zone is
  known around one change of its clocks: what Go's `lookup` returns for a moment
  is the period it lies in. A row of `WallClock` carries, as history, the request
  that gave it its times.

These PostgreSQL rules are marked `external` in the map; the rest of the
modules is the code of this repository. Titles, descriptions, capacities,
logging, JSON and timestamps (but for `Paging`) are left out: no property
speaks of them. Validation is in the shape of `Input` (for instance, a range is never
empty, a version is positive).

## Modules

| Module | Models | Correspondence |
|---|---|---|
| `SessionRows` | the sessions table and its constraints | `Row`, `Clash` are the columns and operators of the EXCLUDE constraints |
| `Calendar` | abstract specification: `Book`, `Revise`, `Cancel`, one session at a time into free slots | what the API promises |
| `Sessions` | `session_repo.go` and the error mapping of `handler/session.go` | `Insert`, `InsertNoRoom` (Create); `InsertSeries`, `Conclude` (CreateSeries); `Write`, `WriteMiss`, `Diagnose`, `Apply` (versionedWrite); `ShowCurrent` (`details.current`) |
| `MemberRows` | the event_members table | `SameSeat` is its unique constraint |
| `Membership` | abstract specification: `Found`, `Join`, `Rank`, `Leave` | what the API promises |
| `Roster` | `member_repo.go`, `roles.go`, `EventRepository.Create`, `Policy.Can` | `Insert`, `Reason` (Create), `Lock`, `WriteRow`, `WriteMiss`, `Diagnose` (AssignRole, Delete), `Found` (events), `Authorize` (middleware), `SignIn` (users) |
| `Invitations` | `invitation_repo.go` and the replies of `handler/invitation.go` | `Insert` ... `Commit` (Create, once per item), `Load`, `Store`, `Reload` (the key), `LoseRole` (Members, seen from here) |
| `FloorPlan` | abstract specification: `Furnish`, `Rename`, `TearDown`, `Use`, `CallOff` | what the API promises |
| `Venue` | `event_repo.go`, `room_repo.go`, `handler/event.go`, `handler/room.go`, and what `session_repo.go` does to rooms | `UpdateEvent`, `UpdateRoom`, `DeleteRoom`, `TakeName` (the writes and the unique name), `WriteMiss`, `Diagnose`, `ShowCurrent` (version_conflict), `LookUpEvent`, `InsertSeries`, `Insert`, `Refer` (a session's or a series' way to its room), `Commit` |
| `Paging` | the five `List` methods, their handlers' `limit` and the cursor | `Page` (List), `Accepted`, `LimitOf` (the handlers' limit); `Begin`, `Commit`, `Rollback`, `Delete`, `Join`, `Quit` (what happens to the list meanwhile) |
| `Server` | `cmd/api`, `bootstrap`, `container`, `http/server.go`, `http/router.go`, `middleware/*.go`, `authz/policy.go`, `user_repo.go`, `handler/health.go`, the pool | `NewPool`, `NewVerifier`, `NewPolicy`, `Listen`, `BootFails` (Boot); `Acquire`, `Refuse` (the pool); `Arrive` (Auth), `Probe` ... `SelectExisting` (GetOrCreateBySubject), `Authorize` (Authz, Can), `Read`, `Change`, `LockRow`, `Commit`, `Explain` (any handler), `Ping` (health); `Signal`, `Drained`, `DrainTimeout`, `Exit` (Run, Close) |
| `Dataset` | `cmd/seed/generate.go` | `Rosters` (addStandardMembers), `Slots`, `Cursor`, `Place` (addGenericSessions, addDSTFixtureEvent), `PickSpeaker`, `Overlaps` (speakerSchedule), `Invitations`; `NoSpeakerOrRoomOverlap` is the guard of the tests |
| `Seeding` | `cmd/seed/load.go`, `cmd/seed/main.go`, and what the API does to the tables meanwhile | `Execute` (one statement of Truncate or Load), `Generate`, `Check` (selfCheckDemoIdentities), `Interrupt`; `SignIn`, `Invite`, `Found`, `Schedule`, `Edit` (the API) |
| `Agent` | `cmd/agent` | `Respond`, `ModelFails` (CreateMessage), `Dispatch`, `Decide`, `Deliver`, `ApiFails` (a tool call), `Report` (the end of a turn), `Move` (the caller's memberships) |
| `LocalTime` | `utils/localtime.go` on Go's package `time`, the steps of a series | `ParseInLocation` (`time.Date`), `Exists` (the round trip of ResolveLocalTime), `Duration` (int64), `Step`, `Occurrence` (CreateSeries); `ShownAt` is the reference: the instants that show a local time |
| `WallClock` | the way of a session's times: `handler/session.go`, `request/session.go`, `response/session.go` | `LookUp` (eventTimezone, Validate), `Insert`, `Conflict` (Create, and CreateSeries' loop), `Write`, `Miss`, `Diagnose`, `ShowCurrent` (Update, Delete), `Read` (Get), `View` (NewSessionResponse), `SetZone` (PATCH of the event) |
| `MCSessions`, `MCRoster`, `MCInvitations`, `MCVenue`, `MCPaging`, `MCServer`, `MCClients`, `MCWallClock` | instances for TLC | inputs, initial tables, one order of interchangeable requests |
| `SessionsProofs`, `RosterProofs`, `InvitationsProofs`, `VenueProofs`, `ClientsProofs` (Paging and Agent), `ServerProofs`, `WallClockProofs`, `SeedingProofs` | theorems and proofs | below |

Operators commented "Mutant:" are plausible mistakes in the operator that
follows them. No specification uses them; replacing the original by its
mutant makes TLC find the property violated that `PROJECT.json` names, which
shows that the property is about the code.

## Runs

Each takes at most about two minutes. Three requests are in flight at once;
one of them may hang up, or lose its connection, at any moment, which is what
lets the same run check liveness: a request that nobody drops has to be
answered.

| Run | Instance | Distinct states | Shows |
|---|---|---|---|
| `sessions` | 16 inputs: creates, series, moves, edits and cancellations over 3 rooms of 2 events and 2 speakers, instants 0..4, two booked sessions, one of a series; rooms of another event, unknown speakers | 173 thousand | `NoDoubleBooking`, `AuditTrail`, `AnswersTellTruth`, `ExceptionsMatchAudit`, `SeriesAsAnswered`, `EveryRequestAnswered`, and Sessions implements Calendar |
| `roster` | 11 inputs: two admins demote, promote, remove and replace each other, a newcomer signs in at some point, an event is founded | 317 thousand | `AtLeastOneAdmin`, `FrozenWhileLocked`, `LastAdminAnswerTrue`, `AuditTrail`, `AnswersTellTruth`, `EveryRequestAnswered`, and Roster implements Membership |
| `invitations` | 7 inputs: one batch retried, permuted, with a repeated address, by another actor, on another event, and single invitations; roles are lost at any time | 511 thousand | `InvitedOnce`, `StableResults`, `ItemsTrue`, `NoEscalation`, `SingleAnswersTrue`, `EveryRequestAnswered` |
| `venue` | 15 inputs; a hall and a lab of one event, an annex of the other in which a session stands; names that are swapped, given up and wanted | 207 thousand | `ReferencesHold`, `AuditTrail`, `AnswersTellTruth`, `EveryRequestAnswered`, and Venue implements FloorPlan |
| `server` | 2 connections; 8 scenarios of three requests each: three writes of one version, two of one version and one of the next (which finds its row locked by the loser of the two), roles that are gained and lost under a reader and two writers, overlapping first sign-ins of one person and of two with one address, a sign-in with changed claims, health checks, bad tokens; 2 contents of `role_permissions`, one of which fails boot | 166 thousand | `NextRequestDenied`, `IdentitySetOnce`, `GracefulExit`, `ServedUnlessStarved` |
| `clients` | the seed program: 4 users, 3 events, 7 sessions in chunks of 3; every combination of short and long sessions by itself, and for one of them 2 runs with an act of the API, and one run with 2 acts. The agent: 3 turns, 6 kinds of response, one change of membership. The reader of a list: 4 rows, one of somebody else's event; limits absent, 0..3 with a default of 1 and a maximum of 2; clock 0..2. The three share nothing and run apart (`MCInit`) | 405 thousand | `SeedIsWhole`, `FailureExplained`, `DatasetFits`, `EveryCallAnswered`, `Concludes`, `PagesAscend`, `OwedListed`, `TraversalEnds` |
| `wallclock` | New York and Berlin, forward and back, in half hours; 8 creates at, beside and across what is skipped or doubled, series by days and weeks over the change, patches, a cancellation, a read; one change of the event's zone | 2.3 million | `RejectedIffUnreal`, `ReadBack`, `OnTheirDays` |

Three requests are enough for each conflict between two writers to be seen by
a third that depends on both: one that holds, one that waits, one that arrives
between; also for a circle of three, and for a second write of a row that the
first has changed. Five instants give ranges that are equal, overlap, contain
one another and only touch. Sets of ids are large enough for the writes that
may need one, so no request stalls for want of a key; new keys are taken in a
fixed order (`NewKey`), as any choice among unused ones is like any other. Two
items per batch are the least with a state between items, two events the least
with a key used on another one. Four rows and pages of one or two are the least
in which a middle page has rows before and after it; three instants let rows
share one, precede and follow. Two connections are the least of which both can
be held by somebody who waits for a third; three requests then leave one
outside. Two of one version and one of the next are the least that starve in
both ways: both connections at the diagnostic read, or one there and the other
with a writer of the row that the first has locked. Four zones have the change of the clocks in both directions on both
sides of Greenwich; two occurrences, one before and one after it, show what a
series does. Seven sessions in chunks of three leave a last chunk that is not full.

Requests that nobody drops are interchangeable, so `MCSessions`, `MCRoster` and
`MCInvitations` keep one order of their inputs (`Number`) instead of declaring
a symmetry, under which TLC could not check liveness; `MCVenue` and `MCPaging`
need neither. `MCInit` of each module also leaves out combinations that do not
meet each other, and says which. The bounds are constants of the instances;
those that appear in guards are `MaxClock` (Paging), `MaxChanges` (Server:
changes of membership), `MaxRuns` and `MaxActs` (Seeding), `MaxMoves` (Agent),
`MaxZoneChanges` (WallClock; `MaxOccurrences` there is the program's 52).
`MaxAgentTurns` is the program's own. `server` and `clients` allow deadlock: a
process that has exited, or a pool that has starved, really stops.

Five further runs state a sentence of the documentation and find it violated:

| Run | The documentation | What the code does |
|---|---|---|
| `race_deadlock` | two creates for one slot: "one 201, one 409" (`docs/requirements.md:223`) | both tuples may be in the index before either check; the deadlock victim's 40P01 is not mapped and answered 500. The same happens to an occurrence of a series, where it ends the whole request |
| `move_conflict` | an EXCLUDE overlap "maps to 409" (`internal/domain/errors.go:10`) | versionedWrite maps no 23P01: a move onto a taken slot is answered 500 |
| `late_commit` | pagination "stays correct ... when rows are inserted mid-traversal" (`docs/assignment.md:61`), "no skips or duplicates" (`FEATURES.md:39`) | `created_at` is the start of the inserting transaction: a row that commits after a page that passed its place is not listed by this traversal. `OwedListed` says what does hold |
| `two_bodies` | a second body under a key is "rejected outright ... never silently reprocessed" (`openapi/openapi.yaml:971`) | two bodies at once are both processed; the loser is answered 422 afterwards |
| `earlier_of_two` | an ambiguous time resolves "to the earlier of the two possible offsets" (`internal/utils/localtime.go:30`, `openapi/openapi.yaml:1480`, `docs/requirements.md:252`) | so it does in New York, which the test is about; where clocks are ahead of UTC, as in Berlin, `time.Date` returns the later instant |

Further disagreements which the modules reproduce, without a run of their own:

* "The subject unique constraint is what makes concurrent first-sign-ins from
  the same identity safe" (`internal/domain/user/port.go:6`), with "no race
  window" (`internal/adapter/postgres/user_repo.go:29`); but the same identity
  also meets itself in the unique index on e-mail, which `ON CONFLICT (subject)`
  does not cover: in `Server` the second of two overlapping first requests may
  be answered 401 (`EnterEmail`).
* "This is not a check-then-act: the timezone isn't a race-sensitive field"
  (`internal/http/handler/session.go:23`): in `WallClock` a PATCH of the event's
  zone (`event_repo.go:207`) between `LookUp` and `Insert` or `Write` leaves a
  session at times resolved in a zone the event has left.
* Later occurrences are "offset by IntervalCount * (1 day or 7 days ...)"
  (`internal/domain/session/entity.go:60`), but the step is int64 nanoseconds
  (`session_repo.go:392`) and `interval_count` has no upper limit: beyond 106751
  days it wraps (`Duration` in `LocalTime`).
* `original_starts_at` is "the occurrence's starts_at as materialized"
  (`migrations/20260824200000_recurring_sessions.up.sql:53`); it is the start
  before this write, so after two moves that of the first move.
* A sign-in between the insert and the diagnostic read makes an admin's add
  look forbidden (`Reason`), while `ErrForbidden` is for a role the actor
  cannot grant (`internal/domain/member/port.go:39`).
* A room in which a session ever stood, be it cancelled, or that a series
  names, is `room_in_use` for good; `openapi/openapi.yaml:546` advises to
  remove or reassign the sessions first.
* A series for an unknown speaker is answered 500 (`InsertSeries`), where
  `openapi/openapi.yaml:727` has 404.
* Any request that finds its version stale holds a connection while it asks for
  another (`session_repo.go:325`, `event_repo.go:272`, `room_repo.go:220`). If it
  found out only after waiting for the row, it also keeps that row locked until
  its deferred `Rollback` (`session_repo.go:309`), and whoever wants the row then
  waits for it with a connection in hand. Once these two kinds of requests hold
  every connection, nobody goes on: `Starved` in `ServedUnlessStarved`. One
  request at its diagnostic read and writers of its row behind it are enough,
  and `StarvedForGood` proves that from there only a client that goes away
  helps. Outside the model a role change may be such a waiter too: it locks the
  `events` row (`member_repo.go:260`) that an `UPDATE` of the event may hold. No timeout of `http.Server` cancels a handler, and
  `Pool.Close` waits too, so such a process does not even stop. Nothing in the
  documentation speaks of it.
* An idempotency key used with the same body on another event replays the first
  event's result. The key is the actor's (`openapi/openapi.yaml`), and no
  document says what a second event should see; `ItemsTrue` says of which event
  the items are true.
* A re-seed is to be clean (`cmd/seed/load.go:14`), but `Truncate` knows neither
  `session_series` nor `session_exceptions`: once the API has made a series its
  `DELETE FROM sessions` or `DELETE FROM rooms` fails, with half the tables
  cleared. `FailureExplained` names that as the one exception. "Audit history
  from any other actor is left untouched" (`load.go:33`), but every actor is a
  user and every user's entries go.
* A tool call that failed is "reported to the model exactly once"
  (`cmd/agent/agent.go:67`); those of the last turn are never sent, nor those of
  a turn in which a later call names an unknown tool. `EveryCallAnswered` speaks
  of the moments at which the model is asked.
* Two rooms that swap names deadlock, and a room that is deleted between a
  session's look at it and its foreign key fails it: 500 in both cases.

## Fairness

`FairSpec` adds weak fairness of each request's own steps: the Go scheduler
runs every goroutine, PostgreSQL wakes a waiter when the transaction it waits
for ends, and its deadlock detector runs after `deadlock_timeout`. Nothing is
assumed of clients: hanging up, losing a role, signing in are never fair.
Weak fairness is enough, since a request that waits is enabled as soon as its
blocker ends and stays enabled unless a new blocker appears, and there are
finitely many requests. No fairness is assumed among the requests that wait
for one lock. In `Paging` only the reader is fair, who goes on asking for the
next page; that the traversal ends is then due to the cursor and to the
finite number of rows that are ever inserted, and not to a list at rest.

In `Server` each request's handler is weakly fair, which for one that waits for
a connection means that the pool serves its waiters in turn and not for ever
the others (`puddle` keeps a queue); the drain ends, by itself or by its timer,
and so does the exit once `Pool.Close` returns. Nothing makes a signal come, boot
succeed or a client go. In `Agent` only the program's own steps are fair:
neither the model nor the API has to answer, for no call has a timeout, and
`Concludes` leaves it waiting for them if they do not.
`WallClock` states safety only, and assumes no fairness.

## Proofs

The proofs hold for every set of requests, rooms, people, events, inputs and
initial tables that satisfy the assumptions in `SessionRows`, `Sessions`,
`MemberRows`, `Roster`, `Invitations`, `Venue`, `Paging`, `Server`, `Agent`,
`LocalTime`, `WallClock`, `Dataset` and `Seeding`: null values are not rows,
inputs have the validated shape, the tables are consistent when the requests
arrive, ids made by the requests (of a series, of a run) are not in use before.
Of the seed program's literals (`Dataset`) they ask what is so in
`generate.go` and `demo.go`: every event has rooms of different names, those
laid over a change of the clocks have two rooms and two sessions, the first of
which starts before the second, no two events share a name, and the first
users are the demo identities. Of the random source nothing is assumed but the
ranges it draws from. TLC evaluates these assumptions in the runs.

* `SessionsProofs`. `NoDoubleBooking` speaks of committed rows and is not
  inductive: the commit installs a tuple that was checked earlier. The
  invariant adds `SlotsSecured` (a tuple past the check of an index clashes
  neither with a committed row nor with another tuple past it),
  `WritersOwnRows` (what a transaction is about to replace is still what it
  matched, and nobody else writes it) and `OnTrack` (a request runs its own
  operation's statements). `InsertStep`, `WriteStep`, `PassStep`,
  `CommitStep` and `LeaveTx` show that each kind of step keeps it.
  `CommitIsCalendarStep` maps commits to `Book`, `Revise` and `Cancel`; every
  other step leaves the calendar as it is: `SessionsImplementCalendar`.
  What the log and the answers say is a second invariant, `Ledger`, kept beside
  the first. `Standing(r)` relates a request under way to what it has written so
  far: one that has not answered has written nothing, a series as many rows as
  its list of results says, and the tuple of a series is the occurrence it has
  come to. A commit is then one entry at the end of one row's history
  (`RecordedInExceptions`, `WritesInLog`, `CommitLedger`), and every other
  statement touches only its own request's standing (`StatementLedger`,
  `FailLedger`). From it follow `AuditIsComplete`, `ExceptionsAreComplete`,
  `AnswersAreTrue` and `SeriesAreAsAnswered`.
* `RosterProofs`. The guard that keeps an admin was evaluated statements
  before the commit. `EventExclusive` (one holder of an events row, nobody
  sharing it meanwhile) makes `Committable` stable: what a transaction has
  written may still be committed as it is. `SeatsSecured` does the same for
  seats. The action properties `FrozenWhileLocked` and `LastAdminAnswerTrue`
  follow from the same invariant, with `MissStands` (a statement that matched
  nothing under the lock would still match nothing when the reason is read).
  `Ledger` is the history: a request writes once, in its last statement, and the
  id under which it will record a new membership has no entries yet, which is
  what makes a removed membership's id never come back (`AuditIsComplete`,
  `AnswersAreTrue`).
* `InvitationsProofs`. `SlotsHeld` for the unique index, `Keyed` (a 207 is
  what is stored under its key: keys are never overwritten), `RolesFall` and
  `Granted` for escalation. What the answers say needs a second invariant,
  `Ledger`, kept beside the first: the results an attempt has so far are true of
  the table (`Honest`), those stored under a key were computed by an attempt
  under it with that body (`StoredTrue`), and a single invitation's answer fits
  its row (`SingleTrue`). It is stable because invitations are only ever added
  (`StaysTrue`); `PageLedger` says that a step of one request keeps it if it
  keeps that request's own page.
* `VenueProofs`. `Secured(r, p)` is what a request has to have secured to
  stand at statement `p`: its row is as it matched and locked by nobody else
  (`RowHeld`), the name it has put in the index is no other room's and no
  other open transaction's (`NameHeld`), the room it refers to is there and
  not being deleted (`RoomHeld`), the room it deletes is not referred to,
  committed or not (`Unused`). `AdvanceStep` is the case of all statements
  that leave the tables alone; `UseStep`, `EventStep` and `RoomStep` that of
  those that change them. `History` adds to `AuditTrail` that a log which ends
  with a delete is that of a row nobody can match; with it the audit log is
  proved to be an unbroken history (`AuditIsComplete`). `Truthful` says of each
  request what its answer claims; it lasts because nothing that is gone returns
  (`NothingReturns`) and a room in use cannot be deleted (`AnswersAreTrue`).
* `ClientsProofs`, on `Paging`. The invariant splits the rows at the cursor: what has been
  seen lies at or behind it, what is owed and not yet seen lies ahead
  (`Divided`), and rows keep their keys (`KeysGiven`). `FirstsAll` is the lemma
  about `LIMIT`: an answer shorter than the limit is all there is. `Order`
  collects the laws of the row comparison `(created_at, id)`.
* `ServerProofs`. `NextRequestDenied` is about what a request has read or
  written, its permission was looked up statements earlier: `Permitted` carries
  the decision along the labels behind Authz, with the role that justified it in
  `stood`, and `OnRoute` says which labels a route comes to at all. `Leaving`
  does the same for `GracefulExit`, whose process was drained before it went.
  `AloneInIndex` (of the sign-ins of one subject at most one is past the index
  on subject) is what makes `IdentitySetOnce` hold of a row that is written
  steps after the look that found none, and `EnterEmail`'s look at the column
  why no address is given twice. `StarvedForGood` is an action property: of the
  requests that hold the connections none has a step but to be interrupted, for
  no connection is free to `Acquire` and the row stays locked by one that waits
  for a connection. One lemma per part of the invariant,
  one case per action.
* `ClientsProofs`, on `Agent`. The conversation alternates (`TurnsTaken`), everything before
  its last message is answered (`Past`), and of the calls of the last one the
  first `Len(results)` are (`SoFar`). `NoteKeeps` is why a later call never
  changes what was told of an earlier one: their places differ. `ResultTold` is
  the one step by which anything is told at all.
* `WallClockProofs`. First the operators, for every offset and every place of the
  change: `RealTimesResolve` (the round trip of ResolveLocalTime against
  `ShownAt`), `OrderKept` (local times that exist are in the order of their
  instants, so no range is turned round), `EarlierInTheWest` (when the documented
  convention holds). Then the requests: a row holds what its last writer meant
  (`RowMeant`), which is fixed once that request has read its zone
  (`MeantStays`), and so does what is shown of it (`ViewMeant`); a change of the
  event's zone disturbs neither. `OccurrencesOnTheirDays` assumes `NoWrap`,
  since beyond it the step wraps around: 52 occurrences at every 293 weeks at most.
* `SeedingProofs`. What the program generates is computed by functions that
  run along its slots and events, so `DatasetAlwaysFits` needs an induction on
  how far they have come, for slots of any number and any draws. An induction
  theorem that takes a predicate cannot be used, but the principle of the least
  number can be stated without one: a set of natural numbers that is not empty
  has a least element, and the set is here that of the places at which the
  claim fails. `Fits` is the claim: of the sessions placed so far, in one
  room each starts after the end of those before it, and no two of one speaker
  overlap. `Generated` carries it to what a run has
  placed.
  `SeedInv` is for the tables: their rows refer to what they should
  (`WellFormed`), no reference dangles (`Closed`), and a run that has come to
  step `p` has cleared and loaded what the steps before it say, with nothing
  else there but what the API did (`Reached`). It is kept across an
  interruption, for `Closed` and `WellFormed` do not care who left the rows
  (`SuccessIsWhole`). `RefusalsAreExplained` then follows step by step: whatever a
  `DELETE` would leave dangling has been deleted before it, since every row of a
  table that refers to it has been, and whatever a `COPY` refers to is loaded.

`TypeOK`, `SlotsSecured`, `WritersOwnRows`, `OneSeatPerUser`, `UniqueNames` (of
rooms in an event), `ConnectionsReturned` (to the pool) and `OneSubjectPerEmail`
are parts of the inductive invariants or follow from them, and are proved as
theorems; no run repeats them.

Every safety property that a run checks is stated by a theorem, but for the
five sentences of the documentation that do not hold. Only model-checked is
liveness (`EveryRequestAnswered`, `ServedUnlessStarved`, `TraversalEnds`,
`Concludes`), which needs ENABLED and is out of the prover's reach.

## Not modelled

* Verification of a token (`auth/verifier.go`): signatures and claims are the
  library's; a token is missing, invalid, without claims or valid.
* Request validation (but for times), error envelopes and optional fields are
  pure functions; inputs have the shape validation lets through. Of zones,
  `LocalTime` has one change of the clocks each, which is what `lookup` looks
  at; two changes less than a day apart are not covered. That a series keeps 24 hours of absolute time, and so
  moves by an hour of local time over a change, is part of `OnTheirDays`. A
  series' answer lists its starts in `WallClock` only by their statuses. The two
  events that `cmd/seed` lays over a change are in `Dataset`, as sessions with
  given times; a comment there has the second end on "Nov 8"
  (`generate.go:119`), 39 days after October 25 is December 3.
* Generated types, logging and reading the environment hold no logic.
* In `Invitations` roles are only lost: a promotion under a running batch would
  make `NoEscalation` say less, and changes no other property. In `Sessions` no
  room is deleted and no event soft-deleted under a session; `Venue` has just
  that, without slots. Connections are unlimited but in `Server`, which in turn
  knows only one row that is written.
* The membership lookup does not ask whether the event is soft-deleted
  (`policy.go:113`), and a session may be created in an event that is being
  deleted (`handler/session.go:93`): `Venue` lets both happen, and no document
  says that they should not.

## Where it could go on

`Server` composed with `Sessions`, to see a starving pool beside the locks of several tables; that
a request waits for no circle of others, which `EveryRequestAnswered` shows on
the instances, as an invariant of Roster and Invitations that could be proved.

------------------------------- MODULE Seeding -------------------------------
(***************************************************************************)
(* cmd/seed: clears the tables one DELETE at a time, generates a dataset,  *)
(* loads it one COPY or INSERT at a time and checks the demo identities    *)
(* against the issuer.  Every statement commits on its own; a run may be   *)
(* cut off between and in them, and the API may go on beside it.           *)
(***************************************************************************)
EXTENDS Dataset

CONSTANTS
    Draws,      \* what the random source may draw (it is seeded: once for all runs)
    ChunkSize,  \* sessionChunkSize
    MaxRuns,    \* bound on runs of the program
    MaxActs     \* bound on what the API does beside or between them

\* A roster for every event, and what addGenericSessions draws for every session.
ASSUME SeedingAssumption ==
    /\ ChunkSize \in Nat \ {0} /\ MaxRuns \in Nat /\ MaxActs \in Nat
    /\ \A d \in Draws :
          /\ DOMAIN d.roster = {Events[i].name : i \in DOMAIN Events}
          /\ \A i \in DOMAIN Events : d.roster[Events[i].name] \in Rosters(Events[i])
          /\ d.places \in [1..Len(Slots) -> [length : 1..3, direct : BOOLEAN, order : Seq(People)]]

\* Tables in the order they were created.  A row is its id and the ids it refers
\* to; an id says which run made it (0: the API), its table and a key.
Tables == <<"users", "events", "event_members", "rooms", "sessions", "invitations",
            "audit_log", "idempotency_keys", "session_series", "session_exceptions">>
OfEvent == {"event_members", "rooms", "sessions", "invitations", "session_series"}

VARIABLES
    draws,    \* what the random source draws in every run
    db,       \* table -> its committed rows
    runs,     \* runs started
    at,       \* the step of Program the current run is at, 0 when none runs
    exit,     \* how the last run ended: "none", "ok", or what failed
    placed,   \* ds.Sessions
    acts,     \* what the API has done so far, bounded
    company   \* history: the API has acted since the last run started
seedVars == <<draws, db, runs, at, exit, placed, acts, company>>

Id(run, table, key) == <<run, table, key>>
Row(id, refs) == [id |-> id, refs |-> refs]
Ids(rows) == {w.id : w \in rows}
KeyOf(w) == w.id[3]

-----------------------------------------------------------------------------
(* DELETE and INSERT under the foreign keys.                                 *)

\* References to an event cascade, and an exception's to its series; any other
\* stops the statement when it would be left dangling at its end.
Cascade(doomed, table) ==
    IF table # "events" THEN {}
    ELSE Ids(doomed) \cup Ids({q \in db["session_series"] : q.refs \cap Ids(doomed) # {}})

Without(doomed, table) ==
    [t \in DOMAIN db |->
        IF t = table THEN db[t] \ doomed
        ELSE IF t \in OfEvent \cup {"session_exceptions"}
             THEN {w \in db[t] : w.refs \cap Cascade(doomed, table) = {}} ELSE db[t]]

Closed(tables) ==
    LET present == UNION {Ids(tables[t]) : t \in DOMAIN tables}
    IN  \A t \in DOMAIN tables : \A w \in tables[t] : w.refs \subseteq present

\* Every row, but of audit_log those whose actor is among the users.
Condemned(table) ==
    IF table = "audit_log" THEN {w \in db[table] : w.refs \cap Ids(db["users"]) # {}}
    ELSE db[table]

With(rows, table) == [db EXCEPT ![table] = @ \cup rows]

\* UNIQUE (subject) and UNIQUE (email) of users; the other keys are fresh.
Unique(rows, table) ==
    table = "users" => \A w \in rows, v \in db[table] : KeyOf(w) # KeyOf(v)

-----------------------------------------------------------------------------
(* The dataset as rows.                                                      *)

EventRow(run, ev) == Row(Id(run, "events", ev.name), {})

SessionRow(run, i) ==
    Row(Id(run, "sessions", i),
        {Id(run, "events", placed[i].event), Id(run, "users", placed[i].speaker),
         Id(run, "rooms", placed[i].room)})

RowsOf(run, table) ==
    CASE table = "users" -> {Row(Id(run, "users", u), {}) : u \in People}
      [] table = "events" -> {EventRow(run, Events[i]) : i \in DOMAIN Events}
      [] table = "event_members" ->
            UNION {{Row(Id(run, table, <<name, u>>), {Id(run, "events", name), Id(run, "users", u)}) :
                       u \in DOMAIN draws.roster[name]} : name \in DOMAIN draws.roster}
      [] table = "rooms" ->
            UNION {{Row(Id(run, table, <<Events[i].name, Events[i].rooms[k]>>),
                        {Id(run, "events", Events[i].name)}) :
                       k \in DOMAIN Events[i].rooms} : i \in DOMAIN Events}
      [] table = "sessions" -> {SessionRow(run, i) : i \in DOMAIN placed}
      [] table = "invitations" ->
            UNION {{Row(Id(run, table, v), {Id(run, "events", v[1])} \cup
                        (IF v[2] = "user" THEN {Id(run, "users", v[3])} ELSE {})) :
                       v \in Invitations(Events[i])} : i \in DOMAIN Events}
      [] OTHER -> {}

\* Mutant: a last chunk that is not full is left behind.
FullChunk(n) == ((n - 1) * ChunkSize + 1)..(IF n * ChunkSize > Len(placed) THEN 0 ELSE n * ChunkSize)
Chunk(n) ==
    {i \in DOMAIN placed : (n - 1) * ChunkSize < i /\ i <= n * ChunkSize}

\* A session or series the API has put into a room, or given a speaker, of the
\* chunk may or may not be in its way.
InTheWay(n) ==
    \E w \in db["sessions"], i \in Chunk(n) :
        w.id[1] = 0 /\ w.refs \cap SessionRow(runs, i).refs # {}
Collides(n) ==
    \E i, j \in Chunk(n) \cup {k \in DOMAIN placed : SessionRow(runs, k) \in db["sessions"]} :
        /\ i # j /\ placed[i].starts < placed[j].ends /\ placed[j].starts < placed[i].ends
        /\ \/ placed[i].speaker = placed[j].speaker
           \/ placed[i].room = placed[j].room

-----------------------------------------------------------------------------
(* The program.                                                              *)

Statement(what, table, part) == [what |-> what, table |-> table, part |-> part]

Deletes(tables) == [i \in 1..8 |-> Statement("delete", tables[i], 0)]

\* Mutant: the keys of the last run's requests stay until the end.
TruncateKeysLast ==
    Deletes(<<"audit_log", "invitations", "sessions", "event_members", "rooms", "events",
              "users", "idempotency_keys">>)
Truncate ==
    Deletes(<<"idempotency_keys", "audit_log", "invitations", "sessions", "event_members",
              "rooms", "events", "users">>)

Load ==
    [i \in 1..4 |-> Statement("copy", <<"users", "events", "event_members", "rooms">>[i], 0)]
      \o [n \in 1..((Len(Slots) + ChunkSize - 1) \div ChunkSize) |->
            Statement("insert", "sessions", n)]
      \o <<Statement("copy", "invitations", 0)>>

SelfCheck == [i \in 1..Len(DemoIdentities) |-> Statement("check", DemoIdentities[i], 0)]

Program == Truncate \o <<Statement("generate", "none", 0)>> \o Load \o SelfCheck

Step == Program[at]
End(how) == at' = 0 /\ exit' = how
Go == IF at = Len(Program) THEN End("ok") ELSE at' = at + 1 /\ UNCHANGED exit
Stays == UNCHANGED <<draws, runs, acts, company>>

\* The tables after the statement, and whether it succeeds.
After == CASE Step.what = "delete" -> Without(Condemned(Step.table), Step.table)
           [] Step.what = "copy" -> With(RowsOf(runs, Step.table), Step.table)
           [] Step.what = "insert" ->
                  With({SessionRow(runs, i) : i \in Chunk(Step.part)}, "sessions")
           [] OTHER -> db
Succeeds == CASE Step.what = "delete" -> Closed(After)
              [] Step.what = "copy" -> Closed(After) /\ Unique(RowsOf(runs, Step.table), Step.table)
              [] Step.what = "insert" -> Closed(After) /\ ~Collides(Step.part)
              [] OTHER -> TRUE

\* The token's subject has a row, with a seat of its role in the demo event.
IdentitySeated(u) ==
    \E v \in db["users"], e \in db["events"], m \in db["event_members"] :
        /\ KeyOf(v) = u /\ m.refs = {v.id, e.id}
        /\ e.id[1] = runs /\ draws.roster[KeyOf(e)][u] = DemoRole[u]
        /\ \E i \in DOMAIN Events : Events[i].demo /\ Events[i].name = KeyOf(e)

-----------------------------------------------------------------------------
SeedInit ==
    /\ draws \in Draws
    /\ db = [t \in ToSet(Tables) |-> {}]
    /\ runs \in 0..MaxRuns /\ acts \in 0..MaxActs    \* what the bounds still allow
    /\ at = 0 /\ exit = "none" /\ placed = <<>> /\ company = FALSE

\* ENV=production is refused, and a database that does not answer.
Start ==
    /\ at = 0 /\ runs < MaxRuns
    /\ runs' = runs + 1 /\ company' = FALSE /\ placed' = <<>>
    /\ \/ at' = 1 /\ exit' = "none"
       \/ at' = 0 /\ exit' = "refused"
    /\ UNCHANGED <<draws, db, acts>>

Execute ==
    /\ at # 0 /\ Step.what \in {"delete", "copy", "insert"}
    /\ \/ Succeeds /\ db' = After /\ Go
       \/ ~Succeeds /\ UNCHANGED db /\ End("database")
       \/ Step.what = "insert" /\ InTheWay(Step.part) /\ UNCHANGED db /\ End("database")
    /\ UNCHANGED placed /\ Stays

Generate ==
    /\ at # 0 /\ Step.what = "generate"
    /\ placed' = Sessions(draws.places)
    /\ IF Panics(placed') THEN End("panic") ELSE Go
    /\ UNCHANGED db /\ Stays

\* The issuer may not answer, or map a client to another subject.
Check ==
    /\ at # 0 /\ Step.what = "check"
    /\ \/ IdentitySeated(Step.table) /\ Go
       \/ ~IdentitySeated(Step.table) /\ End("database")
       \/ End("issuer")
    /\ UNCHANGED <<db, placed>> /\ Stays

\* The five minutes are over, the connection or the process is gone: the
\* statement under way may have been carried out.
Interrupt ==
    /\ at # 0 /\ End("interrupted")
    /\ db' = db \/ (Succeeds /\ db' = After)
    /\ UNCHANGED placed /\ Stays

-----------------------------------------------------------------------------
(* The API: the demo identities are the only ones who get tokens.            *)

Fresh(table) == Id(0, table, acts)
Audited(u) == {Row(Fresh("audit_log"), {u})}

\* One transaction of the API; what it adds to each table.
Adds(rows) ==
    /\ acts < MaxActs /\ acts' = acts + 1 /\ company' = TRUE
    /\ db' = [t \in DOMAIN db |-> IF t \in DOMAIN rows THEN db[t] \cup rows[t] ELSE db[t]]
    /\ UNCHANGED <<draws, runs, at, exit, placed>>

SignIn ==
    \E u \in DOMAIN DemoRole :
        /\ \A v \in db["users"] : KeyOf(v) # u
        /\ Adds([users |-> {Row(Id(0, "users", u), {})}])

\* role_permissions: with a seat of theirs, but an attendee's, the caller may
\* invite, book and edit; whoever founds an event is its admin.
May(v, e) ==
    /\ KeyOf(v) \in DOMAIN DemoRole
    /\ \E m \in db["event_members"] :
          /\ m.refs = {v.id, e}
          /\ e[1] # 0 => draws.roster[e[3]][KeyOf(v)] # "attendee"

\* A bulk invitation, with its key.
Invite ==
    \E v \in db["users"], e \in Ids(db["events"]) :
        /\ May(v, e)
        /\ Adds([invitations |-> {Row(Fresh("invitations"), {e})},
                 idempotency_keys |-> {Row(Fresh("idempotency_keys"), {v.id})},
                 audit_log |-> Audited(v.id)])

Found ==
    \E v \in db["users"] :
        /\ KeyOf(v) \in DOMAIN DemoRole
        /\ Adds([events |-> {Row(Fresh("events"), {})},
                 event_members |-> {Row(Fresh("event_members"), {Fresh("events"), v.id})},
                 audit_log |-> Audited(v.id)])

\* A session of its own, or the first of a series.
Schedule ==
    \E v \in db["users"], r \in db["rooms"], series \in {{}, {Fresh("session_series")}} :
        /\ \A e \in r.refs : May(v, e)
        /\ Adds([session_series |-> {Row(id, r.refs \cup {r.id, v.id}) : id \in series},
                 sessions |-> {Row(Fresh("sessions"), r.refs \cup {r.id, v.id} \cup series)},
                 audit_log |-> Audited(v.id)])

\* A PATCH of a session of a series leaves an exception.
Edit ==
    \E v \in db["users"], s \in db["sessions"], q \in db["session_series"] :
        /\ q.id \in s.refs /\ \E e \in s.refs : May(v, e)
        /\ Adds([session_exceptions |-> {Row(Fresh("session_exceptions"), {s.id, q.id})},
                 audit_log |-> Audited(v.id)])

Beside == SignIn \/ Invite \/ Found \/ Schedule \/ Edit

SeedNext == Start \/ Execute \/ Generate \/ Check \/ Interrupt \/ Beside

SeedSpec == SeedInit /\ [][SeedNext]_seedVars

-----------------------------------------------------------------------------
\* main.go: a run that reports success has left the whole dataset behind, and,
\* unless the API worked beside it, nothing else, whatever earlier runs that were
\* cut off, and the API since, had left in the tables.
SeedIsWhole ==
    exit = "ok" =>
        \A t \in DOMAIN db : /\ RowsOf(runs, t) \subseteq db[t]
                             /\ ~company => db[t] = RowsOf(runs, t)

\* load.go:37, 70: the statements are in an order the foreign keys allow, and a run
\* that was cut off anywhere is repaired by the next: the database refuses a run
\* only for a series, which Truncate forgets, or for what the API does beside it.
FailureExplained ==
    exit = "database" => company \/ db["session_series"] # {}

\* generate.go:479: what is generated is what the EXCLUDE constraints accept, and
\* the guard the tests use for that, a look at neighbours, says so exactly when no
\* two sessions overlap.
DatasetFits ==
    exit # "panic" =>
        /\ NoSpeakerOrRoomOverlap(placed)
        /\ \A i, j \in DOMAIN placed :
              /\ i # j
              /\ \/ placed[i].speaker = placed[j].speaker
                 \/ placed[i].room = placed[j].room
              => placed[i].ends <= placed[j].starts \/ placed[j].ends <= placed[i].starts
=============================================================================

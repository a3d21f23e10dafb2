----------------------------- MODULE MCClients ------------------------------
(***************************************************************************)
(* Who works with the API's data for TLC: cmd/seed with the three demo      *)
(* identities, one user more and three events; cmd/agent with a model that *)
(* makes every kind of call; and a client that reads a list page by page.  *)
(* They share nothing, and run apart.                                      *)
(***************************************************************************)
EXTENDS Seeding, Agent, MCPaging

MCDemoRole == [u \in {"adm", "con", "att"} |->
                 CASE u = "adm" -> "admin" [] u = "con" -> "contributor" [] OTHER -> "attendee"]
MCUsers == <<"adm", "con", "att", "ann">>
MCExternal == <<"ann", "att", "adm", "con">>
MCSeats == {[admin |-> 1, contributor |-> 1, attendee |-> 2]}

Of(name, opens, total, fixture, demo) ==
    [name |-> name, opens |-> opens, rooms |-> <<"A", "B">>, total |-> total,
     fixture |-> fixture, demo |-> demo]

\* Five sessions may come to overlap, for four users.
MCEvents == <<Of("bulk", 0, 3, NoFixture, FALSE), Of("dst", 16, 0, <<19, 21>>, FALSE),
              Of("demo", 0, 2, NoFixture, TRUE)>>

Somebody(name) == CHOOSE r \in Rosters(MCEvents[CHOOSE i \in 1..3 : MCEvents[i].name = name]) : TRUE
MCRoster == [name \in {MCEvents[i].name : i \in 1..3} |-> Somebody(name)]

Drawn(lengths, direct) ==
    [roster |-> MCRoster,
     places |-> [i \in 1..Len(Slots) |->
        [length |-> lengths[i], direct |-> direct[i],
         order |-> SetToSeq(DOMAIN MCRoster[Slots[i].event])]]]

\* Short and long sessions in every combination, members asked first or not.
MCDraws ==
    {Drawn(l, d) : l \in [1..Len(Slots) -> {1, 3}],
                   d \in {[i \in 1..Len(Slots) |-> i % 2 \in odd] : odd \in {{0}, {0, 1}}}}
Short == Drawn([i \in 1..Len(Slots) |-> 1], [i \in 1..Len(Slots) |-> i % 2 = 0])

Calling(tool, args) == [tool |-> tool, args |-> args]
Turn(stop, uses) == [stop |-> stop, uses |-> uses]
MCResponses ==
    {Turn("end_turn", <<>>), Turn("max_tokens", <<Calling("get_event", "conf")>>),
     Turn("tool_use", <<Calling("list_events", "none"), Calling("get_event", "conf")>>),
     Turn("tool_use", <<Calling("list_rooms", "invalid"), Calling("list_sessions", "conf"),
                        Calling("get_event", "none")>>),
     Turn("tool_use", <<Calling("get_event", "conf"), Calling("cancel_session", "conf")>>),
     Turn("tool_use", <<>>)}

\* An agent whose flags were refused, and a list that was read and found empty.
Refused ==
    /\ stage = "done" /\ turn = 0 /\ results = <<>> /\ final = "refused"
    /\ messages = <<Message("user", <<>>, <<>>)>>
    /\ member = {} /\ decided = <<>> /\ moves = 0

FoundEmpty ==
    /\ clock = 0 /\ status = [x \in Rows |-> "absent"] /\ created = [x \in Rows |-> 0]
    /\ cursor = NoCursor /\ done = TRUE
    /\ page = {} /\ seen = {} /\ again = {} /\ owed = {}

\* For one draw, two runs of the seed program with an act of the API, and one run
\* with two; one run by itself for every other draw; the agent and the reader with
\* no run of it beside.
MCInit ==
    /\ SeedInit
    /\ \/ /\ AgentInit /\ FoundEmpty
          /\ \/ draws = Short /\ runs = 0 /\ acts = 1 /\ member = {}
             \/ draws = Short /\ runs = 1 /\ acts = 0 /\ member = {}
             \/ draws # Short /\ runs = MaxRuns - 1 /\ acts = MaxActs /\ member = {}
             \/ draws = Short /\ runs = MaxRuns /\ acts = MaxActs
       \/ Init /\ Refused /\ draws = Short /\ runs = MaxRuns /\ acts = MaxActs
AgentsTurn == runs = MaxRuns /\ at = 0 /\ exit = "none"
ReadersTurn == stage = "done" /\ final = "refused"

MCNext == \/ SeedNext /\ UNCHANGED <<agentVars, vars>>
          \/ AgentsTurn /\ AgentNext /\ UNCHANGED <<seedVars, vars>>
          \/ ReadersTurn /\ Next /\ UNCHANGED <<seedVars, agentVars>>

MCSpec == MCInit /\ [][MCNext]_<<seedVars, agentVars, vars>> /\ AgentFairness /\ Fairness
=============================================================================

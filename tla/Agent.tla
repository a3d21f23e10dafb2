-------------------------------- MODULE Agent --------------------------------
(***************************************************************************)
(* cmd/agent: the loop that asks a model, carries out the read-only tool   *)
(* calls it makes against the API with the caller's own token, one after   *)
(* the other, and sends the results back, for a bounded number of turns.   *)
(* The model and the API may do anything, or nothing: no call has a        *)
(* timeout.  What is said is left out; who said it, and in which order,    *)
(* is not.                                                                 *)
(***************************************************************************)
EXTENDS Naturals, Sequences

CONSTANTS
    Responses,      \* what the model may respond
    Visited,          \* events, of some of which the caller is a member
    MaxAgentTurns,
    MaxMoves        \* bound on changes of the caller's memberships

Known == {"list_events", "get_event", "list_sessions", "list_rooms"}   \* ToolDefinitions

\* Arguments: the event they name, or that they do not parse, or name none.
Use == [tool : STRING, args : Visited \cup {"invalid", "none"}]

ASSUME AgentAssumption ==
    /\ MaxAgentTurns \in Nat \ {0} /\ MaxMoves \in Nat
    /\ Visited \cap {"invalid", "none"} = {}
    /\ \A resp \in Responses : resp.stop \in STRING /\ resp.uses \in Seq(Use)

VARIABLES
    stage,      \* where Run is: "off", "model" and "api" (waiting), "wire", "dispatch", "done"
    turn,
    messages,   \* as sent to the model: who, the tool_use blocks, the tool_result blocks
    results,    \* toolResults
    member,     \* the events the caller is a member of
    decided,    \* history: call -> what became of it
    moves, final
agentVars == <<stage, turn, messages, results, member, decided, moves, final>>

Message(role, uses, res) == [role |-> role, uses |-> uses, results |-> res]

Uses == messages[Len(messages)].uses
Current == Uses[Len(results) + 1]
\* The id of a block: its place in the conversation.
Call == <<Len(messages), Len(results) + 1>>
Note(what) == [c \in DOMAIN decided \cup {Call} |-> IF c = Call THEN what ELSE decided[c]]

Finish(how) == stage' = "done" /\ final' = how

Result(failed) == [id |-> Call, failed |-> failed]

\* Mutants: a failed call is made again; a result is put before the others.
RetryFailed(failed) == IF failed THEN UNCHANGED results ELSE results' = Append(results, Result(failed))
Prepend(failed) == results' = <<Result(failed)>> \o results
AppendResult(failed) == results' = Append(results, Result(failed))

AgentInit ==
    /\ stage = "off" /\ turn = 0 /\ results = <<>> /\ final = "none"
    /\ messages = <<Message("user", <<>>, <<>>)>>
    /\ member \in SUBSET Visited /\ decided = <<>> /\ moves = 0

\* A flag that is missing or out of range ends the program.
Launch ==
    /\ stage = "off"
    /\ (stage' = "model" /\ UNCHANGED final) \/ Finish("refused")
    /\ UNCHANGED <<turn, messages, results, member, decided, moves>>

\* CreateMessage: anything but "tool_use" makes the response the answer, the
\* calls it may hold (cut off at max_tokens, say) notwithstanding.
Respond ==
    /\ stage = "model"
    /\ \E resp \in Responses :
          /\ messages' = Append(messages, Message("assistant", resp.uses, <<>>))
          /\ results' = <<>>
          /\ IF resp.stop = "tool_use" THEN stage' = "dispatch" /\ UNCHANGED final
                                       ELSE Finish("answer")
    /\ UNCHANGED <<turn, member, decided, moves>>

\* A status other than 2xx, a transport or decoding error: no second attempt.
ModelFails ==
    /\ stage = "model" /\ Finish("failed")
    /\ UNCHANGED <<turn, messages, results, member, decided, moves>>

\* Dispatch up to the request: an unknown tool ends the run, arguments the tool
\* cannot use are the model's to correct.
Dispatch ==
    /\ stage = "dispatch" /\ Len(results) < Len(Uses)
    /\ \/ Current.tool \notin Known /\ Finish("failed") /\ UNCHANGED <<results, decided>>
       \/ /\ Current.tool \in Known
          /\ \/ Current.args = "invalid"
             \/ Current.args = "none" /\ Current.tool # "list_events"
          /\ AppendResult(TRUE) /\ decided' = Note("unusable")
          /\ UNCHANGED <<stage, final>>
       \/ /\ Current.tool \in Known
          /\ Current.args \in Visited \/ (Current.args = "none" /\ Current.tool = "list_events")
          /\ stage' = "api" /\ UNCHANGED <<results, decided, final>>
    /\ UNCHANGED <<turn, messages, member, moves>>

\* The API: list_events shows what the caller may see, the others are behind Authz.
Allowed == Current.tool = "list_events" \/ Current.args \in member

Decide ==
    /\ stage = "api" /\ stage' = "wire"
    /\ decided' = Note(IF Allowed THEN "data" ELSE "denied")
    /\ UNCHANGED <<turn, messages, results, member, moves, final>>

\* encodeToolResult of what came over the wire.
Deliver ==
    /\ stage = "wire" /\ stage' = "dispatch"
    /\ AppendResult(decided[Call] = "denied")
    /\ UNCHANGED <<turn, messages, member, decided, moves, final>>

\* No connection, a broken one, a 5xx, a body that does not parse.
ApiFails ==
    /\ stage \in {"api", "wire"} /\ stage' = "dispatch"
    /\ AppendResult(TRUE) /\ decided' = Note("lost")
    /\ UNCHANGED <<turn, messages, member, moves, final>>

\* The end of a turn; the results of the last one are not sent.
Report ==
    /\ stage = "dispatch" /\ Len(results) = Len(Uses)
    /\ messages' = Append(messages, Message("user", <<>>, results))
    /\ turn' = turn + 1
    /\ IF turn' < MaxAgentTurns THEN stage' = "model" /\ UNCHANGED final
                                ELSE Finish("exceeded")
    /\ UNCHANGED <<results, member, decided, moves>>

Move ==
    /\ moves < MaxMoves /\ moves' = moves + 1 /\ stage # "done"
    /\ \E e \in Visited : member' = IF e \in member THEN member \ {e} ELSE member \cup {e}
    /\ UNCHANGED <<stage, turn, messages, results, decided, final>>

AgentNext == \/ Launch \/ Respond \/ ModelFails \/ Dispatch \/ Decide \/ Deliver
             \/ ApiFails \/ Report \/ Move

\* The program goes on by itself; neither the model nor the API has to answer.
AgentFairness == WF_agentVars(Dispatch) /\ WF_agentVars(Report)

AgentSpec == AgentInit /\ [][AgentNext]_agentVars /\ AgentFairness

-----------------------------------------------------------------------------
\* The result carries the call's id and says what became of it.
Tells(result, call) ==
    /\ result.id = call
    /\ call \in DOMAIN decided /\ (result.failed <=> decided[call] # "data")

\* agent.go:66: whenever the model is asked, every call it has made is answered by
\* one result, in the order of the calls and in the message right after them, and
\* a denial or a failure, of whatever kind, is told as such: none is swallowed,
\* repeated, reordered or given for another's, however many calls a turn holds.
EveryCallAnswered ==
    stage = "model" =>
        \A i \in 1..Len(messages) :
            /\ (messages[i].role = "assistant") = (i % 2 = 0)
            /\ messages[i].uses # <<>> =>
                  /\ i < Len(messages)
                  /\ Len(messages[i + 1].results) = Len(messages[i].uses)
                  /\ \A k \in 1..Len(messages[i].uses) :
                        Tells(messages[i + 1].results[k], <<i, k>>)

\* agent.go:10: whatever the model asks for, and however its calls fail, Run comes
\* to an end, unless the model or the API leaves it waiting for ever.
Concludes == stage # "off" ~> stage = "done" \/ [](stage \in {"model", "api", "wire"})
=============================================================================

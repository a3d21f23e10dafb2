---------------------------- MODULE ClientsProofs ----------------------------
(***************************************************************************)
(* Two clients of the API.  The agent's conversation is well formed        *)
(* whenever the model is asked, proved for every number of turns, calls    *)
(* and events; a traversal of a list repeats nothing and skips nothing     *)
(* that was owed, proved for lists of any length, any limits and any       *)
(* changes between the pages.  The two share nothing.                      *)
(***************************************************************************)
EXTENDS Agent, Paging, FiniteSetTheorems, SequenceTheorems, TLAPS

-----------------------------------------------------------------------------
(***************************************************************************)
(* The agent.                                                              *)
(***************************************************************************)
(***************************************************************************)
(* The inductive invariant.                                                *)
(***************************************************************************)
Told == [id : Nat \X Nat, failed : BOOLEAN]
Messages == [role : {"user", "assistant"}, uses : Seq(Use), results : Seq(Told)]

Working == {"dispatch", "api", "wire"}      \* on the calls of the last message

AgentTypeOK ==
    /\ stage \in {"off", "model", "done"} \cup Working
    /\ messages \in Seq(Messages) /\ Len(messages) \in Nat \ {0}
    /\ results \in Seq(Told)

\* User and model take turns; only the model makes calls.
TurnsTaken ==
    /\ \A i \in 1 .. Len(messages) :
          /\ messages[i].role = "assistant" <=> i % 2 = 0
          /\ i % 2 = 1 => messages[i].uses = << >>
    /\ stage \in {"off", "model"} => Len(messages) % 2 = 1
    /\ stage \in Working => Len(messages) % 2 = 0

AnsweredAt(i) ==
    messages[i].uses # << >> =>
        /\ Len(messages[i + 1].results) = Len(messages[i].uses)
        /\ \A k \in 1 .. Len(messages[i].uses) : Tells(messages[i + 1].results[k], <<i, k>>)

\* All calls are answered but those of the last message ...
Past == stage # "done" => \A i \in 1 .. Len(messages) - 1 : AnsweredAt(i)

\* ... and of these the first few are.
SoFar ==
    stage \in Working =>
        /\ Len(results) <= Len(Uses)
        /\ \A k \in 1 .. Len(results) : Tells(results[k], <<Len(messages), k>>)
        /\ stage # "dispatch" => Len(results) < Len(Uses)
        /\ stage = "wire" => Call \in DOMAIN decided /\ decided[Call] \in {"data", "denied"}

AgentInv == AgentTypeOK /\ TurnsTaken /\ Past /\ SoFar

(***************************************************************************)
(* Lemmas.                                                                 *)
(***************************************************************************)
\* What has been noted of one call is not touched by a note on another.
LEMMA TellsStays ==
    ASSUME NEW t, NEW c, NEW what, Tells(t, c), c # Call, decided' = Note(what)
    PROVE  Tells(t, c)'
BY DEF Tells, Note

\* The calls made so far keep what was told of them when the one under way is noted.
LEMMA NoteKeeps ==
    ASSUME AgentInv, stage \in Working, messages' = messages,
           decided' = decided \/ \E what : decided' = Note(what)
    PROVE  /\ \A i \in 1 .. Len(messages) - 1 : AnsweredAt(i)'
           /\ \A k \in 1 .. Len(results) : \A t :
                 Tells(t, <<Len(messages), k>>) => Tells(t, <<Len(messages), k>>)'
<1>1. Len(messages) \in Nat /\ Len(results) \in Nat
    BY DEF AgentInv, AgentTypeOK
<1>2. PICK m, n : m = Len(messages) /\ n = Len(results)
    OBVIOUS
<1>3. \A i, k, t : i < m \/ (i = m /\ k <= n) => (Tells(t, <<i, k>>) => Tells(t, <<i, k>>)')
    <2> SUFFICES ASSUME NEW i, NEW k, NEW t, i < m \/ (i = m /\ k <= n), Tells(t, <<i, k>>)
                 PROVE  Tells(t, <<i, k>>)'
        OBVIOUS
    <2>1. CASE decided' = decided
        BY <2>1 DEF Tells
    <2>2. CASE \E what : decided' = Note(what)
        <3>1. <<i, k>> # Call
            BY <1>1, <1>2 DEF Call
        <3> QED
            BY <2>2, <3>1, TellsStays
    <2> QED
        BY <2>1, <2>2
<1>4. ASSUME NEW i \in 1 .. m - 1 PROVE AnsweredAt(i)'
    <2>1. AnsweredAt(i) /\ i < m
        BY <1>1, <1>2 DEF AgentInv, Past, Working
    <2> QED
        BY <1>3, <2>1 DEF AnsweredAt
<1>5. \A k \in 1 .. n : \A t : Tells(t, <<m, k>>) => Tells(t, <<m, k>>)'
    BY <1>1, <1>2, <1>3
<1> QED
    BY <1>2, <1>4, <1>5

\* One more result that says what became of the call.
LEMMA ResultTold ==
    ASSUME AgentInv, stage \in Working, Len(results) < Len(Uses), messages' = messages,
           NEW failed \in BOOLEAN, AppendResult(failed), stage' = "dispatch",
           NEW what, failed <=> what # "data",
           \/ decided' = Note(what)
           \/ decided' = decided /\ Call \in DOMAIN decided /\ decided[Call] = what
    PROVE  AgentInv'
<1>1. /\ Len(messages) \in Nat \ {0} /\ Len(results) \in Nat /\ results \in Seq(Told)
      /\ Uses \in Seq(Use)
    <2>1. messages \in Seq(Messages) /\ Len(messages) \in Nat \ {0} /\ results \in Seq(Told)
        BY DEF AgentInv, AgentTypeOK
    <2>2. messages[Len(messages)] \in Messages
        BY <2>1, ElementOfSeq
    <2> QED
        BY <2>1, <2>2 DEF Messages, Uses
<1>2. Result(failed) \in Told
    BY <1>1 DEF Result, Told, Call
<1>3. /\ results' = Append(results, Result(failed)) /\ results' \in Seq(Told)
      /\ Len(results') = Len(results) + 1
      /\ \A k \in 1 .. Len(results) : results'[k] = results[k]
      /\ results'[Len(results) + 1] = Result(failed)
    BY <1>1, <1>2, AppendProperties DEF AppendResult
<1>4. PICK m, n, now, c : m = Len(messages) /\ n = Len(results) /\ now = results' /\ c = Call
    OBVIOUS
<1>5. c = <<m, n + 1>>
    BY <1>4 DEF Call
<1>6. Tells(now[n + 1], c)'
    <2>1. now[n + 1].id = c /\ now[n + 1].failed = failed
        BY <1>3, <1>4 DEF Result
    <2>2. c \in DOMAIN decided' /\ decided'[c] = what
        BY <1>4 DEF Note
    <2> QED
        BY <2>1, <2>2 DEF Tells
<1>7. \A k \in 1 .. n : Tells(now[k], <<m, k>>)'
    BY <1>3, <1>4, NoteKeeps DEF AgentInv, SoFar
<1>8. \A k \in 1 .. n + 1 : Tells(now[k], <<m, k>>)'
    <2> SUFFICES ASSUME NEW k \in 1 .. n + 1 PROVE Tells(now[k], <<m, k>>)'
        OBVIOUS
    <2>1. CASE k = n + 1
        BY <1>5, <1>6, <2>1
    <2>2. CASE k # n + 1
        <3>1. k \in 1 .. n
            BY <1>1, <1>4, <2>2
        <3> QED
            BY <1>7, <3>1
    <2> QED
        BY <2>1, <2>2
<1>9. SoFar'
    <2>1. Uses' = Uses
        BY DEF Uses
    <2>2. Len(results') <= Len(Uses')
        BY <1>1, <1>3, <2>1
    <2>3. \A k \in 1 .. Len(results') : Tells(now[k], <<m, k>>)'
        BY <1>3, <1>4, <1>8
    <2> QED
        BY <1>4, <2>2, <2>3 DEF SoFar, Tells
<1>10. Past'
    BY NoteKeeps DEF Past
<1> QED
    BY <1>3, <1>9, <1>10 DEF AgentInv, AgentTypeOK, TurnsTaken, Working

(***************************************************************************)
(* The steps.                                                              *)
(***************************************************************************)
\* The model's response, with the calls it makes.
LEMMA RespondKeeps == AgentInv /\ Respond => AgentInv'
<1> SUFFICES ASSUME AgentInv, Respond PROVE AgentInv'
    OBVIOUS
<1>1. PICK resp \in Responses :
          /\ messages' = Append(messages, Message("assistant", resp.uses, << >>))
          /\ stage' \in {"dispatch", "done"} /\ results' = << >>
    BY DEF Respond, Finish
<1>2. Message("assistant", resp.uses, << >>) \in Messages
    BY AgentAssumption DEF Message, Messages
<1>3. /\ messages \in Seq(Messages) /\ Len(messages) \in Nat \ {0} /\ Len(messages) % 2 = 1
    BY DEF AgentInv, AgentTypeOK, TurnsTaken, Respond
<1>4. /\ messages' \in Seq(Messages) /\ Len(messages') = Len(messages) + 1
      /\ \A i \in 1 .. Len(messages) : messages'[i] = messages[i]
      /\ messages'[Len(messages) + 1] = Message("assistant", resp.uses, << >>)
    BY <1>1, <1>2, <1>3, AppendProperties
<1>5. AgentTypeOK'
    BY <1>1, <1>3, <1>4 DEF AgentTypeOK, Working
<1>6. TurnsTaken'
    BY <1>1, <1>3, <1>4 DEF AgentInv, TurnsTaken, Working, Message
<1>7. Past'
    <2> SUFFICES ASSUME NEW i \in 1 .. Len(messages) PROVE AnsweredAt(i)'
        BY <1>3, <1>4 DEF Past
    <2>1. CASE i = Len(messages)
        BY <1>3, <1>4, <2>1 DEF AnsweredAt, AgentInv, TurnsTaken
    <2>2. CASE i # Len(messages)
        <3>1. i \in 1 .. Len(messages) - 1 /\ i + 1 \in 1 .. Len(messages)
            BY <1>3, <2>2
        <3>2. AnsweredAt(i) /\ UNCHANGED decided
            BY <3>1 DEF AgentInv, Past, Respond
        <3> QED
            BY <1>4, <3>1, <3>2 DEF AnsweredAt, Tells
    <2> QED
        BY <2>1, <2>2
<1>8. SoFar'
    BY <1>1, <1>2, <1>3, <1>4 DEF SoFar, Working, Uses, Message, Messages
<1> QED
    BY <1>5, <1>6, <1>7, <1>8 DEF AgentInv

\* The results of a turn are sent.
LEMMA ReportKeeps == AgentInv /\ Report => AgentInv'
<1> SUFFICES ASSUME AgentInv, Report PROVE AgentInv'
    OBVIOUS
<1>1. /\ messages' = Append(messages, Message("user", << >>, results))
      /\ stage' \in {"model", "done"} /\ results' = results /\ decided' = decided
      /\ Len(results) = Len(Uses) /\ stage = "dispatch"
    BY DEF Report, Finish
<1>2. /\ messages \in Seq(Messages) /\ Len(messages) \in Nat \ {0} /\ Len(messages) % 2 = 0
      /\ results \in Seq(Told)
    BY <1>1 DEF AgentInv, AgentTypeOK, TurnsTaken, Working
<1>3. Message("user", << >>, results) \in Messages
    BY <1>2 DEF Message, Messages
<1>4. /\ messages' \in Seq(Messages) /\ Len(messages') = Len(messages) + 1
      /\ \A i \in 1 .. Len(messages) : messages'[i] = messages[i]
      /\ messages'[Len(messages) + 1] = Message("user", << >>, results)
    BY <1>1, <1>2, <1>3, AppendProperties
<1>5. AgentTypeOK'
    BY <1>1, <1>2, <1>4 DEF AgentTypeOK, Working
<1>6. TurnsTaken'
    <2>1. (Len(messages) + 1) % 2 = 1
        BY <1>2
    <2>2. ASSUME NEW i \in 1 .. Len(messages')
          PROVE  /\ messages'[i].role = "assistant" <=> i % 2 = 0
                 /\ i % 2 = 1 => messages'[i].uses = << >>
        <3>1. CASE i = Len(messages) + 1
            BY <1>2, <1>4, <2>1, <3>1 DEF Message
        <3>2. CASE i # Len(messages) + 1
            BY <1>2, <1>4, <3>2 DEF AgentInv, TurnsTaken
        <3> QED
            BY <3>1, <3>2
    <2> QED
        BY <1>1, <1>4, <2>1, <2>2 DEF TurnsTaken, Working
<1>7. Past'
    <2> SUFFICES ASSUME NEW i \in 1 .. Len(messages) PROVE AnsweredAt(i)'
        BY <1>2, <1>4 DEF Past
    <2>1. CASE i = Len(messages)
        <3>1. \A k \in 1 .. Len(results) : Tells(results[k], <<i, k>>)
            BY <1>1, <2>1 DEF AgentInv, SoFar, Working
        <3>2. /\ messages'[i].uses = Uses
              /\ messages'[i + 1].results = results
            BY <1>2, <1>4, <2>1 DEF Uses, Message
        <3> QED
            BY <1>1, <3>1, <3>2 DEF AnsweredAt, Tells
    <2>2. CASE i # Len(messages)
        <3>1. i \in 1 .. Len(messages) - 1 /\ i + 1 \in 1 .. Len(messages)
            BY <1>2, <2>2
        <3>2. AnsweredAt(i)
            BY <1>1, <3>1 DEF AgentInv, Past
        <3> QED
            BY <1>1, <1>4, <3>1, <3>2 DEF AnsweredAt, Tells
    <2> QED
        BY <2>1, <2>2
<1>8. SoFar'
    BY <1>1 DEF SoFar, Working
<1> QED
    BY <1>5, <1>6, <1>7, <1>8 DEF AgentInv

\* A step that says nothing: it begins, ends, is on its way, or is a change
\* of the caller's memberships.
LEMMA QuietKeeps ==
    ASSUME AgentInv, UNCHANGED <<messages, results>>,
           \/ stage' = "done"
           \/ stage' = "model" /\ stage = "off" /\ UNCHANGED decided
           \/ stage' = stage /\ UNCHANGED decided
           \/ stage' = "api" /\ stage = "dispatch" /\ UNCHANGED decided /\ Len(results) < Len(Uses)
    PROVE  AgentInv'
<1>1. AgentTypeOK' /\ TurnsTaken'
    BY DEF AgentInv, AgentTypeOK, TurnsTaken, Working
<1>2. Past' /\ SoFar'
    <2>1. CASE stage' = "done"
        BY <2>1 DEF Past, SoFar, Working
    <2>2. CASE stage' # "done"
        BY <2>2 DEF AgentInv, Past, SoFar, Working, AnsweredAt, Tells, Uses, Call
    <2> QED
        BY <2>1, <2>2
<1> QED
    BY <1>1, <1>2 DEF AgentInv

\* Dispatch answers at once, asks the API, or gives up.
LEMMA DispatchKeeps == AgentInv /\ Dispatch => AgentInv'
<1> SUFFICES ASSUME AgentInv, Dispatch PROVE AgentInv'
    OBVIOUS
<1>1. CASE stage' = "done"
    BY <1>1, QuietKeeps DEF Dispatch, AppendResult, Working
<1>2. CASE AppendResult(TRUE) /\ decided' = Note("unusable") /\ stage' = stage
    <2>1. /\ stage = "dispatch" /\ stage \in Working /\ stage' = "dispatch"
          /\ Len(results) < Len(Uses) /\ messages' = messages
        BY <1>2 DEF Dispatch, Working
    <2>2. TRUE <=> "unusable" # "data"
        OBVIOUS
    <2> QED
        BY <1>2, <2>1, <2>2, ResultTold
<1>3. CASE stage' = "api" /\ UNCHANGED <<results, decided>>
    BY <1>3, QuietKeeps DEF Dispatch
<1>4. CASE stage' = "done" /\ UNCHANGED <<results, decided>>
    BY <1>4, QuietKeeps DEF Dispatch
<1> QED
    BY <1>2, <1>3, <1>4 DEF Dispatch, Finish

\* The API decides; nothing is told yet.
LEMMA DecideKeeps == AgentInv /\ Decide => AgentInv'
<1> SUFFICES ASSUME AgentInv, Decide PROVE AgentInv'
    OBVIOUS
<1>1. PICK what \in {"data", "denied"} : decided' = Note(what)
    BY DEF Decide
<1>2. stage = "api" /\ stage' = "wire" /\ messages' = messages /\ results' = results
    BY DEF Decide
<1>3. AgentTypeOK' /\ TurnsTaken' /\ Len(results) < Len(Uses)
    BY <1>2 DEF AgentInv, AgentTypeOK, TurnsTaken, Working, SoFar
<1>4. /\ \A i \in 1 .. Len(messages) - 1 : AnsweredAt(i)'
      /\ \A k \in 1 .. Len(results) : \A t :
            Tells(t, <<Len(messages), k>>) => Tells(t, <<Len(messages), k>>)'
    BY <1>1, <1>2, NoteKeeps DEF Working
<1>5. Past'
    BY <1>2, <1>4 DEF Past
<1>6. PICK m, now : m = Len(messages) /\ now = results
    OBVIOUS
<1>7. \A k \in 1 .. Len(now) : Tells(now[k], <<m, k>>)'
    BY <1>2, <1>4, <1>6 DEF AgentInv, SoFar, Working
<1>8. Call' = Call /\ Uses' = Uses /\ Call \in DOMAIN decided' /\ decided'[Call] = what
    BY <1>1, <1>2 DEF Call, Uses, Note
<1>9. SoFar'
    BY <1>1, <1>2, <1>3, <1>6, <1>7, <1>8 DEF SoFar, Tells, AgentInv, AgentTypeOK
<1> QED
    BY <1>3, <1>5, <1>9 DEF AgentInv

\* The answer arrives, or is lost.
LEMMA AnswerKeeps == AgentInv /\ (Deliver \/ ApiFails) => AgentInv'
<1>1. ASSUME AgentInv, Deliver PROVE AgentInv'
    <2>1. /\ stage = "wire" /\ decided' = decided /\ Call \in DOMAIN decided
          /\ decided[Call] \in {"data", "denied"} /\ Len(results) < Len(Uses)
        BY <1>1 DEF AgentInv, SoFar, Deliver, Working
    <2>2. (decided[Call] = "denied") <=> decided[Call] # "data"
        BY <2>1
    <2>3. AppendResult(decided[Call] = "denied") /\ stage' = "dispatch" /\ messages' = messages
        BY <1>1 DEF Deliver
    <2> QED
        BY <1>1, <2>1, <2>2, <2>3, ResultTold DEF Working
<1>2. ASSUME AgentInv, ApiFails PROVE AgentInv'
    <2>1. /\ stage \in Working /\ Len(results) < Len(Uses) /\ messages' = messages
          /\ AppendResult(TRUE) /\ decided' = Note("lost") /\ stage' = "dispatch"
        BY <1>2 DEF AgentInv, SoFar, ApiFails, Working
    <2>2. TRUE <=> "lost" # "data"
        OBVIOUS
    <2> QED
        BY <1>2, <2>1, <2>2, ResultTold
<1> QED
    BY <1>1, <1>2

\* The conversation begins with the user's question.
LEMMA AgentInvInit == AgentInit => AgentInv
<1> SUFFICES ASSUME AgentInit PROVE AgentInv
    OBVIOUS
<1>1. Message("user", << >>, << >>) \in Messages
    BY DEF Message, Messages
<1> QED
    BY <1>1 DEF AgentInit, AgentInv, AgentTypeOK, TurnsTaken, Past, SoFar, Working, Message

\* The invariant is inductive.
LEMMA AgentInvNext == AgentInv /\ [AgentNext]_agentVars => AgentInv'
<1>1. ASSUME AgentInv, Launch \/ ModelFails \/ Move \/ UNCHANGED agentVars PROVE AgentInv'
    BY <1>1, QuietKeeps DEF Launch, ModelFails, Move, agentVars, Finish
<1> QED
    BY <1>1, RespondKeeps, ReportKeeps, DispatchKeeps, DecideKeeps, AnswerKeeps DEF AgentNext

(***************************************************************************)
(* The theorems.                                                           *)
(***************************************************************************)
\* The invariant holds in every reachable state of the loop.
THEOREM AgentInvHolds == AgentSpec => []AgentInv
BY AgentInvInit, AgentInvNext, PTL DEF AgentSpec

\* Whenever Run asks the model, every call it has made is answered once, in
\* order, in the next message, and a failure as such.
THEOREM CallsAreAnswered == AgentSpec => []EveryCallAnswered
<1>1. AgentInv => EveryCallAnswered
    <2> SUFFICES ASSUME AgentInv, stage = "model", NEW i \in 1 .. Len(messages)
                 PROVE  /\ (messages[i].role = "assistant") = (i % 2 = 0)
                        /\ messages[i].uses # << >> =>
                              /\ i < Len(messages)
                              /\ Len(messages[i + 1].results) = Len(messages[i].uses)
                              /\ \A k \in 1 .. Len(messages[i].uses) :
                                    Tells(messages[i + 1].results[k], <<i, k>>)
        BY DEF EveryCallAnswered
    <2>1. (messages[i].role = "assistant") = (i % 2 = 0)
        BY DEF AgentInv, TurnsTaken
    <2>2. ASSUME messages[i].uses # << >> PROVE i < Len(messages) /\ AnsweredAt(i)
        <3>1. i # Len(messages)
            BY <2>2 DEF AgentInv, TurnsTaken
        <3>2. i \in 1 .. Len(messages) - 1 /\ i < Len(messages)
            BY <3>1 DEF AgentInv, AgentTypeOK
        <3> QED
            BY <3>2 DEF AgentInv, Past
    <2> QED
        BY <2>1, <2>2 DEF AnsweredAt
<1> QED
    BY <1>1, AgentInvHolds, PTL

-----------------------------------------------------------------------------
(***************************************************************************)
(* The reader of a list.                                                   *)
(***************************************************************************)
(***************************************************************************)
(* The inductive invariant.                                                *)
(***************************************************************************)
\* A row the reader has been shown has its key for good, and a row that is
\* owed is in the list.
KeysGiven ==
    /\ \A x \in seen : status[x] # "absent"
    /\ \A x \in owed : status[x] = "listed"

\* Before the last page: what was shown lies behind the cursor, and what is
\* owed was shown or lies ahead.
Divided ==
    ~done =>
        /\ \A x \in seen : ~Ahead(x)
        /\ \A x \in owed : x \in seen \/ Ahead(x)

PagingInv ==
    /\ TypeOK
    /\ KeysGiven
    /\ Divided
    /\ page \subseteq seen
    /\ PagesAscend
    /\ OwedListed

(***************************************************************************)
(* The order of the list, and what LIMIT returns.                          *)
(***************************************************************************)
\* A key is a key.
LEMMA KeyType ==
    ASSUME TypeOK, NEW x \in Rows
    PROVE  Key(x) \in Nat \X Rows
BY DEF TypeOK, Key

\* Whatever does not follow a key comes before whatever does.
LEMMA Order ==
    ASSUME NEW k \in Nat \X Rows, NEW l \in Nat \X Rows, NEW m \in Nat \X Rows
    PROVE  /\ ~Precedes(k, k)
           /\ ~(Precedes(k, l) /\ Precedes(l, k))
           /\ Precedes(k, l) /\ Precedes(l, m) => Precedes(k, m)
           /\ ~Precedes(k, l) /\ Precedes(k, m) => Precedes(l, m)
<1>1. k[1] \in Int /\ l[1] \in Int /\ m[1] \in Int
    OBVIOUS
<1>2. k[2] \in Int /\ l[2] \in Int /\ m[2] \in Int
    BY PagingAssumption
<1>3. QED
    BY <1>1, <1>2 DEF Precedes

\* A page that is not full is everything there was.
LEMMA FirstsAll ==
    ASSUME NEW S, IsFiniteSet(S), NEW n \in Nat, NEW F \in Firsts(S, n)
    PROVE  /\ F \subseteq S /\ IsFiniteSet(F)
           /\ Cardinality(F) \in Nat /\ Cardinality(F) <= n
           /\ Cardinality(F) < n => F = S
           /\ Cardinality(S) <= n => F = S
<1>1. F \subseteq S
    BY DEF Firsts
<1>2. Cardinality(F) = (IF Cardinality(S) <= n THEN Cardinality(S) ELSE n)
    BY DEF Firsts
<1>3. Cardinality(S) \in Nat
    BY FS_CardinalityType
<1>4. IsFiniteSet(F) /\ (Cardinality(S) = Cardinality(F) => S = F)
    BY <1>1, FS_Subset
<1>5. QED
    BY <1>1, <1>2, <1>3, <1>4

(***************************************************************************)
(* The list changes.                                                       *)
(***************************************************************************)
\* While keys stay and nothing becomes owed that lies behind, the traversal
\* remains what it was.
LEMMA ListStep ==
    ASSUME PagingInv, TypeOK', KeysGiven', UNCHANGED traversal,
           \A x \in Rows : status[x] # "absent" => created'[x] = created[x],
           \A x \in owed' : x \in owed \/ (~done /\ Ahead(x) /\ status[x] # "absent")
    PROVE  PagingInv'
<1>1. seen \subseteq Rows /\ owed \subseteq Rows /\ page \subseteq Rows /\ owed' \subseteq Rows
    BY DEF PagingInv, TypeOK
<1>2. /\ UNCHANGED <<cursor, done, page, seen, again>>
      /\ \A x \in Rows : status[x] # "absent" => (Key(x)' = Key(x) /\ (Ahead(x)' <=> Ahead(x)))
    BY DEF traversal, Key, Ahead
<1>3. (\A x \in seen : status[x] # "absent") /\ (\A x \in owed : status[x] # "absent")
    BY DEF PagingInv, KeysGiven
<1>4. Divided'
    <2>1. ASSUME ~done PROVE \A x \in seen : ~Ahead(x)'
        BY <2>1, <1>1, <1>2, <1>3 DEF PagingInv, Divided
    <2>2. ASSUME ~done, NEW x \in owed' PROVE x \in seen \/ Ahead(x)'
        BY <2>2, <1>1, <1>2, <1>3 DEF PagingInv, Divided
    <2>3. QED
        BY <2>1, <2>2, <1>2 DEF Divided
<1>5. PagesAscend'
    <2>1. \A x \in page, y \in seen \ page : Precedes(Key(y), Key(x))
        BY DEF PagingInv, PagesAscend
    <2>2. \A x \in seen : Key(x)' = Key(x)
        BY <1>1, <1>2, <1>3
    <2>3. page \subseteq seen /\ again = {}
        BY DEF PagingInv, PagesAscend
    <2>4. ASSUME NEW x \in page, NEW y \in seen \ page PROVE Precedes(Key(y), Key(x))'
        BY <2>1, <2>2, <2>3 DEF Precedes
    <2>5. QED
        BY <2>3, <2>4, <1>2 DEF PagesAscend
<1>6. OwedListed'
    BY <1>2 DEF PagingInv, OwedListed
<1>7. (page \subseteq seen)'
    BY <1>2 DEF PagingInv
<1>8. QED
    BY <1>4, <1>5, <1>6, <1>7 DEF PagingInv

LEMMA TickStep ==
    ASSUME PagingInv, Tick
    PROVE  PagingInv'
<1>1. TypeOK' /\ KeysGiven'
    BY PagingAssumption DEF PagingInv, TypeOK, KeysGiven, Tick, traversal
<1>2. UNCHANGED traversal /\ UNCHANGED <<created, owed>>
    BY DEF Tick
<1>3. QED
    BY <1>1, <1>2, ListStep

LEMMA BeginStep ==
    ASSUME PagingInv, NEW x \in Rows, Begin(x)
    PROVE  PagingInv'
<1>1. TypeOK' /\ KeysGiven'
    BY DEF PagingInv, TypeOK, KeysGiven, Begin, traversal
<1>2. UNCHANGED traversal /\ UNCHANGED owed
    BY DEF Begin
<1>3. \A y \in Rows : status[y] # "absent" => created'[y] = created[y]
    BY DEF Begin, PagingInv, TypeOK
<1>4. QED
    BY <1>1, <1>2, <1>3, ListStep

LEMMA EnterStep ==
    ASSUME PagingInv, NEW x \in Rows, status[x] # "absent", Enter(x)
    PROVE  PagingInv'
<1>1. TypeOK' /\ KeysGiven'
    BY DEF PagingInv, TypeOK, KeysGiven, Enter, traversal
<1>2. UNCHANGED traversal /\ UNCHANGED created
    BY DEF Enter
<1>3. \A y \in owed' : y \in owed \/ (~done /\ Ahead(y) /\ status[y] # "absent")
    BY DEF Enter
<1>4. QED
    BY <1>1, <1>2, <1>3, ListStep

LEMMA LeaveStep ==
    ASSUME PagingInv, NEW x \in Rows, NEW how \in {"unlisted", "gone"}, Leave(x, how)
    PROVE  PagingInv'
<1>1. TypeOK' /\ KeysGiven'
    BY DEF PagingInv, TypeOK, KeysGiven, Leave, traversal
<1>2. UNCHANGED traversal /\ UNCHANGED created /\ owed' \subseteq owed
    BY DEF Leave
<1>3. QED
    BY <1>1, <1>2, ListStep

(***************************************************************************)
(* The reader.                                                             *)
(***************************************************************************)
LEMMA PageStep ==
    ASSUME PagingInv, NEW limit \in Limits, Page(limit)
    PROVE  PagingInv'
<1>. DEFINE S == {x \in Listed : Ahead(x)}
<1>1. ~done /\ limit \in Nat /\ limit >= 1 /\ limit <= MaxLimit
    BY PagingAssumption DEF Page, Limits, LimitOf, Accepted
<1>0. PICK fetched \in Firsts(S, limit + 1) : \E rows \in Trimmed(fetched, limit) :
        /\ page' = rows
        /\ seen' = seen \cup rows
        /\ again' = again \cup (seen \cap rows)
        /\ IF Cardinality(fetched) > limit
           THEN cursor' \in CursorOf(fetched, rows) /\ UNCHANGED done
           ELSE done' = TRUE /\ UNCHANGED cursor
    BY DEF Page
<1>2. PICK rows \in Trimmed(fetched, limit) :
        /\ page' = rows
        /\ seen' = seen \cup rows
        /\ again' = again \cup (seen \cap rows)
        /\ IF Cardinality(fetched) > limit
           THEN cursor' \in CursorOf(fetched, rows) /\ UNCHANGED done
           ELSE done' = TRUE /\ UNCHANGED cursor
    BY <1>0
<1>3. UNCHANGED <<clock, status, created, owed>>
    BY DEF Page, table
<1>4. S \subseteq Rows /\ IsFiniteSet(S)
    <2>1. S \subseteq Rows
        BY DEF Listed
    <2>2. QED
        BY <2>1, PagingAssumption, FS_Subset
<1>5. /\ fetched \subseteq S /\ IsFiniteSet(fetched) /\ Cardinality(fetched) \in Nat
      /\ Cardinality(fetched) < limit + 1 => fetched = S
    BY <1>1, <1>4, FirstsAll
<1>6. /\ rows \subseteq fetched /\ Cardinality(rows) \in Nat /\ Cardinality(rows) <= limit
      /\ Cardinality(fetched) <= limit => rows = fetched
    BY <1>1, <1>5, FirstsAll DEF Trimmed
<1>7. \A x \in Rows : Key(x) \in Nat \X Rows /\ Key(x)' = Key(x)
    BY <1>3, KeyType DEF PagingInv, Key
<1>8. seen \subseteq Rows /\ owed \subseteq S \cup seen /\ \A x \in seen : ~Ahead(x)
    BY <1>1 DEF PagingInv, TypeOK, Divided, KeysGiven, Listed
<1>9. ASSUME NEW x \in S, NEW y \in seen
      PROVE  x # y /\ Precedes(Key(y), Key(x))
    <2>1. Ahead(x) /\ ~Ahead(y) /\ x \in Rows /\ y \in Rows
        BY <1>4, <1>8
    <2>2. cursor # NoCursor /\ cursor \in Nat \X Rows
        BY <2>1 DEF Ahead, PagingInv, TypeOK
    <2>3. Precedes(cursor, Key(x)) /\ ~Precedes(cursor, Key(y))
        BY <2>1, <2>2 DEF Ahead
    <2>4. QED
        BY <2>1, <2>2, <2>3, <1>7, Order
<1>10. cursor' \in (Nat \X Rows) \cup {NoCursor} /\ done' \in BOOLEAN
    <2>1. CASE Cardinality(fetched) > limit
        <3>1. PICK last \in Lasts(rows) : cursor' = Key(last)
            BY <2>1, <1>2 DEF CursorOf
        <3>2. last \in Rows
            BY <1>4, <1>5, <1>6 DEF Lasts
        <3>3. done' = done
            BY <2>1, <1>2
        <3>4. QED
            BY <3>1, <3>2, <3>3, <1>7 DEF PagingInv, TypeOK
    <2>2. CASE ~(Cardinality(fetched) > limit)
        BY <2>2, <1>2 DEF PagingInv, TypeOK
    <2>3. QED
        BY <2>1, <2>2
<1>11. TypeOK'
    <2>1. rows \subseteq Rows /\ Cardinality(rows) <= MaxLimit
        BY <1>1, <1>4, <1>5, <1>6, PagingAssumption
    <2>2. QED
        BY <2>1, <1>2, <1>3, <1>10 DEF PagingInv, TypeOK
<1>12. KeysGiven'
    BY <1>2, <1>3, <1>5, <1>6 DEF PagingInv, KeysGiven, Listed
<1>13. PagesAscend'
    <2>1. again' = {}
        BY <1>2, <1>5, <1>6, <1>9 DEF PagingInv, PagesAscend
    <2>2. ASSUME NEW x \in rows, NEW y \in seen PROVE Precedes(Key(y), Key(x))'
        <3>1. Precedes(Key(y), Key(x)) /\ x \in Rows /\ y \in Rows
            BY <1>4, <1>5, <1>6, <1>8, <1>9
        <3>2. QED
            BY <3>1, <1>7 DEF Precedes
    <2>3. QED
        BY <2>1, <2>2, <1>2 DEF PagesAscend
<1>14. Divided'
    <2>1. SUFFICES ASSUME ~done'
                   PROVE  /\ \A x \in seen' : ~Ahead(x)'
                          /\ \A x \in owed' : x \in seen' \/ Ahead(x)'
        BY DEF Divided
    <2>2. PICK last \in Lasts(rows) : cursor' = Key(last)
        BY <1>2, <2>1 DEF CursorOf
    <2>3. /\ last \in rows /\ last \in S /\ last \in Rows
          /\ \A x \in rows : ~Precedes(Key(last), Key(x))
        BY <2>2, <1>4, <1>5, <1>6 DEF Lasts
    <2>4. \A x \in Rows : Ahead(x)' <=> Precedes(Key(last), Key(x))
        BY <2>2, <2>3, <1>7, PagingAssumption DEF Ahead
    <2>5. ASSUME NEW x \in seen' PROVE ~Ahead(x)'
        <3>1. x \in Rows
            BY <1>2, <1>4, <1>5, <1>6, <1>8
        <3>2. CASE x \in rows
            BY <3>1, <3>2, <2>3, <2>4
        <3>3. CASE x \in seen
            BY <3>1, <3>3, <2>3, <2>4, <1>7, <1>9, Order
        <3>4. QED
            BY <1>2, <3>2, <3>3
    <2>6. ASSUME NEW x \in owed', x \notin seen' PROVE Ahead(x)'
        <3>1. x \in S /\ x \in Rows /\ x \notin rows
            BY <2>6, <1>2, <1>3, <1>4, <1>8
        <3>2. CASE x \in fetched
            <4>1. Precedes(Key(last), Key(x))
                BY <3>1, <3>2, <2>3 DEF Trimmed, Firsts
            <4>2. QED
                BY <4>1, <3>1, <2>4
        <3>3. CASE x \notin fetched
            <4>1. Precedes(Key(last), Key(x))
                BY <3>1, <3>3, <2>3, <1>6 DEF Firsts
            <4>2. QED
                BY <4>1, <3>1, <2>4
        <3>4. QED
            BY <3>2, <3>3
    <2>7. QED
        BY <2>5, <2>6
<1>15. OwedListed'
    <2>1. ASSUME done' PROVE owed \subseteq seen'
        <3>1. Cardinality(fetched) <= limit
            <4>1. CASE Cardinality(fetched) > limit
                BY <4>1, <2>1, <1>1, <1>2
            <4>2. QED
                BY <4>1, <1>1, <1>5
        <3>2. rows = S
            BY <3>1, <1>1, <1>5, <1>6
        <3>3. QED
            BY <3>2, <1>2, <1>8
    <2>2. QED
        BY <2>1, <1>3 DEF OwedListed
<1>16. QED
    BY <1>2, <1>11, <1>12, <1>13, <1>14, <1>15 DEF PagingInv

(***************************************************************************)
(* The theorems.                                                           *)
(***************************************************************************)
THEOREM PagingInvInit == Init => PagingInv
<1>. SUFFICES ASSUME Init PROVE PagingInv
    OBVIOUS
<1>1. TypeOK
    <2>1. page = {} /\ Cardinality(page) <= MaxLimit
        BY PagingAssumption, FS_EmptySet DEF Init
    <2>2. clock \in 0 .. MaxClock /\ created \in [Rows -> 0 .. MaxClock]
        BY PagingAssumption DEF Init
    <2>3. QED
        BY <2>1, <2>2 DEF Init, TypeOK, Listed
<1>2. QED
    BY <1>1 DEF Init, PagingInv, KeysGiven, Divided, PagesAscend, OwedListed, Listed, Ahead

THEOREM PagingInvNext == PagingInv /\ [Next]_vars => PagingInv'
<1>. SUFFICES ASSUME PagingInv, [Next]_vars PROVE PagingInv'
    OBVIOUS
<1>1. CASE Tick
    BY <1>1, TickStep
<1>2. ASSUME NEW x \in Rows, Change(x) PROVE PagingInv'
    <2>1. CASE Begin(x)
        BY <2>1, BeginStep
    <2>2. CASE Commit(x)
        BY <2>2, EnterStep, LeaveStep DEF Commit
    <2>3. CASE Rollback(x)
        BY <2>3, LeaveStep DEF Rollback
    <2>4. CASE Delete(x)
        BY <2>4, LeaveStep DEF Delete
    <2>5. CASE Join(x)
        BY <2>5, EnterStep DEF Join
    <2>6. CASE Quit(x)
        BY <2>6, LeaveStep DEF Quit
    <2>7. QED
        BY <1>2, <2>1, <2>2, <2>3, <2>4, <2>5, <2>6 DEF Change
<1>3. ASSUME NEW limit \in Limits, Page(limit) PROVE PagingInv'
    BY <1>3, PageStep
<1>4. CASE Idle \/ UNCHANGED vars
    <2>1. UNCHANGED vars
        BY <1>4 DEF Idle
    <2>2. UNCHANGED traversal /\ UNCHANGED <<clock, status, created, owed>>
        BY <2>1 DEF vars, traversal
    <2>3. TypeOK' /\ KeysGiven'
        BY <2>2 DEF PagingInv, TypeOK, KeysGiven, traversal
    <2>4. QED
        BY <2>2, <2>3, ListStep
<1>5. QED
    BY <1>1, <1>2, <1>3, <1>4 DEF Next

\* The types of Paging.tla, for every list, every set of limits and every
\* clock: in particular no page is larger than the limit allows.
THEOREM PagingTypeCorrect == Spec => []TypeOK
<1>1. PagingInv => TypeOK
    BY DEF PagingInv
<1>2. QED
    BY PagingInvInit, PagingInvNext, <1>1, PTL DEF Spec

\* List, called again with the cursor it returned, repeats no row and goes
\* on after the last one, whatever is inserted and deleted meanwhile.
THEOREM NothingRepeated == Spec => []PagesAscend
<1>1. PagingInv => PagesAscend
    BY DEF PagingInv
<1>2. QED
    BY PagingInvInit, PagingInvNext, <1>1, PTL DEF Spec

\* When List returns no cursor, every row that stayed in the list since the
\* traversal began, or came into it ahead of the cursor, has been returned.
THEOREM NothingOwedSkipped == Spec => []OwedListed
<1>1. PagingInv => OwedListed
    BY DEF PagingInv
<1>2. QED
    BY PagingInvInit, PagingInvNext, <1>1, PTL DEF Spec
=============================================================================

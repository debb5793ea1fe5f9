----------------------------- MODULE AgentLoop -----------------------------
(***************************************************************************)
(* The turn loop of kensan-ai's agent: AgentRunner.stream_sse (Anthropic)  *)
(* and GeminiAgentRunner.stream_sse (Google), the message history they     *)
(* share with the conversation, and the generator that relays the events   *)
(* of the loop to the response.                                            *)
(*                                                                         *)
(* A run is one call of stream_sse on the conversation modelled.  The loop *)
(* runs as a task of its own (_run_agent): it is not cancelled when its    *)
(* response is abandoned, and goes on writing the history.  The LLM may    *)
(* call any tools in each turn, offered or not, or fail.                   *)
(***************************************************************************)
EXTENDS Naturals, Sequences, FiniteSets

CONSTANTS
  Providers,    \* values of settings.ai_provider: "anthropic", "google"
  Run,          \* the runs on this conversation
  Tool,         \* tool names
  ReadOnly,     \* those registered as readonly; an unknown tool is not
  Contexts,     \* allowed_tools of the AI contexts a message may resolve to
  Selections,   \* what select_tools may pick for a message
  WritesOf,     \* READ_TOOL_TO_WRITE_GROUPS, with the tools of its groups
  MaxTurns,     \* max_turns
  MaxCalls,     \* bound on the calls the model makes in all
  MaxAbandoned  \* bound on the responses the client abandons

ASSUME ProviderAssumption == Providers \subseteq {"anthropic", "google"}
ASSUME ToolAssumption ==
  /\ ReadOnly \subseteq Tool
  /\ Contexts \subseteq SUBSET Tool /\ Selections \subseteq SUBSET Tool
  /\ WritesOf \in [Tool -> SUBSET Tool]
ASSUME BoundAssumption ==
  MaxTurns \in Nat \ {0} /\ MaxCalls \in Nat \ {0} /\ MaxAbandoned \in Nat

VARIABLES
  provider,  \* settings.ai_provider, read when a runner is made
  messages,  \* state.message_history.messages
  open,      \* state.pending_actions is not empty
  pc,        \* where the task _run_agent of each run is
  turn,      \* its turn, from 1 (turn + 1 in the code)
  made,      \* what its runner was made with, and the context's tools
  offered,   \* allowed_tools of the runner
  deferred,  \* its deferred_tools, {} for None
  reading,   \* the readonly calls being executed
  executed,  \* the calls whose tool was executed
  pending,   \* the local list pending_actions
  nudged,    \* which nudges were used
  queue,     \* events in event_queue: one for a text, two for a readonly call
  response   \* where the generator of the response is

taskVars == <<pc, turn, made, offered, deferred, reading, executed, pending, nudged>>
vars == <<provider, messages, open, taskVars, queue, response>>

\* A tool call: its run and turn, the model response it came in (2 is the
\* answer to Gemini's second, non-streaming request), its place and its tool.
Call == [run: Run, turn: 1..MaxTurns, resp: 1..2, n: 1..MaxCalls, tool: Tool]

Type == {"user", "notice", "assistant", "results", "toolnudge", "writenudge"}

Message == [type: Type, run: Run, calls: SUBSET Call]

Entry(t, r, S) == [type |-> t, run |-> r, calls |-> S]

Init ==
  /\ provider \in Providers
  /\ messages = <<>>
  /\ open = FALSE
  /\ pc = [r \in Run |-> "unused"]
  /\ turn = [r \in Run |-> 1]
  /\ made = [r \in Run |-> [base |-> {}, tools |-> {}, later |-> {}]]
  /\ offered = [r \in Run |-> {}]
  /\ deferred = [r \in Run |-> {}]
  /\ reading = [r \in Run |-> {}]
  /\ executed = [r \in Run |-> {}]
  /\ pending = [r \in Run |-> {}]
  /\ nudged = [r \in Run |-> {}]
  /\ queue = [r \in Run |-> 0]
  /\ response = [r \in Run |-> "none"]

Abandoned == {r \in Run : response[r] = "abandoned"}

\* The write tools that wait for a reading: those of the groups that belong
\* to the selected tools, as far as the context allows them.
DeferredFor(S, A) == {t \in A \ ReadOnly : \E u \in S : t \in WritesOf[u]}

\* The runners a message may get in a context that allows A.  One that sets a
\* proposal aside is taken for a request to change it and gets all of A.
Runners_AlwaysSelect(A) ==
  {[base |-> A, tools |-> S \cap A, later |-> DeferredFor(S \cap A, A)] : S \in Selections}

Runners(A) ==
  IF open THEN {[base |-> A, tools |-> A, later |-> {}]}
          ELSE {[base |-> A, tools |-> S \cap A, later |-> DeferredFor(S \cap A, A)]
                  : S \in Selections}

\* The client sends a message when the last response has ended for it.  A
\* proposal still open is set aside with a notice; the loop becomes a task.
Start(r) ==
  /\ response[r] = "none"
  /\ \A q \in Run : response[q] # "relaying"
  /\ \E A \in Contexts : \E m \in Runners(A) :
       /\ made' = [made EXCEPT ![r] = m]
       /\ offered' = [offered EXCEPT ![r] = m.tools]
       /\ deferred' = [deferred EXCEPT ![r] = m.later]
  /\ messages' = messages \o (IF open THEN <<Entry("notice", r, {})>> ELSE <<>>)
                          \o <<Entry("user", r, {})>>
  /\ open' = FALSE
  /\ pc' = [pc EXCEPT ![r] = "asking"]
  /\ response' = [response EXCEPT ![r] = "relaying"]
  /\ UNCHANGED <<turn, reading, executed, pending, nudged, queue>>

\* The user approved or rejected the open proposal: a notice says so.
Settle(r) ==
  /\ open
  /\ \A q \in Run : response[q] # "relaying"
  /\ response[r] = "ended"
  /\ open' = FALSE
  /\ messages' = Append(messages, Entry("notice", r, {}))
  /\ UNCHANGED <<taskVars, queue, response>>

-----------------------------------------------------------------------------
(***************************************************************************)
(* _run_agent.                                                             *)
(***************************************************************************)
Said(r) == {i \in 1..Len(messages) : messages[i].type = "assistant" /\ messages[i].run = r}

CallsOf(r) == UNION {messages[i].calls : i \in Said(r)}

\* The calls of one model response.
Batches(r, p) ==
  LET spent == Cardinality(UNION {CallsOf(q) : q \in Run})
      Sizes == {k \in 0..MaxCalls : spent + k <= MaxCalls}
  IN UNION {{{[run |-> r, turn |-> turn[r], resp |-> p, n |-> i, tool |-> f[i]] : i \in 1..k}
               : f \in [1..k -> Tool]} : k \in Sizes}

\* The model's answer.  Gemini's stream may break after some calls; then a
\* non-streaming request is made and its calls are added to those.
Answers(r) ==
  {S \in IF provider = "google"
           THEN {S1 \cup S2 : S1 \in Batches(r, 1), S2 \in Batches(r, 2)}
           ELSE Batches(r, 1)
     : Cardinality(S \cup UNION {CallsOf(q) : q \in Run}) <= MaxCalls}

Reads(S) == {c \in S : c.tool \in ReadOnly}

NextTurn_Unbounded(r) ==
  /\ pc' = [pc EXCEPT ![r] = "asking"]
  /\ turn' = [turn EXCEPT ![r] = @ + 1]

\* The next round of the for loop, or its else branch.
NextTurn(r) ==
  IF turn[r] < MaxTurns
    THEN /\ pc' = [pc EXCEPT ![r] = "asking"]
         /\ turn' = [turn EXCEPT ![r] = @ + 1]
    ELSE /\ pc' = [pc EXCEPT ![r] = "finished"]
         /\ UNCHANGED turn

Break(r) == pc' = [pc EXCEPT ![r] = "finished"] /\ UNCHANGED turn

\* Computed when the loop begins, from both lists.
HasWriteTools(r) == (made[r].tools \cup made[r].later) \ ReadOnly # {}

NudgeTools(r) ==
  /\ provider = "anthropic"
  /\ turn[r] = 1 /\ "tool" \notin nudged[r] /\ offered[r] # {}

NudgeWrite_Again(r) ==
  /\ provider = "anthropic"
  /\ HasWriteTools(r) /\ "write" \notin nudged[r] /\ turn[r] > 1

NudgeWrite(r) ==
  /\ provider = "anthropic"
  /\ HasWriteTools(r) /\ pending[r] = {} /\ "write" \notin nudged[r] /\ turn[r] > 1

\* A response without calls: the model is nudged to use its tools, or the
\* loop ends.
AnswerText(r) ==
  LET said == Append(messages, Entry("assistant", r, {})) IN
  /\ pc[r] = "asking"
  /\ \/ /\ NudgeTools(r)
        /\ messages' = Append(said, Entry("toolnudge", r, {}))
        /\ nudged' = [nudged EXCEPT ![r] = @ \cup {"tool"}]
        /\ NextTurn(r)
     \/ /\ ~NudgeTools(r) /\ NudgeWrite(r)
        /\ messages' = Append(said, Entry("writenudge", r, {}))
        /\ nudged' = [nudged EXCEPT ![r] = @ \cup {"write"}]
        /\ NextTurn(r)
     \/ /\ ~NudgeTools(r) /\ ~NudgeWrite(r)
        /\ messages' = said
        /\ Break(r)
        /\ UNCHANGED nudged
  /\ queue' = [queue EXCEPT ![r] = @ + 1]
  /\ UNCHANGED <<open, made, offered, deferred, reading, executed, pending, response>>

\* A response with readonly calls: they are started in parallel.
AnswerReads(r) ==
  /\ pc[r] = "asking"
  /\ \E S \in Answers(r) :
       /\ Reads(S) # {}
       /\ messages' = Append(messages, Entry("assistant", r, S))
       /\ reading' = [reading EXCEPT ![r] = Reads(S)]
       /\ queue' = [queue EXCEPT ![r] = @ + Cardinality(Reads(S))]
  /\ pc' = [pc EXCEPT ![r] = "reading"]
  /\ UNCHANGED <<open, turn, made, offered, deferred, executed, pending, nudged, response>>

\* A response with write calls only: each becomes a pending action with a
\* result that says so, and the loop ends.
AnswerWrites(r) ==
  /\ pc[r] = "asking"
  /\ \E S \in Answers(r) :
       /\ S # {} /\ Reads(S) = {}
       /\ messages' = messages \o <<Entry("assistant", r, S), Entry("results", r, S)>>
       /\ pending' = [pending EXCEPT ![r] = @ \cup S]
  /\ Break(r)
  /\ UNCHANGED <<open, made, offered, deferred, reading, executed, nudged, queue, response>>

\* A readonly tool returns, or raises, which becomes an error result.
FinishRead(r, c) ==
  /\ pc[r] = "reading" /\ c \in reading[r]
  /\ reading' = [reading EXCEPT ![r] = @ \ {c}]
  /\ executed' = [executed EXCEPT ![r] = @ \cup {c}]
  /\ UNCHANGED <<messages, open, pc, turn, made, offered, deferred, pending, nudged,
                 queue, response>>

\* The calls of the run's last assistant message.
LastCalls(r) ==
  LET i == CHOOSE i \in 1..Len(messages) :
             /\ messages[i].type = "assistant" /\ messages[i].run = r
             /\ \A j \in i+1..Len(messages) :
                  ~(messages[j].type = "assistant" /\ messages[j].run = r)
  IN messages[i].calls

Collect_LastTurnOnly(r) ==
  LET S == LastCalls(r) IN
  /\ pc[r] = "reading" /\ reading[r] = {}
  /\ pending' = [pending EXCEPT ![r] = S \ Reads(S)]
  /\ messages' = Append(messages, Entry("results", r, S))
  /\ NextTurn(r)
  /\ UNCHANGED <<open, made, offered, deferred, reading, executed, nudged, queue, response>>

Collect_ReadResultsOnly(r) ==
  LET S == LastCalls(r) IN
  /\ pc[r] = "reading" /\ reading[r] = {}
  /\ pending' = [pending EXCEPT ![r] = @ \cup (S \ Reads(S))]
  /\ messages' = Append(messages, Entry("results", r, Reads(S)))
  /\ NextTurn(r)
  /\ UNCHANGED <<open, made, offered, deferred, reading, executed, nudged, queue, response>>

\* All readonly calls have ended: the write calls of the response become
\* pending, deferred tools are unlocked, all results are added in one
\* message and the next turn begins, unless the model said end_turn.
Collect(r) ==
  LET S == LastCalls(r) IN
  /\ pc[r] = "reading" /\ reading[r] = {}
  /\ pending' = [pending EXCEPT ![r] = @ \cup (S \ Reads(S))]
  /\ offered' = [offered EXCEPT ![r] = @ \cup deferred[r]]
  /\ deferred' = [deferred EXCEPT ![r] = {}]
  /\ messages' = Append(messages, Entry("results", r, S))
  /\ queue' = [queue EXCEPT ![r] = @ + Cardinality(Reads(S))]
  /\ \/ NextTurn(r)
     \/ provider = "anthropic" /\ Break(r)
  /\ UNCHANGED <<open, made, reading, executed, nudged, response>>

\* The model API fails: the task ends with an exception.
Fail(r) ==
  /\ pc[r] = "asking"
  /\ pc' = [pc EXCEPT ![r] = "failed"]
  /\ UNCHANGED <<messages, open, turn, made, offered, deferred, reading, executed,
                 pending, nudged, queue, response>>

-----------------------------------------------------------------------------
(***************************************************************************)
(* The generator: polls the queue and the task, relays, then concludes.    *)
(***************************************************************************)
Relay(r) ==
  /\ response[r] = "relaying" /\ queue[r] > 0
  /\ queue' = [queue EXCEPT ![r] = @ - 1]
  /\ UNCHANGED <<messages, open, taskVars, response>>

Conclude_NoDrain(r) ==
  /\ response[r] = "relaying" /\ pc[r] = "finished"
  /\ response' = [response EXCEPT ![r] = "ended"]
  /\ open' = (pending[r] # {})
  /\ UNCHANGED <<messages, taskVars, queue>>

Conclude_FinishedOnly(r) ==
  /\ response[r] = "relaying" /\ pc[r] = "finished"
  /\ queue' = [queue EXCEPT ![r] = 0]
  /\ response' = [response EXCEPT ![r] = "ended"]
  /\ open' = (pending[r] # {})
  /\ UNCHANGED <<messages, taskVars>>

\* The task is done: what is left in the queue is relayed, then come the
\* proposal and "done", and the conversation keeps the proposal; after an
\* exception none of these.
Conclude(r) ==
  /\ response[r] = "relaying" /\ pc[r] \in {"finished", "failed"}
  /\ queue' = [queue EXCEPT ![r] = 0]
  /\ \/ /\ pc[r] = "finished"
        /\ response' = [response EXCEPT ![r] = "ended"]
        /\ open' = (pending[r] # {})
     \/ /\ pc[r] = "failed"
        /\ response' = [response EXCEPT ![r] = "broken"]
        /\ UNCHANGED open
  /\ UNCHANGED <<messages, taskVars>>

\* The client leaves and the generator is closed: the task is not cancelled.
Abandon(r) ==
  /\ response[r] = "relaying"
  /\ Cardinality(Abandoned) < MaxAbandoned
  /\ response' = [response EXCEPT ![r] = "abandoned"]
  /\ UNCHANGED <<messages, open, taskVars, queue>>

\* What the loop does with one model response, in either runner.
Answer(r) == AnswerText(r) \/ AnswerReads(r) \/ AnswerWrites(r) \/ Fail(r)

Task(r) == Answer(r) \/ (\E c \in reading[r] : FinishRead(r, c)) \/ Collect(r)

Next ==
  /\ \E r \in Run : Start(r) \/ Settle(r) \/ Task(r) \/ Relay(r) \/ Conclude(r) \/ Abandon(r)
  /\ UNCHANGED provider

Spec == Init /\ [][Next]_vars

\* The event loop runs every task and generator; a model request ends, with
\* an answer or an error, because the API client has a timeout; so do tools.
FairSpec ==
  /\ Spec
  /\ \A r \in Run : /\ WF_vars(Task(r) /\ UNCHANGED provider)
                    /\ WF_vars((Relay(r) \/ Conclude(r)) /\ UNCHANGED provider)

-----------------------------------------------------------------------------
(***************************************************************************)
(* Properties.                                                             *)
(***************************************************************************)
TypeOK ==
  /\ provider \in Providers
  /\ messages \in Seq(Message)
  /\ open \in BOOLEAN
  /\ pc \in [Run -> {"unused", "asking", "reading", "finished", "failed"}]
  /\ turn \in [Run -> 1..MaxTurns]
  /\ made \in [Run -> [base: SUBSET Tool, tools: SUBSET Tool, later: SUBSET Tool]]
  /\ offered \in [Run -> SUBSET Tool]
  /\ deferred \in [Run -> SUBSET Tool]
  /\ reading \in [Run -> SUBSET Call]
  /\ executed \in [Run -> SUBSET Call]
  /\ pending \in [Run -> SUBSET Call]
  /\ nudged \in [Run -> SUBSET {"tool", "write"}]
  /\ queue \in [Run -> Nat]
  /\ response \in [Run -> {"none", "relaying", "ended", "broken", "abandoned"}]

\* The Anthropic API format add_tool_results refers to: the message after an
\* assistant message with tool calls holds the results of exactly these.
HistoryPaired ==
  \A i \in 1..Len(messages) - 1 :
    messages[i].type = "assistant" /\ messages[i].calls # {} =>
      /\ messages[i + 1].type = "results"
      /\ messages[i + 1].calls = messages[i].calls

\* When a response ends, each tool call the model made in it was dealt with
\* in one way: a readonly tool was executed, a write became a proposed
\* action; nothing was dropped by a later turn and nothing was added.
ProposalComplete ==
  \A r \in Run : pc[r] = "finished" =>
    /\ executed[r] = Reads(CallsOf(r))
    /\ pending[r] = CallsOf(r) \ Reads(CallsOf(r))

\* The client has seen every event of the run before "done" ends it.
EventsDelivered == \A r \in Run : response[r] = "ended" => queue[r] = 0

\* A run is pressed for a write at most once, after its first turn, not when
\* it has already proposed one, and only if it can be offered a write tool.
PressedOnce ==
  \A i, j \in 1..Len(messages) :
    messages[i].type = "writenudge" =>
      /\ messages[j].type = "writenudge" /\ messages[j].run = messages[i].run => i = j
      /\ j < i /\ messages[j].run = messages[i].run => messages[j].calls \subseteq Reads(messages[j].calls)
      /\ Cardinality({k \in Said(messages[i].run) : k < i}) > 1
      /\ HasWriteTools(messages[i].run)

\* Some request of run r carries the result of a readonly tool.
HasRead(r) ==
  \E i \in 1..Len(messages) :
    /\ messages[i].type = "results" /\ messages[i].run = r
    /\ Reads(messages[i].calls) # {}

\* The write tools that go with the selected ones are offered exactly from
\* the first turn whose model request carries the result of a readonly tool.
UnlockedByReading ==
  \A r \in Run : pc[r] = "asking" =>
    offered[r] = made[r].tools \cup (IF HasRead(r) THEN made[r].later ELSE {})

\* A message that sets an open proposal aside is answered with every tool of
\* its context from the first turn on (routes.py, 3.5: the agent shall treat
\* it as a modification request), and no message with a tool beyond these.
RevisionsUnrestricted ==
  /\ \A r \in Run : pc[r] = "asking" => offered[r] \subseteq made[r].base
  /\ \A i \in 1..Len(messages) - 1 :
       LET r == messages[i].run IN
       /\ messages[i].type = "notice"
       /\ messages[i + 1].type = "user" /\ messages[i + 1].run = r
       /\ pc[r] = "asking"
       => offered[r] = made[r].base

\* What the loop adds to a turn by itself, and what it may be answered with,
\* obey these rules: the nudge to write and the tools of each turn.
NudgeRules == PressedOnce /\ UnlockedByReading /\ RevisionsUnrestricted

\* Every response the client keeps reading comes to an end.
ResponseEnds == \A r \in Run : response[r] = "relaying" ~> response[r] # "relaying"
=============================================================================

------------------------- MODULE AgentConversation -------------------------
(***************************************************************************)
(* The proposal / approval flow of the kensan AI agent: one browser tab    *)
(* (ChatPanel on top of useChatStream), the three agent endpoints of       *)
(* kensan-ai (/agent/stream, /agent/approve, /agent/reject) and the        *)
(* in-memory ConversationStore they share.                                 *)
(*                                                                         *)
(* A request is named by a member of Req, used once.  A conversation id    *)
(* and the ConversationState object behind it are both named by the        *)
(* request that created them, so Req also names conversations and objects. *)
(* The handlers are asyncio coroutines: what lies between two awaits or    *)
(* yields is one action here.  The agent's own turn loop is summarised by  *)
(* AgentDone (the proposal it ends with) and FailRequest; AgentLoop models *)
(* it in full.  One user is modelled, the owner of every conversation.     *)
(***************************************************************************)
EXTENDS Naturals

CONSTANTS
  Req,        \* request ids (also conversation ids and state objects)
  Action,     \* ids of proposed write actions (uuid4 in the code)
  None,       \* no request, no conversation, no object
  Faults,     \* the kinds of trouble a run allows, a subset of FaultKinds
  MaxFaults   \* bound on how many of them happen

FaultKinds == {"giveup", "newchat", "latereject", "lostreject", "lapse", "restart"}

ASSUME NoneAssumption == None \notin Req
ASSUME FaultAssumption == Faults \subseteq FaultKinds /\ MaxFaults \in Nat

VARIABLES
  conv,       \* client: conversationId, None before the first "done" event
  busy,       \* client: isStreaming
  shown,      \* client: pendingActions is not null, so the cards are enabled
  cards,      \* client: the action_proposal messages in the chat log
  listening,  \* client: the requests whose response is being read
  current,    \* client: the stream request of abortControllerRef
  pc,         \* where each request is
  kind,       \* which endpoint it went to
  key,        \* its conversation id (request.conversation_id, then conv_id)
  ids,        \* approve: request.action_ids
  obj,        \* the ConversationState object its handler holds
  found,      \* stream: the local list pending_actions
  approved,   \* approve: the list approved
  todo,       \* approve: the members of approved still to execute
  refused,    \* approve: the list rejected
  succeeded,  \* approve: the actions counted as successes so far
  store,      \* conversation id -> object, the dict of ConversationStore
  lapsed,     \* conversation id -> its TTL has passed since last_activity_at
  pending,    \* object -> pending_actions
  history,    \* object -> the verdicts its message history tells the LLM
  minted,     \* action ids handed out
  ran,        \* <<r, a>>: request r applied write action a to the database
  faults      \* how many faults happened

clientVars  == <<conv, busy, shown, cards, listening, current>>
requestVars == <<pc, kind, key, ids, obj, found, approved, todo, refused, succeeded>>
serverVars  == <<store, lapsed, pending, history>>
vars == <<clientVars, requestVars, serverVars, minted, ran, faults>>

Kind == {"stream", "approve", "reject"}

\* sent: on its way; running: handler entered; done: about to yield "done";
\* tail: after the last yield; over: answered; lost: cancelled, failed or 404.
Place == {"unused", "sent", "running", "done", "tail", "over", "lost"}

Verdict == [action: Action, verdict: {"discarded", "rejected", "executed", "failed"}]

Verdicts(S, v) == {[action |-> a, verdict |-> v] : a \in S}

Init ==
  /\ conv = None /\ busy = FALSE /\ shown = FALSE
  /\ cards = {} /\ listening = {} /\ current = None
  /\ pc = [r \in Req |-> "unused"]
  /\ kind = [r \in Req |-> "stream"]
  /\ key = [r \in Req |-> None]
  /\ ids = [r \in Req |-> {}]
  /\ obj = [r \in Req |-> None]
  /\ found = [r \in Req |-> {}]
  /\ approved = [r \in Req |-> {}]
  /\ todo = [r \in Req |-> {}]
  /\ refused = [r \in Req |-> {}]
  /\ succeeded = [r \in Req |-> {}]
  /\ store = [k \in Req |-> None]
  /\ lapsed = [k \in Req |-> FALSE]
  /\ pending = [o \in Req |-> {}]
  /\ history = [o \in Req |-> {}]
  /\ minted = {} /\ ran = {} /\ faults = 0

Serving(r) == pc[r] \in {"running", "done", "tail"}

Fault(f) == f \in Faults /\ faults < MaxFaults /\ faults' = faults + 1

-----------------------------------------------------------------------------
(***************************************************************************)
(* The browser tab.                                                        *)
(***************************************************************************)
\* Without "latereject" a rejection overtakes nothing: it is handled before
\* the tab sends its next request.
InOrder ==
  \/ "latereject" \in Faults
  \/ \A r \in Req : ~(kind[r] = "reject" /\ pc[r] = "sent")

Send(r, k, S) ==
  /\ pc[r] = "unused"
  /\ InOrder
  /\ pc' = [pc EXCEPT ![r] = "sent"]
  /\ kind' = [kind EXCEPT ![r] = k]
  /\ key' = [key EXCEPT ![r] = conv]
  /\ ids' = [ids EXCEPT ![r] = S]
  /\ UNCHANGED <<obj, found, approved, todo, refused, succeeded, serverVars,
                 minted, ran, faults>>

\* The input box is disabled while streaming, not while a proposal is open.
SendMessage(r) ==
  /\ ~busy
  /\ Send(r, "stream", {})
  /\ busy' = TRUE
  /\ listening' = listening \cup {r}
  /\ current' = r
  /\ UNCHANGED <<conv, shown, cards>>

HandleApprove_NoLock(r) ==
  /\ ~busy /\ shown /\ conv # None
  /\ \E card \in cards : \E S \in (SUBSET card) \ {{}} : Send(r, "approve", S)
  /\ listening' = listening \cup {r}
  /\ UNCHANGED <<conv, busy, shown, cards, current>>

\* Every card of the log is enabled while any proposal is shown.
HandleApprove(r) ==
  /\ ~busy /\ shown /\ conv # None
  /\ \E card \in cards : \E S \in (SUBSET card) \ {{}} : Send(r, "approve", S)
  /\ shown' = FALSE
  /\ busy' = TRUE
  /\ listening' = listening \cup {r}
  /\ UNCHANGED <<conv, cards, current>>

\* The reject request is not awaited: the tab stays usable meanwhile.
HandleReject(r) ==
  /\ ~busy /\ shown /\ conv # None
  /\ Send(r, "reject", {})
  /\ shown' = FALSE
  /\ UNCHANGED <<conv, busy, cards, listening, current>>

\* Without a conversation id the card is closed and nothing is sent.
CloseCard ==
  /\ ~busy /\ shown /\ conv = None
  /\ shown' = FALSE
  /\ UNCHANGED <<conv, busy, cards, listening, current, requestVars, serverVars,
                 minted, ran, faults>>

StopReading_StaysBusy(r) ==
  /\ listening' = listening \ {r}
  /\ UNCHANGED busy

\* The for-await loop over response r ended and its finally block ran.
StopReading(r) ==
  /\ listening' = listening \ {r}
  /\ busy' = IF r \in listening THEN FALSE ELSE busy

\* The client stops waiting: 60 s without a response, 120 s without a chunk,
\* or a network error.  The server does not notice, or notices later (Cancel).
GiveUp(r) ==
  /\ Fault("giveup")
  /\ r \in listening
  /\ StopReading(r)
  /\ UNCHANGED <<conv, shown, cards, current, requestVars, serverVars, minted, ran>>

\* reset(): only the fetch of the last sendMessage is aborted, an approve
\* response goes on being read.
NewConversation ==
  /\ Fault("newchat")
  /\ conv' = None /\ busy' = FALSE /\ shown' = FALSE /\ cards' = {}
  /\ listening' = listening \ {current}
  /\ UNCHANGED <<current, requestVars, serverVars, minted, ran>>

-----------------------------------------------------------------------------
(***************************************************************************)
(* ConversationStore.                                                      *)
(***************************************************************************)
\* What get(k) returns.
Lookup(k) == IF k = None \/ lapsed[k] THEN None ELSE store[k]

\* The effect of get(k) on the dict: an expired entry is deleted.
AfterGet(k) ==
  IF k # None /\ lapsed[k] THEN [store EXCEPT ![k] = None] ELSE store

AfterGetLapsed(k) ==
  IF k # None THEN [lapsed EXCEPT ![k] = FALSE] ELSE lapsed

\* set(state): stored under its conversation id, with a new last_activity_at.
Put(k, o) ==
  /\ store' = [store EXCEPT ![k] = o]
  /\ lapsed' = [lapsed EXCEPT ![k] = FALSE]

\* Thirty minutes pass without a get or set of the entry.
Lapse(k) ==
  /\ Fault("lapse")
  /\ store[k] # None /\ ~lapsed[k]
  /\ lapsed' = [lapsed EXCEPT ![k] = TRUE]
  /\ UNCHANGED <<clientVars, requestVars, store, pending, history, minted, ran>>

-----------------------------------------------------------------------------
(***************************************************************************)
(* POST /agent/stream.                                                     *)
(***************************************************************************)
\* From conversation_store.get to the return of the StreamingResponse there
\* is no await: a proposal left open is recorded as discarded and cleared.
BeginStream(r) ==
  LET k == IF key[r] = None THEN r ELSE key[r]
      o == IF Lookup(k) = None THEN r ELSE Lookup(k)
  IN
  /\ pc[r] = "sent" /\ kind[r] = "stream"
  /\ pc' = [pc EXCEPT ![r] = "running"]
  /\ key' = [key EXCEPT ![r] = k]
  /\ obj' = [obj EXCEPT ![r] = o]
  /\ IF pending[o] # {}
       THEN /\ history' = [history EXCEPT ![o] = @ \cup Verdicts(pending[o], "discarded")]
            /\ pending' = [pending EXCEPT ![o] = {}]
            /\ Put(k, o)
       ELSE /\ store' = AfterGet(k)
            /\ lapsed' = AfterGetLapsed(k)
            /\ UNCHANGED <<pending, history>>
  /\ UNCHANGED <<clientVars, kind, ids, found, approved, todo, refused,
                 succeeded, minted, ran, faults>>

\* The agent finished with the write calls S collected; when there are any
\* the client is sent the action_proposal event.
AgentDone(r) ==
  /\ pc[r] = "running" /\ kind[r] = "stream"
  /\ \E S \in SUBSET (Action \ minted) :
       /\ found' = [found EXCEPT ![r] = S]
       /\ minted' = minted \cup S
       /\ IF S # {} /\ r \in listening
            THEN shown' = TRUE /\ cards' = cards \cup {S}
            ELSE UNCHANGED <<shown, cards>>
  /\ pc' = [pc EXCEPT ![r] = "done"]
  /\ UNCHANGED <<conv, busy, listening, current, kind, key, ids, obj,
                 approved, todo, refused, succeeded, serverVars, ran, faults>>

\* "done" carries the conversation id, which the client adopts if it reads it.
YieldDone(r) ==
  /\ pc[r] = "done"
  /\ pc' = [pc EXCEPT ![r] = "tail"]
  /\ conv' = IF r \in listening THEN key[r] ELSE conv
  /\ UNCHANGED <<busy, shown, cards, listening, current, kind, key, ids, obj,
                 found, approved, todo, refused, succeeded, serverVars, minted,
                 ran, faults>>

\* After the last event: the proposal replaces whatever is pending now.
SaveProposal(r) ==
  /\ pc[r] = "tail" /\ kind[r] = "stream"
  /\ pc' = [pc EXCEPT ![r] = "over"]
  /\ pending' = [pending EXCEPT ![obj[r]] = found[r]]
  /\ Put(key[r], obj[r])
  /\ StopReading(r)
  /\ UNCHANGED <<conv, shown, cards, current, kind, key, ids, obj, found,
                 approved, todo, refused, succeeded, history, minted, ran, faults>>

\* The context cannot be resolved, or the model API or the agent fails: the
\* response ends there and nothing after the last yield is executed.
FailRequest(r) ==
  /\ pc[r] \in {"sent", "running"} /\ kind[r] = "stream"
  /\ pc' = [pc EXCEPT ![r] = "lost"]
  /\ StopReading(r)
  /\ UNCHANGED <<conv, shown, cards, current, kind, key, ids, obj, found,
                 approved, todo, refused, succeeded, serverVars, minted, ran, faults>>

-----------------------------------------------------------------------------
(***************************************************************************)
(* POST /agent/approve.                                                    *)
(***************************************************************************)
BeginApprove_IgnoresIds(r) ==
  LET o == Lookup(key[r]) IN
  /\ pc[r] = "sent" /\ kind[r] = "approve" /\ o # None
  /\ store' = AfterGet(key[r])
  /\ lapsed' = AfterGetLapsed(key[r])
  /\ pc' = [pc EXCEPT ![r] = "running"]
  /\ obj' = [obj EXCEPT ![r] = o]
  /\ approved' = [approved EXCEPT ![r] = pending[o]]
  /\ todo' = [todo EXCEPT ![r] = pending[o]]
  /\ UNCHANGED <<clientVars, kind, key, ids, found, refused, succeeded,
                 pending, history, minted, ran, faults>>

\* The actions to execute are chosen from what is pending when the request
\* arrives; they stay in pending_actions until the end of the response.
BeginApprove(r) ==
  LET o == Lookup(key[r]) IN
  /\ pc[r] = "sent" /\ kind[r] = "approve"
  /\ store' = AfterGet(key[r])
  /\ lapsed' = AfterGetLapsed(key[r])
  /\ IF o = None
       THEN /\ pc' = [pc EXCEPT ![r] = "lost"]
            /\ StopReading(r)
            /\ UNCHANGED <<obj, approved, todo, refused>>
       ELSE /\ pc' = [pc EXCEPT ![r] = "running"]
            /\ obj' = [obj EXCEPT ![r] = o]
            /\ approved' = [approved EXCEPT ![r] = pending[o] \cap ids[r]]
            /\ todo' = [todo EXCEPT ![r] = pending[o] \cap ids[r]]
            /\ refused' = [refused EXCEPT ![r] = pending[o] \ ids[r]]
            /\ UNCHANGED <<busy, listening>>
  /\ UNCHANGED <<conv, shown, cards, current, kind, key, ids, found,
                 succeeded, pending, history, minted, ran, faults>>

Execute_RereadsPending(r, a) ==
  /\ pc[r] = "running" /\ kind[r] = "approve"
  /\ a \in pending[obj[r]]
  /\ todo' = [todo EXCEPT ![r] = @ \ {a}]
  /\ ran' = ran \cup {<<r, a>>}
  /\ succeeded' = [succeeded EXCEPT ![r] = @ \cup {a}]
  /\ UNCHANGED <<clientVars, pc, kind, key, ids, obj, found, approved,
                 refused, serverVars, minted, faults>>

\* One iteration of the loop over approved.  The tool applies its write; or
\* it returns an error dict, which execute_tool's caller counts as a success;
\* or it raises, which is counted as a failure and does not stop the loop.
Execute(r, a) ==
  /\ pc[r] = "running" /\ kind[r] = "approve"
  /\ a \in todo[r]
  /\ todo' = [todo EXCEPT ![r] = @ \ {a}]
  /\ \/ /\ ran' = ran \cup {<<r, a>>}
        /\ succeeded' = [succeeded EXCEPT ![r] = @ \cup {a}]
     \/ /\ succeeded' = [succeeded EXCEPT ![r] = @ \cup {a}]
        /\ UNCHANGED ran
     \/ UNCHANGED <<ran, succeeded>>
  /\ UNCHANGED <<clientVars, pc, kind, key, ids, obj, found, approved,
                 refused, serverVars, minted, faults>>

EndLoop(r) ==
  /\ pc[r] = "running" /\ kind[r] = "approve"
  /\ todo[r] = {}
  /\ pc' = [pc EXCEPT ![r] = "done"]
  /\ UNCHANGED <<clientVars, kind, key, ids, obj, found, approved, todo, refused,
                 succeeded, serverVars, minted, ran, faults>>

RecordResults_NoClear(r) ==
  /\ pc[r] = "tail" /\ kind[r] = "approve"
  /\ pc' = [pc EXCEPT ![r] = "over"]
  /\ history' = [history EXCEPT ![obj[r]] =
                   @ \cup Verdicts(succeeded[r], "executed")
                     \cup Verdicts(refused[r], "rejected")]
  /\ Put(key[r], obj[r])
  /\ StopReading(r)
  /\ UNCHANGED <<conv, shown, cards, current, kind, key, ids, obj, found,
                 approved, todo, refused, succeeded, pending, minted, ran, faults>>

\* Past the last event: the results go to the history and whatever is
\* pending by now is cleared.
RecordResults(r) ==
  /\ pc[r] = "tail" /\ kind[r] = "approve"
  /\ pc' = [pc EXCEPT ![r] = "over"]
  /\ history' = [history EXCEPT ![obj[r]] =
                   @ \cup Verdicts(succeeded[r], "executed")
                     \cup Verdicts(approved[r] \ succeeded[r], "failed")
                     \cup Verdicts(refused[r], "rejected")]
  /\ pending' = [pending EXCEPT ![obj[r]] = {}]
  /\ Put(key[r], obj[r])
  /\ StopReading(r)
  /\ UNCHANGED <<conv, shown, cards, current, kind, key, ids, obj, found,
                 approved, todo, refused, succeeded, minted, ran, faults>>

-----------------------------------------------------------------------------
(***************************************************************************)
(* POST /agent/reject: no await in the handler.                            *)
(***************************************************************************)
RejectAll(r) ==
  LET o == Lookup(key[r]) IN
  /\ pc[r] = "sent" /\ kind[r] = "reject"
  /\ pc' = [pc EXCEPT ![r] = "over"]
  /\ IF o = None
       THEN /\ store' = AfterGet(key[r])
            /\ lapsed' = AfterGetLapsed(key[r])
            /\ UNCHANGED <<pending, history>>
       ELSE /\ history' = [history EXCEPT ![o] = @ \cup Verdicts(pending[o], "rejected")]
            /\ pending' = [pending EXCEPT ![o] = {}]
            /\ Put(key[r], o)
  /\ UNCHANGED <<clientVars, kind, key, ids, obj, found, approved, todo, refused,
                 succeeded, minted, ran, faults>>

-----------------------------------------------------------------------------
(***************************************************************************)
(* Trouble.                                                                *)
(***************************************************************************)
\* The server notices that nobody reads response r: the generator is
\* cancelled where it stands, what follows its last yield never runs.
Cancel(r) ==
  /\ pc[r] = "sent" \/ Serving(r)
  /\ kind[r] # "reject" /\ r \notin listening
  /\ pc' = [pc EXCEPT ![r] = "lost"]
  /\ UNCHANGED <<clientVars, kind, key, ids, obj, found, approved, todo, refused,
                 succeeded, serverVars, minted, ran, faults>>

\* The rejection never arrives; the client ignores it.
LoseReject(r) ==
  /\ Fault("lostreject")
  /\ pc[r] = "sent" /\ kind[r] = "reject"
  /\ pc' = [pc EXCEPT ![r] = "lost"]
  /\ UNCHANGED <<clientVars, kind, key, ids, obj, found, approved, todo, refused,
                 succeeded, serverVars, minted, ran>>

\* The AI service restarts: the conversations were only in its memory.
Restart ==
  /\ Fault("restart")
  /\ store' = [k \in Req |-> None]
  /\ lapsed' = [k \in Req |-> FALSE]
  /\ pending' = [o \in Req |-> {}]
  /\ history' = [o \in Req |-> {}]
  /\ pc' = [r \in Req |-> IF Serving(r) THEN "lost" ELSE pc[r]]
  /\ listening' = {r \in listening : ~Serving(r)}
  /\ busy' = (busy /\ ~ \E r \in listening : Serving(r))
  /\ UNCHANGED <<conv, shown, cards, current, kind, key, ids, obj, found,
                 approved, todo, refused, succeeded, minted, ran>>

Client(r) == SendMessage(r) \/ HandleApprove(r) \/ HandleReject(r)

Stream(r) == BeginStream(r) \/ AgentDone(r) \/ SaveProposal(r) \/ FailRequest(r)

Approve(r) ==
  \/ BeginApprove(r)
  \/ \E a \in Action : Execute(r, a)
  \/ EndLoop(r)
  \/ RecordResults(r)

Server(r) == Stream(r) \/ Approve(r) \/ YieldDone(r) \/ RejectAll(r)

Next ==
  \/ \E r \in Req : Client(r) \/ Server(r) \/ GiveUp(r) \/ Cancel(r) \/ LoseReject(r)
  \/ \E k \in Req : Lapse(k)
  \/ CloseCard
  \/ NewConversation
  \/ Restart

Spec == Init /\ [][Next]_vars

\* The event loop of the AI service keeps running every handler it started.
FairSpec == Spec /\ \A r \in Req : WF_vars(Server(r))

-----------------------------------------------------------------------------
(***************************************************************************)
(* Properties.                                                             *)
(***************************************************************************)
TypeOK ==
  /\ conv \in Req \cup {None} /\ current \in Req \cup {None}
  /\ busy \in BOOLEAN /\ shown \in BOOLEAN
  /\ cards \subseteq SUBSET Action
  /\ listening \subseteq Req
  /\ pc \in [Req -> Place]
  /\ kind \in [Req -> Kind]
  /\ key \in [Req -> Req \cup {None}]
  /\ obj \in [Req -> Req \cup {None}]
  /\ ids \in [Req -> SUBSET Action]
  /\ found \in [Req -> SUBSET Action]
  /\ approved \in [Req -> SUBSET Action]
  /\ todo \in [Req -> SUBSET Action]
  /\ refused \in [Req -> SUBSET Action]
  /\ succeeded \in [Req -> SUBSET Action]
  /\ store \in [Req -> Req \cup {None}]
  /\ lapsed \in [Req -> BOOLEAN]
  /\ pending \in [Req -> SUBSET Action]
  /\ history \in [Req -> SUBSET Verdict]
  /\ minted \subseteq Action
  /\ ran \subseteq Req \X Action
  /\ faults \in 0..MaxFaults

\* A stream of conversation k ran to its end with action a in its proposal.
Proposed(k, a) ==
  \E q \in Req :
    /\ kind[q] = "stream" /\ pc[q] = "over"
    /\ key[q] = k /\ a \in found[q]

\* No write reaches the database unless the user ticked that very action in
\* an approve request, and it is one that a completed stream of the same
\* conversation proposed: not through an expired, restarted, replaced or
\* concurrently used conversation state either.
RanAsApproved ==
  \A x \in ran :
    /\ kind[x[1]] = "approve" /\ x[2] \in ids[x[1]]
    /\ Proposed(key[x[1]], x[2])

\* A proposed write is applied by at most one approve request, although its
\* entry stays in pending_actions until the end of the response.
AtMostOnce == \A x, y \in ran : x[2] = y[2] => x = y

\* What the history tells the LLM was not done (discarded, rejected, failed)
\* was not done: neither before the record was made nor after.
HistoryTruthful ==
  \A o \in Req : \A h \in history[o] :
    h.verdict # "executed" => \A r \in Req : <<r, h.action>> \notin ran

\* A write is applied at most once, and the history never denies it.
WritesToldTruly == AtMostOnce /\ HistoryTruthful

\* Once the history holds a verdict on an action the user cannot be asked
\* about it again: it is not pending in that conversation.
DecidedStaysDecided ==
  \A o \in Req : \A h \in history[o] : h.action \notin pending[o]

\* A proposal set aside because the user sent a new message instead of
\* approving it (the comment in agent_stream) has not been applied.
DiscardedWasNotRun ==
  \A o \in Req : \A h \in history[o] :
    h.verdict = "discarded" => \A r \in Req : <<r, h.action>> \notin ran

\* An approve request that ran to its end dealt with all the actions the
\* user selected: each was executed, or failed and was reported.
SelectedAreDealtWith ==
  \A r \in Req : kind[r] = "approve" /\ pc[r] = "over" => ids[r] \subseteq approved[r]

\* The tab never stays busy for ever: the input box comes back.
SpinnerStops == busy ~> ~busy

\* The stage of an action as the server's memory and the database show it.
StageOf(a) ==
  IF \E r \in Req : <<r, a>> \in ran THEN "executed"
  ELSE IF \E r \in Req : a \in approved[r] \ todo[r] THEN "failed"
  ELSE IF \E r \in Req : pc[r] = "running" /\ a \in todo[r] THEN "approved"
  ELSE IF \/ \E k \in Req : store[k] # None /\ a \in pending[store[k]]
          \/ \E r \in Req : pc[r] \in {"done", "tail"} /\ a \in found[r]
       THEN "proposed"
  ELSE IF a \in minted THEN "dropped" ELSE "new"

Flow == INSTANCE ApprovalFlow WITH
  status <- [a \in Action |-> StageOf(a)],
  consent <- UNION {ids[r] : r \in Req}

\* The endpoints, store and tab together implement the promised life cycle.
ImplementsApprovalFlow == Flow!Spec
=============================================================================

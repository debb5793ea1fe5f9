----------------------------- MODULE ChatPanel -----------------------------
(***************************************************************************)
(* The chat panel at the side of every page (frontend components/agent,    *)
(* hooks/useChatStream.ts, stores/useChatStore.ts): its log of messages,   *)
(* the responses it is reading, proposal cards, the list of old            *)
(* conversations, the rating, and the question another page asks through   *)
(* it.  AgentConversation says what the service does with the requests;    *)
(* here a response is the events its reader may get.  A message has the    *)
(* conversation it belongs to for the properties: the tab does not know it.*)
(***************************************************************************)
EXTENDS ProposalCard, Sequences, SequencesExt

CONSTANTS
    MaxCalls,   \* requests of the panel, numbered from 1
    MaxTools,   \* calls of tools that the responses tell of, numbered from 1
    PastConv,   \* conversations of earlier days
    Proposals,  \* what a response may propose: sets of actions
    Existing    \* the time blocks of the calendar

ASSUME ChatAssumption ==
    MaxCalls \in Nat /\ MaxTools \in Nat /\ None \notin (1..MaxCalls) \cup PastConv
\* blocks have times, and those that are proposed are within a day
ASSUME ProposalsAssumption ==
    /\ \A A \in Proposals \cup {Existing} :
         /\ IsFiniteSet(A)
         /\ \A a \in A : a.day # None => a.day \in Int /\ a.start \in Int /\ a.end \in Int
    /\ \A A \in Proposals : \A a \in A : a.day # None => 0 <= a.start /\ a.end <= 1440

VARIABLES
    panel,      \* the state of ChatPanel, useChatStream and useChatStore
    calls,      \* the requests
    mixed,      \* history: the log was replaced or the conversation left while
                \* an answer was still to come, the answer stopped half way, or a
                \* question that had waited took the place of a viewed or rated one
    askedIdle   \* history: the question came to an open panel that was idle

chatVars == <<panel, calls, mixed, askedIdle>>

CallIds == 1..MaxCalls

(* A message of the log, or the part of one that is about one conversation; *)
(* by is the call of a tool it tells of.                                    *)
Entry(kind, c) == [kind |-> kind, of |-> c, by |-> 0, actions |-> {}, checked |-> {}]
EmptyPanel ==
    [open |-> FALSE, listing |-> FALSE, viewing |-> FALSE, loading |-> FALSE,
     rated |-> FALSE, rating |-> FALSE, asked |-> FALSE, conv |-> None, log |-> <<>>,
     busy |-> FALSE, pending |-> FALSE, current |-> 0]

(* tools are the calls of tools a response told of, waiting those of which  *)
(* it did not yet tell the result.                                          *)
NoCall == [kind |-> "none", of |-> None, stage |-> "unused", tools |-> {}, waiting |-> {}]
NewCall(kind, c) == [kind |-> kind, of |-> c, stage |-> "sent", tools |-> {}, waiting |-> {}]

ChatInit ==
    /\ panel = EmptyPanel
    /\ calls = [r \in CallIds |-> NoCall]
    /\ mixed = FALSE /\ askedIdle = FALSE

-----------------------------------------------------------------------------
(* Steps are put together from functions on the state.                     *)
State == [p |-> panel, cs |-> calls, mixed |-> mixed, idle |-> askedIdle]

Streams == {"message", "approve"}
Started(cs) == {r \in CallIds : cs[r].stage # "unused"}
Underway(cs, kinds) == {r \in Started(cs) : cs[r].kind \in kinds /\ cs[r].stage # "over"}
Reading(cs) == Underway(cs, Streams)
Unused == CallIds \ Started(calls)
\* one request is kept for a question that waits
CanCall == Cardinality(Unused) > (IF panel.asked THEN 1 ELSE 0)

Called(s, kind, c) ==
    [s EXCEPT !.cs[Min(CallIds \ Started(s.cs))] = NewCall(kind, c)]
Say(s, e) == [s EXCEPT !.p.log = Append(@, e)]
Over(s, r) == [s EXCEPT !.cs[r].stage = "over"]

(* A card that is drawn anew has everything selected: its checkboxes are    *)
(* its own state.                                                           *)
Redrawn(s) ==
    [s EXCEPT !.p.rating = FALSE,
              !.p.log = [i \in DOMAIN @ |-> [s.p.log[i] EXCEPT !.checked = s.p.log[i].actions]]]

(* sendMessage: a new conversation is named by the request that begins it.  *)
Sent(s) ==
    LET r == Min(CallIds \ Started(s.cs))
        c == IF s.p.conv = None THEN r ELSE s.p.conv
    IN  [Called(Say(s, Entry("user", c)), "message", c)
            EXCEPT !.p.busy = TRUE, !.p.current = r,
                   !.mixed = @ \/ Underway(s.cs, Streams \cup {"load"}) # {}]

(* reset: the fetch of the last message is aborted, and only that.          *)
Aborted(s) == Reading(s.cs) \cap {s.p.current}
Reset(s) ==
    LET rest == Underway(s.cs, Streams \cup {"load", "rate"}) \ Aborted(s) IN
    [s EXCEPT !.cs = [r \in CallIds |-> IF r \in Aborted(s) THEN [@[r] EXCEPT !.stage = "over"]
                                                         ELSE @[r]],
              !.p.log = <<>>, !.p.conv = None, !.p.busy = FALSE, !.p.pending = FALSE,
              !.mixed = @ \/ rest # {}]

(* The effect for a question of another page, in a new conversation.  What  *)
(* reset aborted runs its finally block after the new message was sent.     *)
(* Whether the log is only viewed or has been rated was reset when the      *)
(* question came, and is not reset again.                                   *)
Ask(s) ==
    LET t == Sent(Reset([s EXCEPT !.p.asked = FALSE, !.idle = FALSE,
                                  !.mixed = @ \/ s.p.viewing \/ s.p.rated])) IN
    IF Aborted(s) = {} THEN t ELSE [t EXCEPT !.p.busy = FALSE]

(* The end of every step: the effect runs when the panel opens or closes or *)
(* a response begins or ends, and reads the question then.                  *)
Become(s) ==
    LET again == s.p.open # panel.open \/ s.p.busy # panel.busy
        t == IF again /\ s.p.asked /\ s.p.open /\ ~s.p.busy THEN Ask(s) ELSE s
    IN  /\ panel' = t.p /\ calls' = t.cs /\ mixed' = t.mixed /\ askedIdle' = t.idle

-----------------------------------------------------------------------------
(* What the user does.                                                     *)
Chatting == panel.open /\ ~panel.listing

(* The input box, disabled during a response and for an old conversation.   *)
SendText == Chatting /\ ~panel.busy /\ ~panel.viewing /\ CanCall /\ Become(Sent(State))

(* The suggestions of an empty log are always enabled.                      *)
Suggest == Chatting /\ panel.log = <<>> /\ CanCall /\ Become(Sent(State))

Cards == {i \in DOMAIN panel.log : panel.log[i].kind = "card"}
Enabled == ~panel.busy /\ panel.pending

Toggle ==
    /\ Chatting /\ Enabled
    /\ \E i \in Cards : \E a \in panel.log[i].actions :
         Become([State EXCEPT !.p.log[i].checked =
                   IF a \in @ THEN @ \ {a} ELSE @ \cup {a}])

(* Without a conversation id nothing happens, and the card stays enabled.   *)
Approve ==
    /\ Chatting /\ Enabled /\ panel.conv # None /\ CanCall
    /\ \E i \in Cards : panel.log[i].checked # {}
    /\ Become([Called(State, "approve", panel.conv)
                 EXCEPT !.p.pending = FALSE, !.p.busy = TRUE])

(* The request of a rejection is not waited for, and changes nothing here.  *)
Reject ==
    /\ Chatting /\ Enabled /\ Cards # {}
    /\ Become([Say(State, Entry("text", panel.log[Max(Cards)].of)) EXCEPT !.p.pending = FALSE])

LastIsAssistant == panel.log # <<>> /\ Last(panel.log).kind # "user"
Rate ==
    /\ Chatting /\ ~panel.busy /\ panel.conv # None /\ ~panel.rated /\ ~panel.viewing
    /\ LastIsAssistant /\ ~panel.rating /\ CanCall
    /\ Become([Called(State, "rate", panel.conv) EXCEPT !.p.rating = TRUE])

(* The button of the header, the shortcut and the cross.                    *)
TogglePanel == Become(Redrawn([State EXCEPT !.p.open = ~@]))

ShowHistory ==
    /\ Chatting /\ CanCall
    /\ Become([Redrawn(Called(State, "list", None)) EXCEPT !.p.listing = TRUE, !.p.loading = TRUE])

BackFromHistory ==
    panel.open /\ panel.listing /\ Become(Redrawn([State EXCEPT !.p.listing = FALSE]))

(* Old conversations, and those of this session that have been answered.    *)
Known == PastConv \cup {calls[r].of : r \in {q \in Started(calls) :
                            calls[q].kind = "message" /\ calls[q].stage = "over"}}
SelectConversation ==
    /\ panel.open /\ panel.listing /\ ~panel.loading /\ CanCall
    /\ \E c \in Known : Become([Called(State, "load", c) EXCEPT !.p.loading = TRUE])

NewConversation ==
    /\ panel.open
    /\ Become([Reset(State) EXCEPT !.p.viewing = FALSE, !.p.rated = FALSE,
                                   !.p.listing = FALSE,
                                   !.p.rating = @ /\ ~panel.listing])

(* sendPrefilled, by a suggested action of the review on another page.      *)
SendPrefilled ==
    /\ panel.asked \/ CanCall
    /\ Become([State EXCEPT !.p.open = TRUE, !.p.asked = TRUE, !.p.viewing = FALSE,
                            !.p.rated = FALSE,
                            !.idle = @ \/ (panel.open /\ ~panel.busy)])

-----------------------------------------------------------------------------
(* What the panel reads, one event of a response at a time.                *)
At(r, kinds, stages) == calls[r].kind \in kinds /\ calls[r].stage \in stages
To(s, r, stage) == [s EXCEPT !.cs[r].stage = stage]

(* text: added to the assistant's text if that is the last message.  An     *)
(* approval's response has one text, its last event before done.            *)
Added(s, e) ==
    IF s.p.log # <<>> /\ Last(s.p.log).kind = "text" /\ Last(s.p.log).of = e.of
    THEN s ELSE Say(s, e)
ReadText(r) ==
    /\ At(r, Streams, {"sent"})
    /\ LET s == Added(State, Entry("text", calls[r].of))
       IN  Become(IF calls[r].kind = "approve" THEN To(s, r, "closing") ELSE s)

(* tool_call: a message tells of all calls of a turn before their results,  *)
(* an approval of each action before its result.                            *)
CallOf(s, r, n) ==
    LET c == s.cs[r]
    IN  [s EXCEPT !.cs[r] = [c EXCEPT !.tools = @ \cup {n}, !.waiting = @ \cup {n}]]
ResultOf(s, r, n) == [s EXCEPT !.cs[r].waiting = @ \ {n}]
Untold == (1..MaxTools) \ UNION {calls[r].tools : r \in CallIds}
ReadToolCall(r) ==
    /\ At(r, Streams, {"sent"}) \/ At(r, {"message"}, {"calling"})
    /\ Untold # {}
    /\ LET n == Min(Untold)
           call == [Entry("call", calls[r].of) EXCEPT !.by = n]
       IN  Become(To(CallOf(Say(State, call), r, n), r, "calling"))

(* tool_result: the call is marked where it is.  The result of an approved  *)
(* action may have an error, which is a new message.                        *)
ReadToolResult(r) ==
    /\ At(r, Streams, {"calling", "answered"})
    /\ LET n == Min(calls[r].waiting)
           marked == [State EXCEPT !.p.log =
                        [i \in DOMAIN @ |-> IF @[i].by = n
                                            THEN [@[i] EXCEPT !.kind = "called"] ELSE @[i]]]
           s == To(ResultOf(marked, r, n), r,
                   IF calls[r].waiting = {n} THEN "sent" ELSE "answered")
       IN  \/ Become(s)
           \/ calls[r].kind = "approve" /\ Become(Say(s, Entry("text", calls[r].of)))

ReadProposal(r) ==
    /\ At(r, {"message"}, {"sent"})
    /\ \E A \in Proposals :
         Become(To([Say(State, [Entry("card", calls[r].of) EXCEPT !.actions = A, !.checked = A])
                      EXCEPT !.p.pending = TRUE], r, "proposed"))

ReadDone(r) ==
    /\ At(r, {"message"}, {"sent", "proposed"}) \/ At(r, {"approve"}, {"closing"})
    /\ Become(To([State EXCEPT !.p.conv = calls[r].of], r, "told"))

(* The response is closed and the finally block runs.                       *)
EndResponse(r) == At(r, Streams, {"told"}) /\ Become([Over(State, r) EXCEPT !.p.busy = FALSE])

(* A time limit, an error of the service or the network: an error message.  *)
BreakResponse(r) ==
    /\ r \in Reading(calls)
    /\ Become([Say(Over(State, r), Entry("text", calls[r].of))
                 EXCEPT !.p.busy = FALSE, !.mixed = @ \/ panel.conv # calls[r].of])

ListArrives(r) == At(r, {"list"}, {"sent"}) /\ Become([Over(State, r) EXCEPT !.p.loading = FALSE])

(* Mutant: the conversation that is continued stays the one before.         *)
LoadArrives_KeepsId(r) ==
    /\ At(r, {"load"}, {"sent"})
    /\ Become([Over(State, r)
         EXCEPT !.p.log = <<Entry("user", calls[r].of), Entry("text", calls[r].of)>>,
                !.p.pending = FALSE, !.p.viewing = TRUE,
                !.p.loading = FALSE, !.p.listing = FALSE,
                !.mixed = @ \/ Underway(calls, Streams \cup {"load", "rate"}) # {r}])

(* handleSelectConversation goes on: the log is the old conversation.       *)
LoadArrives(r) ==
    /\ At(r, {"load"}, {"sent"})
    /\ Become([Over(State, r)
         EXCEPT !.p.log = <<Entry("user", calls[r].of), Entry("text", calls[r].of)>>,
                !.p.conv = calls[r].of, !.p.pending = FALSE, !.p.viewing = TRUE,
                !.p.loading = FALSE, !.p.listing = FALSE,
                !.mixed = @ \/ Underway(calls, Streams \cup {"load", "rate"}) # {r}])

(* Nothing is shown, but the conversation is the one that was selected.     *)
LoadFails(r) ==
    /\ At(r, {"load"}, {"sent"})
    /\ Become([Over(State, r)
         EXCEPT !.p.log = <<>>, !.p.conv = calls[r].of, !.p.pending = FALSE,
                !.p.loading = FALSE, !.p.listing = FALSE, !.mixed = TRUE])

(* Thanks are said whether or not the rating was stored.                    *)
RateArrives(r) ==
    At(r, {"rate"}, {"sent"}) /\ Become([Over(State, r) EXCEPT !.p.rated = TRUE, !.p.rating = FALSE])

Read(r) ==
    \/ ReadText(r) \/ ReadToolCall(r) \/ ReadToolResult(r) \/ ReadProposal(r) \/ ReadDone(r)
    \/ EndResponse(r) \/ BreakResponse(r)
    \/ ListArrives(r) \/ LoadArrives(r) \/ LoadFails(r) \/ RateArrives(r)

-----------------------------------------------------------------------------
Convs == CallIds \cup PastConv
Entries ==
    [kind : {"user", "text", "call", "called", "card"}, of : Convs,
     by : 0..MaxTools,
     actions : Proposals \cup {{}}, checked : SUBSET UNION Proposals]
ChatTypeOK ==
    /\ \A x \in {"open", "listing", "viewing", "loading", "rated", "rating", "asked", "busy",
               "pending"} : panel[x] \in BOOLEAN
    /\ panel.conv \in Convs \cup {None} /\ panel.current \in {0} \cup CallIds
    /\ \A i \in DOMAIN panel.log :
         panel.log[i] \in Entries /\ panel.log[i].checked \subseteq panel.log[i].actions
    /\ calls \in [CallIds ->
         [kind : {"none", "message", "approve", "rate", "list", "load"}, of : Convs \cup {None},
          stage : {"unused", "sent", "calling", "answered", "proposed", "closing", "told", "over"},
          tools : SUBSET (1..MaxTools), waiting : SUBSET (1..MaxTools)]]
    /\ mixed \in BOOLEAN /\ askedIdle \in BOOLEAN

(* The log is one conversation, the one the next message goes to: whatever  *)
(* was read, selected, aborted or continued, in which order, unless the     *)
(* user turned to another conversation while something was still to come    *)
(* (ChatPanel.tsx handleSelectConversation, useChatStream.ts reset).        *)
LogIsOneConversation ==
    \A i \in DOMAIN panel.log :
        panel.log[i].of = (IF panel.conv = None THEN panel.log[1].of ELSE panel.conv)

(* An old conversation is only looked at, and thanks are for a rating of    *)
(* the conversation that is shown (ChatPanel.tsx, ConversationRating.tsx).  *)
ViewedIsOnlyRead == panel.viewing => Reading(calls) = {}
RatedIsShown ==
    panel.rated /\ ~panel.viewing =>
        \E r \in CallIds : calls[r].kind = "rate" /\ calls[r].of = panel.conv

(* A question from another page does not wait in a panel that could ask it, *)
(* unless the panel was open and idle when it came (ChatPanel.tsx:70).      *)
QuestionIsAsked == panel.asked /\ panel.open /\ ~panel.busy => askedIdle

(* The same without the exception: a question of another page, for which    *)
(* the panel opens ("Handle prefilled messages", ChatPanel.tsx:69), waits   *)
(* only for the end of a response.                                          *)
NoQuestionWaits == panel.asked /\ panel.open => panel.busy

PanelIsOneConversation ==
    /\ ~mixed => LogIsOneConversation /\ ViewedIsOnlyRead /\ RatedIsShown
    /\ QuestionIsAsked

(* What an enabled card would have approved the user can see on it, but for *)
(* blocks outside the current week when at least half of the days proposed  *)
(* are in it (ActionProposal.tsx expandToFullWeek, ProposalTimeline.tsx).   *)
ThisWeek == {d \in ProposalDates(UNION Proposals) : d \div 7 = Today \div 7}
MostlyThisWeek(A) ==
    2 * Cardinality(ProposalDates(A) \cap ThisWeek) >= Cardinality(ProposalDates(A))
ChoiceIsSeen ==
    \A i \in Cards : \A a \in panel.log[i].checked :
        \/ IsDrawn(a, panel.log[i].actions, Existing)
        \/ a.day \notin ThisWeek /\ MostlyThisWeek(panel.log[i].actions)

(* Every selected block is on the card: 承認 (n) counts what is selected,    *)
(* and the tabs "expand proposal dates to a full Mon-Sun week range"        *)
(* (ActionProposal.tsx:54), but blocks of another week may have no tab.     *)
AllChosenAreSeen ==
    \A i \in Cards : \A a \in panel.log[i].checked :
        IsDrawn(a, panel.log[i].actions, Existing)
=============================================================================

----------------------------- MODULE Assistant -----------------------------
(***************************************************************************)
(* The places where a user meets the agent: the chat panel at the side of  *)
(* every page, the review on the analytics page, which can ask a question  *)
(* in the panel, and the advice on today's page.  One of the two pages, or  *)
(* another one, is open.                                                   *)
(***************************************************************************)
EXTENDS ChatPanel, ReviewPage, AdviceCard

CONSTANTS
    MaxSteps,   \* what the user does, none once the conversations are mixed
    MaxMoves,   \* steps before which the user may act in the panel
    MaxFlight   \* requests in flight when the user does something

ASSUME StepsAssumption == MaxSteps \in Nat /\ MaxMoves \in 0..MaxSteps /\ MaxFlight \in Nat

VARIABLES place, steps, visits

vars == <<chatVars, reviewVars, adviceVars, place, steps, visits>>

Init ==
    /\ ChatInit /\ ReviewInit /\ AdviceInit
    /\ place = "other" /\ steps = 0 /\ visits = 0

PanelInFlight == Cardinality(Underway(calls, Streams \cup {"rate", "list", "load"}))
PageInFlight ==
    Len(fetches) + Cardinality(applies) + (IF Writing THEN 1 ELSE 0) + (IF Reads THEN 1 ELSE 0)
User(max) == ~mixed /\ steps < max /\ steps' = steps + 1
\* panel and pages share only the question, so they are not busy at a time
PageIsQuiet == PageInFlight = 0 /\ PanelInFlight <= MaxFlight
OnPage == User(MaxSteps) /\ PanelInFlight = 0 /\ PageInFlight <= MaxFlight

ChatStays == UNCHANGED chatVars
ReviewStays == UNCHANGED reviewVars
AdviceStays == UNCHANGED adviceVars
Stay == UNCHANGED <<place, visits>>

(* Today's card shares nothing with the panel and the review: a behaviour   *)
(* is about it or about them.                                               *)
AboutCard == visits > 0
AboutOthers == report.sums # NoPeriod \/ report.error \/ fetches # <<>>

(* Another page is opened; the panel stays as it is.  Pages are changed     *)
(* before the panel is used.                                                *)
Go(there) ==
    /\ OnPage /\ panel = EmptyPanel /\ place # there /\ place' = there /\ ChatStays
    /\ there = "daily" => ~AboutOthers
    /\ there = "analytics" => ~AboutCard
    /\ visits' = IF there = "daily" THEN visits + 1 ELSE visits
    /\ IF there = "analytics" THEN OpenReport
       ELSE IF place = "analytics" THEN CloseReport ELSE ReviewStays
    /\ IF there = "daily" THEN ShowCard(visits')
       ELSE IF place = "daily" THEN ShowCard(0) ELSE AdviceStays

InPanel ==
    /\ User(MaxMoves) /\ PageIsQuiet /\ ~AboutCard /\ Stay /\ ReviewStays /\ AdviceStays
    /\ \/ SendText \/ Suggest \/ Toggle \/ Approve \/ Reject \/ Rate \/ TogglePanel
       \/ ShowHistory \/ BackFromHistory \/ SelectConversation \/ NewConversation

AskInPanel ==
    User(MaxSteps) /\ PageIsQuiet /\ Suggested /\ SendPrefilled /\ Stay /\ ReviewStays /\ AdviceStays

OnReport ==
    /\ OnPage /\ Stay /\ ChatStays /\ AdviceStays
    /\ PickPeriod \/ Retry \/ GenerateReview

OnCard ==
    /\ OnPage /\ Stay /\ ChatStays /\ ReviewStays
    /\ Generate \/ ToggleBlock \/ Apply

(* What arrives.                                                            *)
ChatReads == \E r \in CallIds : Read(r) /\ ReviewStays /\ AdviceStays /\ Stay /\ UNCHANGED steps
ReportReads ==
    /\ \/ \E i \in DOMAIN fetches : SumsArrive(i) \/ SumsFail(i)
       \/ ReviewText \/ ReviewParsed \/ ReviewFails
    /\ ChatStays /\ AdviceStays /\ Stay /\ UNCHANGED steps
CardReads ==
    /\ AdviceText \/ AdviceParsed \/ AdviceFails \/ \E l \in applies : AddOne(l)
    /\ ChatStays /\ ReviewStays /\ Stay /\ UNCHANGED steps

Next ==
    \/ \E there \in {"daily", "analytics", "other"} : Go(there)
    \/ InPanel \/ AskInPanel \/ OnReport \/ OnCard
    \/ ChatReads \/ ReportReads \/ CardReads

Spec == Init /\ [][Next]_vars

-----------------------------------------------------------------------------
TypeOK ==
    /\ ChatTypeOK /\ ReviewTypeOK /\ AdviceTypeOK
    /\ place \in {"daily", "analytics", "other"} /\ steps \in 0..MaxSteps /\ visits \in 0..MaxSteps
    /\ (place = "analytics") = (report.period # NoPeriod)
    /\ (place = "daily") = (advice.visit # 0)

(* What the agent wrote is shown for what it was asked about, and what the  *)
(* user took from it was done once.                                         *)
GeneratedIsTrue == ReviewIsOfItsPeriod /\ AdviceIsAdded
=============================================================================

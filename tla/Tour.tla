-------------------------------- MODULE Tour --------------------------------
(***************************************************************************)
(* The shell with its two guides: the tour through all pages that starts   *)
(* by itself for a user who has not finished it, and the tour of a single  *)
(* page.  The big tour waits on timers for the part of the page it points  *)
(* to, one chain of timers per run of its effect; a chain that polls is    *)
(* not cleared, only told by a flag that all runs share.  While a card or  *)
(* the welcome screen is shown nothing beneath it can be clicked.          *)
(***************************************************************************)
EXTENDS Session

CONSTANT Stops      \* the steps of the tour: DemoTourSteps, or a few of them

ASSUME StopsAssumption ==
    /\ Stops \in Seq([page : STRING, target : STRING, action : STRING])
    /\ Stops # <<>>

VARIABLES
    guide,      \* useGuideStore: isDemoTourActive, demoTourCompletedUsers
    chat,       \* isOpen of the chat panel
    tour,       \* the state of DemoTour
    waits,      \* its timers
    dead,       \* cancelRef
    parts,      \* what the page shows: its tab, and whether it has loaded
    pageTour    \* step of the page's own tour, 0 when it is closed

guideVars == <<guide, chat, tour, waits, dead, parts, pageTour>>
vars == <<sessionVars, guideVars>>

Stop(p, target, action) == [page |-> p, target |-> target, action |-> action]
DemoTourSteps == <<
    Stop("daily", "sidebar-daily", "none"),
    Stop("daily", "daily-timeblocks", "none"),
    Stop("daily", "daily-tasks", "none"),
    Stop("daily", "header-timer", "none"),
    Stop("tasks", "sidebar-tasks", "none"),
    Stop("analytics", "sidebar-analytics", "none"),
    Stop("analytics", "none", "none"),
    Stop("analytics", "header-ai-button", "open-chat"),
    Stop("prompts", "prompt-sidebar", "close-chat"),
    Stop("prompts", "prompt-tab-optimize", "switch-optimize-tab"),
    Stop("prompts", "version-detail", "none"),
    Stop("interactions", "explorer-stats", "none")>>

TourDefinitions == [
    daily |-> <<"daily-header", "daily-timeblocks", "daily-tasks", "daily-ai">>,
    tasks |-> <<"task-goals", "task-milestones", "task-tasks", "task-search">>,
    weekly |-> <<"weekly-header", "weekly-calendar", "weekly-tasks">>,
    prompts |-> <<"prompt-sidebar", "prompt-editor", "prompt-tabs">>,
    interactions |-> <<"explorer-header", "explorer-stats", "explorer-table">>]

(* Where data-guide marks a part; the parts of the prompt page depend on    *)
(* its tab and, like the page itself, on its first request.                 *)
InLayout == {"sidebar-daily", "sidebar-tasks", "sidebar-analytics", "header-timer",
             "header-ai-button"}
InTab == [editor |-> {"prompt-sidebar", "prompt-editor"}, optimize |-> {"version-detail"}]
OfPage(t, p) ==
    \/ p \in DOMAIN TourDefinitions /\ t \in ToSet(TourDefinitions[p])
    \/ p = "prompts" /\ t \in {"prompt-tab-optimize", "version-detail"}
Present(t) ==
    \/ t \in InLayout
    \/ /\ OfPage(t, page) /\ parts.loaded
       /\ t \in InTab.editor \cup InTab.optimize => t \in InTab[parts.tab]

AtWelcome == [phase |-> "welcome", step |-> 1, ready |-> FALSE, found |-> FALSE]
Touring == Mounted /\ guide.active /\ tour.phase = "touring"
Current == Stops[tour.step]
\* the spotlight, and with it the card, is drawn around a part that is there
CardShown == Touring /\ tour.ready /\ (tour.found => Present(Current.target))
PageCardShown == pageTour # 0 /\ Present(TourDefinitions[page][pageTour])
Covered ==
    \/ Mounted /\ guide.active /\ tour.phase = "welcome"
    \/ CardShown
    \/ PageCardShown

LoadedPage(p) == IF p = "prompts" THEN BOOLEAN ELSE {TRUE}
NewParts(l) == [tab |-> "editor", loaded |-> l]

(***************************************************************************)
(* What a step of the shell does to the guides: the layout appears or goes,*)
(* another page is mounted.                                                *)
(***************************************************************************)
AutoStart == guide.active \/ session'.of \notin guide.done
Follow ==
    /\ IF Mounted /\ Mounted' /\ page' = page
       THEN UNCHANGED <<parts, pageTour>>
       ELSE pageTour' = 0 /\ \E l \in LoadedPage(page') : parts' = NewParts(l)
    /\ IF Mounted /\ Mounted'
       THEN UNCHANGED <<guide, tour, waits, dead>>
       ELSE /\ guide' = [guide EXCEPT !.active = IF Mounted' THEN AutoStart ELSE @]
            /\ tour' = AtWelcome
            /\ waits' = <<>>
            /\ dead' = FALSE
    /\ UNCHANGED chat

(* The effect of DemoTour for a step: the cleanup of the last run, the      *)
(* action, the navigation (which runs the effect again, on the page it has  *)
(* led to) and the first timer.  remount is said by a link the user used.   *)
Polling(w) == w.at \in {"poll", "settle"}
\* a run can clear the timer it began with, if that has not gone off
Cleared ==
    LET own == {i \in 1..Len(waits) : ~Polling(waits[i])} IN
    IF own = {} THEN waits ELSE RemoveAt(waits, CHOOSE i \in own : TRUE)
Enter(k, remount) ==
    LET s == Stops[k]
        fresh == remount \/ page # s.page
    IN
    /\ tour' = [phase |-> "touring", step |-> k, ready |-> FALSE, found |-> FALSE]
    /\ waits' = Append(Cleared,
                       [step |-> k, at |-> IF s.target = "none" THEN "centre" ELSE "start"])
    /\ dead' = FALSE
    /\ page' = s.page
    /\ chat' = CASE s.action = "open-chat" -> TRUE
                 [] s.action = "close-chat" -> FALSE
                 [] OTHER -> chat
    /\ \E l \in LoadedPage(s.page) :
         LET p == IF fresh THEN NewParts(l) ELSE parts IN
         parts' = IF s.action = "switch-optimize-tab" /\ p.loaded
                  THEN [p EXCEPT !.tab = "optimize"] ELSE p
    /\ pageTour' = IF fresh THEN 0 ELSE pageTour

Beneath == <<shellVars, login, data, timer, dialog, calls, server, unsure>>

\* the tour does not begin while the settings are being saved
StartTour ==
    /\ Mounted /\ guide.active /\ tour.phase = "welcome"
    /\ \A i \in 1..Len(calls) : calls[i].kind # "save"
    /\ Enter(1, FALSE)
    /\ UNCHANGED <<Beneath, counters, guide>>

EndTour ==
    /\ guide' = [guide EXCEPT !.active = FALSE, !.done = @ \cup {session.of}]
    /\ chat' = FALSE
    /\ tour' = AtWelcome
    /\ waits' = Cleared
    /\ dead' = TRUE
    /\ UNCHANGED <<Beneath, counters, page, parts, pageTour>>
Skip ==
    /\ CardShown \/ (Mounted /\ guide.active /\ tour.phase = "welcome")
    /\ EndTour
NextStep ==
    /\ CardShown
    /\ IF tour.step < Len(Stops)
       THEN Enter(tour.step + 1, FALSE) /\ UNCHANGED <<Beneath, counters, guide>>
       ELSE EndTour
PrevStep ==
    /\ CardShown /\ tour.step > 1 /\ MayChoose
    /\ Enter(tour.step - 1, FALSE)
    /\ UNCHANGED <<Beneath, troubles, guide>>

\* a link used while no card is shown: the tour leads back
PullBack(p) ==
    /\ Touring /\ ~Covered /\ p # page /\ MayChoose
    /\ Enter(tour.step, TRUE)
    /\ UNCHANGED <<Beneath, troubles, guide>>

(***************************************************************************)
(* The timers.                                                             *)
(***************************************************************************)
NoLonger(i) == waits' = RemoveAt(waits, i)
Show(found) == tour' = [tour EXCEPT !.found = found, !.ready = TRUE]
Elapse(i) == UNCHANGED <<Beneath, counters, page, guide, chat, dead, parts, pageTour>>

Poll(i) ==
    LET w == waits[i] IN
    /\ w.at \in {"start", "poll"}
    /\ CASE dead -> NoLonger(i) /\ UNCHANGED tour
         [] ~dead /\ Present(Stops[w.step].target) ->
              waits' = [waits EXCEPT ![i].at = "settle"] /\ UNCHANGED tour
         [] OTHER ->
              waits' = [waits EXCEPT ![i].at = "poll"] /\ UNCHANGED tour
    /\ Elapse(i)
\* Mutant: it polls for ever.
GiveUpNever(i) == FALSE
\* eight seconds have gone by
GiveUp(i) ==
    /\ waits[i].at = "poll" /\ ~dead
    /\ ~Present(Stops[waits[i].step].target)
    /\ NoLonger(i)
    /\ Show(FALSE)
    /\ Elapse(i)
Settle(i) ==
    /\ waits[i].at \in {"settle", "centre"}
    /\ NoLonger(i)
    /\ IF dead THEN UNCHANGED tour ELSE Show(waits[i].at = "settle")
    /\ Elapse(i)

PageLoads ==
    /\ Mounted /\ ~parts.loaded
    /\ parts' = [parts EXCEPT !.loaded = TRUE]
    /\ UNCHANGED <<Beneath, counters, page, guide, chat, tour, waits, dead, pageTour>>
SwitchTab(t) ==
    /\ Mounted /\ ~Covered /\ page = "prompts" /\ parts.loaded /\ t # parts.tab /\ MayChoose
    /\ parts' = [parts EXCEPT !.tab = t]
    /\ UNCHANGED <<Beneath, troubles, page, guide, chat, tour, waits, dead, pageTour>>

(***************************************************************************)
(* The tour of one page.  That it was finished is stored and never read.   *)
(***************************************************************************)
AsideVars == <<Beneath, page, chat, tour, waits, dead, parts>>
OpenPageTour ==
    /\ Mounted /\ ~Covered /\ pageTour = 0 /\ page \in DOMAIN TourDefinitions
    /\ parts.loaded /\ MayChoose
    /\ pageTour' = 1
    /\ UNCHANGED <<AsideVars, troubles, guide>>
\* Mutant: the last part is not recognised.
NextPartOn ==
    /\ PageCardShown
    /\ pageTour' = pageTour + 1
    /\ UNCHANGED <<AsideVars, counters, guide>>
NextPart ==
    /\ PageCardShown
    /\ IF pageTour < Len(TourDefinitions[page])
       THEN pageTour' = pageTour + 1
       ELSE pageTour' = 0
    /\ UNCHANGED <<AsideVars, counters, guide>>
PrevPart ==
    /\ PageCardShown /\ pageTour > 1
    /\ pageTour' = pageTour - 1
    /\ UNCHANGED <<AsideVars, counters, guide>>
SkipPart ==
    /\ PageCardShown
    /\ pageTour' = 0
    /\ UNCHANGED <<AsideVars, counters, guide>>

ResetGuide ==
    /\ OnSettings /\ settings.configured /\ ~Covered /\ MayChoose
    /\ guide' = [active |-> FALSE, done |-> {}]
    /\ UNCHANGED <<AsideVars, troubles, pageTour>>
ReloadAll ==
    /\ Reload
    /\ guide' = [guide EXCEPT !.active = FALSE]
    /\ chat' = FALSE
    /\ tour' = AtWelcome
    /\ waits' = <<>>
    /\ dead' = FALSE
    /\ parts' = NewParts(TRUE)
    /\ pageTour' = 0

-----------------------------------------------------------------------------
InitAll ==
    /\ Init
    /\ guide = [active |-> FALSE, done |-> {}]
    /\ chat = FALSE
    /\ tour = AtWelcome
    /\ waits = <<>>
    /\ dead = FALSE
    /\ parts = NewParts(TRUE)
    /\ pageTour = 0

TourStep ==
    \/ StartTour \/ Skip \/ NextStep \/ PrevStep
    \/ \E p \in Visits : PullBack(p)
    \/ PageLoads
    \/ \E t \in {"editor", "optimize"} : SwitchTab(t)
    \/ OpenPageTour \/ NextPart \/ PrevPart \/ SkipPart
    \/ ResetGuide
Timers == \E i \in 1..Len(waits) : Poll(i) \/ GiveUp(i) \/ Settle(i)

Use == UserStep /\ ~Covered /\ (Touring => page' = page) /\ Follow
Served == Serve /\ Follow
Arrived == Arrival /\ Follow
Next ==
    \/ Use
    \/ Served
    \/ Arrived
    \/ Trouble /\ Follow
    \/ ReloadAll
    \/ TourStep
    \/ Timers

Spec == InitAll /\ [][Next]_vars
(* Requests are answered, or fail, in the end, and timers go off.           *)
FairSpec ==
    /\ Spec
    /\ WF_vars(Served)
    /\ WF_vars(Arrived)
    /\ WF_vars(Timers)

TypeOK ==
    /\ SessionTypeOK
    /\ guide \in [active : BOOLEAN, done : SUBSET Users]
    /\ chat \in BOOLEAN
    /\ tour \in [phase : {"welcome", "touring"}, step : 1..Len(Stops),
                 ready : BOOLEAN, found : BOOLEAN]
    /\ \A i \in 1..Len(waits) :
         waits[i] \in [step : 1..Len(Stops),
                       at : {"start", "poll", "settle", "centre"}]
    /\ dead \in BOOLEAN
    /\ parts \in [tab : {"editor", "optimize"}, loaded : BOOLEAN]
    /\ pageTour \in 0..4

(* TourAdvances: every step of the tour comes to a card the user can go on  *)
(* from, also when the part it points to never appears (the tour enters the *)
(* last step of the prompt page backwards, on the wrong tab) and when a     *)
(* link was used meanwhile, or the tour is over.                            *)
TourAdvances == Touring ~> tour.ready \/ ~Touring

(* WaitingEnds: neither the loading screen nor the tour keeps the user for  *)
(* ever (useInitializeData, DemoTour).                                      *)
WaitingEnds == LoadingEnds /\ TourAdvances
=============================================================================

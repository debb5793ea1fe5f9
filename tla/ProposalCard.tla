---------------------------- MODULE ProposalCard ----------------------------
(***************************************************************************)
(* What a proposal card of the chat panel draws (frontend                  *)
(* components/agent/ActionProposal.tsx, ProposalTimeline.tsx).  Time       *)
(* blocks are put under one tab per day, on a timeline of some hours next  *)
(* to the blocks the day already has; other actions are listed.  Days are  *)
(* numbers, day 0 is a Monday; times are minutes of the day.               *)
(***************************************************************************)
EXTENDS Integers, FiniteSets, FiniteSetsExt

CONSTANTS
    Today,
    None        \* the day of an action that is no time block, a missing id

ASSUME TodayAssumption == Today \in Int /\ None \notin Int

\* an action of a proposal; a block that lacks its day or times is another action
Action(id, day, start, end) == [id |-> id, day |-> day, start |-> start, end |-> end]

\* getDay: 0 is Sunday
DayOfWeek(d) == (d + 1) % 7

(* Mutant: Sunday is taken for the day before Monday.                      *)
DaysToMonday_NoSunday(d) == DayOfWeek(d) - 1

DaysToMonday(d) == IF DayOfWeek(d) = 0 THEN 6 ELSE DayOfWeek(d) - 1

WeekRange(d) == (d - DaysToMonday(d)) .. (d - DaysToMonday(d) + 6)

(* The days with a proposed block.                                         *)
ProposalDates(actions) == {a.day : a \in actions} \ {None}

(* expandToFullWeek: the days that get a tab.  When at least half of the   *)
(* proposed days are in the current week the tabs are those of that week.  *)
SortedDates(actions) ==
    LET dates == ProposalDates(actions)
        inCurrentWeek == Cardinality(dates \cap WeekRange(Today))
        useCurrentWeek == 2 * inCurrentWeek >= Cardinality(dates)
    IN  CASE dates = {} -> {}
          [] dates # {} /\ useCurrentWeek -> WeekRange(Today)
          [] dates # {} /\ ~useCurrentWeek ->
               Min(WeekRange(Min(dates))) .. Max(WeekRange(Max(dates)))

OnDay(actions, d) == {a \in actions : a.day = d}

(* The hours of a day's timeline: those of its blocks, proposed and already *)
(* there, and one more on both sides.                                       *)
DrawnHours(blocks) ==
    LET minHour == Min({24} \cup {b.start \div 60 : b \in blocks})
        maxHour == Max({0} \cup {(b.end + 59) \div 60 : b \in blocks})
    IN  IF blocks = {} THEN [from |-> 7, to |-> 19]
        ELSE [from |-> Max({0, minHour - 1}), to |-> Min({24, maxHour + 1})]

(* What the user finds on the card: the other actions, and the blocks under *)
(* a tab, within its hours.  existing are the blocks of the calendar.       *)
IsDrawn(a, actions, existing) ==
    LET h == DrawnHours(OnDay(actions, a.day) \cup OnDay(existing, a.day)) IN
    \/ a.day = None
    \/ /\ a.day \in SortedDates(actions)
       /\ h.from * 60 <= a.start /\ a.end <= h.to * 60
=============================================================================

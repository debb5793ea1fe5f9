------------------------------ MODULE Timeline ------------------------------
(***************************************************************************)
(* The arithmetic of the calendar pages: wall-clock times against UTC      *)
(* (frontend lib/timezone.ts), pointer positions against times and the     *)
(* results of a drag, a resize or a drop (components/common/timeline).     *)
(* Instants and times of day are minutes.  A pointer position is given as  *)
(* the minute of the day it points at, so heights and zoom do not matter.  *)
(***************************************************************************)
EXTENDS Integers

CONSTANTS
    OffsetBefore,   \* UTC offset of the user's timezone before Switch
    OffsetAfter,    \* and from Switch on
    Switch          \* the instant of a DST transition

ASSUME OffsetAssumption == {OffsetBefore, OffsetAfter, Switch} \subseteq Int

DayLength == 1440
Least(a, b) == IF a < b THEN a ELSE b
Greatest(a, b) == IF a > b THEN a ELSE b
Within(x, lo, hi) == Greatest(lo, Least(x, hi))

(* getTimezoneOffsetMinutes: the offset in force at an instant.            *)
Offset(t) == IF t < Switch THEN OffsetBefore ELSE OffsetAfter

(* getLocalDate, getLocalTime.                                             *)
LocalDate(t) == (t + Offset(t)) \div DayLength
LocalTime(t) == (t + Offset(t)) % DayLength

(* localToUtcDatetime: the offset is looked up at the local time taken as  *)
(* UTC.  Hours below 0 or above 23 run over into the neighbouring days.    *)
LocalToUtc(day, minute) ==
    LET estimate == day * DayLength + minute
    IN  estimate - Offset(estimate)

(* Mutant: the dates are taken as UTC dates.                               *)
UtcRangeOfUtcDates(first, last) ==
    [from |-> first * DayLength, to |-> (last + 1) * DayLength]

(* localDateToUtcRange.                                                    *)
UtcRange(first, last) ==
    [from |-> LocalToUtc(first, 0), to |-> LocalToUtc(last + 1, 0)]

(* minutesToTimeString followed by getMinutesFromTime: % keeps the sign of *)
(* its left operand in JavaScript while floor rounds down, so a negative   *)
(* time that is not on the hour comes back as another one.                 *)
AsTimeString(m) ==
    (m \div 60) * 60 + (IF m < 0 THEN -((-m) % 60) ELSE m % 60)

(* snapToInterval: Math.round to quarters of an hour.                      *)
Snap(m) == ((2 * m + 15) \div 30) * 15

(* yToMinutes: the pointer kept on the column, then snapped.               *)
YToMinutes(y, lo, hi) == Snap(Within(y, lo, hi))

(* calculateTimeFromYWithDuration: snapped, then kept so that the whole    *)
(* duration fits, if it can.                                               *)
TimeFromY(y, duration, lo, hi) ==
    LET start == Greatest(lo, Least(hi - duration, YToMinutes(y, lo, hi)))
    IN  [s |-> start, e |-> Least(start + duration, hi)]

(* The indicator of a dragged task, computed the other way around: kept so *)
(* that the duration fits, then snapped (TimeBlockTimeline).               *)
DropIndicator(y, duration, lo, hi) ==
    Snap(Greatest(lo, Least(hi - duration, Within(y, lo, hi))))

(* Mutant: a block pushed back into the column is cut there.               *)
DragToCut(s, e, grip, y, lo, hi) ==
    LET start == Snap(Greatest(lo, YToMinutes(y, lo, hi) - grip))
    IN  [s |-> AsTimeString(start), e |-> AsTimeString(Least(hi, start + e - s))]

(* handleMouseMove, moving a block: the grip keeps its distance from the   *)
(* start, the block is pushed back into the column and snapped again.      *)
DragTo(s, e, grip, y, lo, hi) ==
    LET length == e - s
        wanted == Greatest(lo, YToMinutes(y, lo, hi) - grip)
        start  == Snap(IF wanted + length > hi THEN hi - length ELSE wanted)
    IN  [s |-> AsTimeString(start), e |-> AsTimeString(start + length)]

(* handleMouseMove, resizing: the other edge stays, a quarter is left.     *)
ResizeTo(s, e, edge, y, lo, hi) ==
    LET m == YToMinutes(y, lo, hi)
    IN  IF edge = "top"
        THEN [s |-> AsTimeString(Greatest(lo, Least(m, e - 15))), e |-> e]
        ELSE [s |-> s, e |-> AsTimeString(Least(hi, Greatest(m, s + 15)))]

(* getTopPx, getHeightPx: where a block is drawn; never thinner than half  *)
(* an hour.                                                                *)
DrawnAt(s, e, lo, hi) ==
    LET top == Greatest(lo, s)
    IN  top .. (top + Greatest(30, Least(hi, e) - top))

(* getMonday, getWeekDates (day 0 is a Monday).                            *)
WeekOf(day) == {(day - (day % 7)) + i : i \in 0..6}
=============================================================================

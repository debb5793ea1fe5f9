------------------------------ MODULE Calendar ------------------------------
(***************************************************************************)
(* The daily and the weekly calendar: the store of time blocks and time    *)
(* entries behind them (useTimeBlockStore), the requests it has in flight, *)
(* the edit dialogs, and the gestures on the timeline.  The tables of the  *)
(* time block service are a set of rows; every request commits at once.    *)
(* A tab shows one of the two pages; a local time is a day and a minute.   *)
(***************************************************************************)
EXTENDS Timeline, Sequences, FiniteSets, SequencesExt

CONSTANTS
    Blocks, Entries,    \* identities of rows
    Tasks,              \* tasks that can be chosen
    NoTask, Empty, Typed, NoId,
    OldRows,            \* rows there are when the page is opened
    Days,               \* days that are navigated to
    Clock, Durations,   \* what the pickers offer
    Moments,            \* what time of day it may be
    Pointers,           \* positions of the pointer
    Estimate,           \* minutes of a task, 0 when unknown
    Pages,
    MaxEdits,           \* changes in dialogs
    MaxRequests,        \* requests sent, the lists included
    MaxInFlight         \* and at once

ASSUME IdentityAssumption == Blocks \cap Entries = {} /\ NoId \notin Blocks \cup Entries
ASSUME TimeAssumption ==
    /\ Days \subseteq Int /\ Clock \subseteq Int /\ Durations \subseteq Int
    /\ Moments \subseteq Int /\ Pointers \subseteq Int
ASSUME EstimateAssumption == Estimate \in [Tasks -> Nat] /\ NoTask \notin Tasks
ASSUME PagesAssumption == Pages \subseteq {"daily", "weekly"}
ASSUME BoundAssumption ==   \* The page opens with two lists.
    MaxEdits \in Nat /\ MaxInFlight \in Nat /\ MaxRequests \in Nat \ {0, 1}

VARIABLES
    page, day,
    rows,       \* time_blocks and time_entries
    view,       \* timeBlocks and timeEntries of the store: rows by their places
    error,      \* of the store
    calls,      \* requests in flight
    dialog,     \* the open dialog
    busy,       \* isEntrySubmitting
    gesture,    \* dragResizeState and previewTime of TimelineCore
    drag,       \* the task dragged to the timeline
    sent,       \* number of requests
    edits,      \* number of changes in dialogs
    stale       \* history: a request failed, overlapped or missed its row since the last list

uiVars == <<dialog, busy, gesture, drag>>
vars == <<page, day, rows, view, error, calls, sent, edits, stale, uiVars>>

Kind == {"block", "entry"}
KindOf(id) == IF id \in Blocks THEN "block" ELSE "entry"
Ids(kind) == IF kind = "block" THEN Blocks ELSE Entries

Row(id, s, e, task, name) ==
    [id |-> id, s |-> s, e |-> e, task |-> task, name |-> name]
Unset == Row(NoId, 0, 0, NoTask, Empty)
RowType ==
    [id : Blocks \cup Entries \cup {NoId}, s : Int, e : Int,
     task : Tasks \cup {NoTask}, name : Tasks \cup {Empty, Typed}]

ASSUME OldRowsAssumption ==
    /\ OldRows \subseteq RowType /\ IsFiniteSet(OldRows)
    /\ \A r \in OldRows : r.id # NoId
    /\ \A r, q \in OldRows : r.id = q.id => r = q

Instant(t) == LocalToUtc(t[1], t[2])
LocalOf(t) == <<LocalDate(t), LocalTime(t)>>

Closed == [open |-> FALSE, kind |-> "block", id |-> NoId, s |-> <<0, 0>>,
           e |-> <<0, 0>>, task |-> NoTask, name |-> Empty, mode |-> "existing"]
Idle == [on |-> FALSE, id |-> NoId, day |-> 0, edge |-> "move", s |-> 0, e |-> 0,
         grip |-> 0, ps |-> 0, pe |-> 0, inside |-> FALSE]
NoDrag == [held |-> FALSE, task |-> NoTask, over |-> FALSE, y |-> 0]

(* The pointer is not pressed, and no dialog covers the page; and the      *)
(* bound leaves something to send.                                         *)
Free == ~dialog.open /\ ~gesture.on /\ ~drag.held /\ sent < MaxRequests

----------------------------------------------------------------------------
(* What the pages show.                                                    *)

ShownDays == IF page = "daily" THEN {day} ELSE WeekOf(day)
Places(kind) == {i \in DOMAIN view[kind] : LocalDate(view[kind][i].s) \in ShownDays}
Shown(kind) == {view[kind][i] : i \in Places(kind)}
Columns == Shown("block")

WeeklyHours == [lo |-> 360, hi |-> 1320]

(* The hours of the column: fixed on the weekly page, widened for the data *)
(* of the day on the daily one.                                            *)
Hours ==
    IF page = "weekly" THEN WeeklyHours
    ELSE LET times == UNION {{LocalTime(r.s), LocalTime(r.e)} :
                                r \in Columns \cup Shown("entry")}
             hours == {(t \div 60) * 60 : t \in times} \cup {360}
         IN  [lo |-> CHOOSE h \in hours : \A k \in hours : h <= k, hi |-> DayLength]

----------------------------------------------------------------------------
(* Requests.                                                               *)

Call(op, kind, row, by) ==
    [op |-> op, kind |-> kind, row |-> row, by |-> by,
     first |-> 0, last |-> 0, stage |-> "sent", answer |-> {}]

ListCall(kind, days) ==
    [Call("list", kind, Unset, "page") EXCEPT
        !.first = CHOOSE d \in days : \A x \in days : d <= x,
        !.last = CHOOSE d \in days : \A x \in days : x <= d]

InFlight(kind) == {calls[i] : i \in {j \in DOMAIN calls : calls[j].kind = kind}}

Viewed(kind) == {view[kind][i].id : i \in DOMAIN view[kind]}

(* Two requests of which one may undo the other in the view.               *)
Disturbs(c, other) ==
    \/ c.op = "list"
    \/ other.op = "list"
    \/ c.row.id = other.row.id /\ c.row.id # NoId

(* A list that arrives under an open dialog may be without its row.  The   *)
(* answer to its update then replaces nothing, wherever the row is now.    *)
Misses(c) == c.op = "update" /\ c.row.id \notin Viewed(c.kind)

Send(new) ==
    /\ sent + Len(new) <= MaxRequests /\ Len(calls \o new) <= MaxInFlight
    /\ sent' = sent + Len(new)
    /\ calls' = calls \o new
    /\ stale' = [k \in Kind |->
           LET mine == {c \in ToSet(new) : c.kind = k}
           IN  IF \E c \in mine : c.op = "list" /\ InFlight(k) = {}
               THEN FALSE
               ELSE stale[k] \/ \E c \in mine :
                                  Misses(c) \/ \E o \in InFlight(k) : Disturbs(c, o)]

Lists(days) == <<ListCall("block", days), ListCall("entry", days)>>

(* fetchTimeBlocksForLocalDate and the like start by clearing the error.   *)
Fetch(days) == Send(Lists(days)) /\ error' = FALSE

Go(d) ==
    /\ Free
    /\ day' = d
    /\ Fetch(IF page = "daily" THEN {d} ELSE WeekOf(d))
    /\ UNCHANGED <<page, edits, rows, view, uiVars>>

(* The previous or next day, today, or one of the calendar; the lists are  *)
(* fetched when the date is another one.                                   *)
ShowDay(d) == page = "daily" /\ d # day /\ Go(d)

(* The previous, the next or the current week.                             *)
ShowWeek(d) == page = "weekly" /\ d \notin ShownDays /\ Go(d)

(* The retry button beside the error, on the daily page.                   *)
Retry ==
    /\ page = "daily" /\ error /\ Free
    /\ Fetch({day})
    /\ UNCHANGED <<page, edits, day, rows, view, uiVars>>

(* The time block service.  Only a creation is checked to end after it     *)
(* starts; an update leaves out what the client does not send, and a       *)
(* cleared task is not sent.                                               *)
Accepts(c) ==
    CASE c.op = "create" -> c.row.s < c.row.e
      [] c.op \in {"update", "delete"} -> \E r \in rows : r.id = c.row.id
      [] OTHER -> TRUE

Updated(r, c) ==
    IF c.by = "gesture" THEN [r EXCEPT !.s = c.row.s, !.e = c.row.e]
    ELSE [c.row EXCEPT !.task = IF @ = NoTask THEN r.task ELSE @]

Others(id) == {r \in rows : r.id # id}
TheRow(id) == CHOOSE r \in rows : r.id = id

(* Identities are made up by the service and never used again.             *)
Known ==
    {r.id : r \in rows} \cup {dialog.id, gesture.id} \cup (UNION {Viewed(k) : k \in Kind})
    \cup (UNION {{c.row.id} \cup {r.id : r \in c.answer} : c \in ToSet(calls)})

ServeList(c) ==
    LET range == UtcRange(c.first, c.last)
        found == {r \in rows : /\ KindOf(r.id) = c.kind
                               /\ r.s >= range.from /\ r.s < range.to}
    IN  /\ c.op = "list"
        /\ rows' = rows
        /\ calls' \in {[calls EXCEPT ![i].stage = "ok", ![i].answer = found] :
                          i \in {j \in DOMAIN calls : calls[j] = c}}

ServeWrite(c) ==
    \E i \in {j \in DOMAIN calls : calls[j] = c} :
    \E id \in IF c.op \in {"create", "stop"}
              THEN Ids(c.kind) \ Known
              ELSE {c.row.id} :
        LET new == IF c.op = "update" THEN Updated(TheRow(id), c)
                                      ELSE [c.row EXCEPT !.id = id]
        IN  /\ c.op # "list"
            /\ Accepts(c)
            /\ rows' = Others(id) \cup (IF c.op = "delete" THEN {} ELSE {new})
            /\ calls' = [calls EXCEPT ![i].stage = "ok", ![i].answer = {new}]

Serve ==
    /\ \E i \in DOMAIN calls :
          /\ calls[i].stage = "sent"
          /\ ServeList(calls[i]) \/ ServeWrite(calls[i])
    /\ UNCHANGED <<page, edits, day, view, error, sent, stale, uiVars>>

(* The store after a request: a list replaces what is there, a creation or *)
(* a stopped timer (insertTimeEntryLocal) appends, an update replaces the  *)
(* row with that id, a deletion filters it out; the others keep order and  *)
(* place.                                                                  *)
Merge(seq, c) ==
    LET new  == CHOOSE r \in c.answer : TRUE
        next == Max(DOMAIN seq \cup {0}) + 1
    IN  CASE c.op = "list" -> SetToSeq(c.answer)
          [] c.op \in {"create", "stop"} ->
                [i \in DOMAIN seq \cup {next} |-> IF i = next THEN new ELSE seq[i]]
          [] c.op = "update" ->
                [i \in DOMAIN seq |-> IF seq[i].id = c.row.id THEN new ELSE seq[i]]
          [] OTHER -> [i \in {j \in DOMAIN seq : seq[j].id # c.row.id} |-> seq[i]]

(* Mutant: the entry of a stopped timer is put among the blocks.           *)
SucceedIntoBlocks(c) ==
    /\ c.stage = "ok"
    /\ view' = [view EXCEPT ![IF c.op = "stop" THEN "block" ELSE c.kind] = Merge(@, c)]
    /\ UNCHANGED <<error, stale>>

Succeed(c) ==
    /\ c.stage = "ok"
    /\ view' = [view EXCEPT ![c.kind] = Merge(@, c)]
    /\ UNCHANGED <<error, stale>>

(* A request that does not reach the service, is refused, or whose answer   *)
(* is lost: the store only notes the error.                                *)
Failed(c) ==
    /\ error' = (error \/ c.by # "timer")
    /\ stale' = [stale EXCEPT ![c.kind] = TRUE]
    /\ UNCHANGED view

(* The awaits of save, handleEntrySave and handleDragEnd resume.  The      *)
(* store keeps errors to itself, so they go on as after a success: a       *)
(* dialog of this kind is closed, whichever it is, and a drag forgotten.   *)
Resume(c) ==
    /\ dialog' = IF c.by = "dialog" /\ dialog.kind = c.kind THEN Closed ELSE dialog
    /\ busy' = (busy /\ ~(c.by = "dialog" /\ c.kind = "entry"))
    /\ drag' = IF c.by = "drop" THEN [NoDrag EXCEPT !.held = drag.held] ELSE drag

Answer ==
    /\ \E i \in DOMAIN calls :
          /\ Succeed(calls[i]) \/ Failed(calls[i])
          /\ Resume(calls[i])
          /\ calls' = RemoveAt(calls, i)
    /\ UNCHANGED <<page, edits, day, rows, sent, gesture>>

----------------------------------------------------------------------------
(* Deletions and the timer.                                                *)

Discard(r) ==
    /\ Free
    /\ Send(<<Call("delete", KindOf(r.id), [Unset EXCEPT !.id = r.id], "page")>>)
    /\ UNCHANGED <<page, edits, day, rows, view, error, uiVars>>

(* The delete button of a block, after a confirmation.                     *)
DeleteBlock(r) == KindOf(r.id) = "block" /\ Discard(r)

(* That of an entry, which only the daily page shows.                      *)
DeleteEntry(r) == KindOf(r.id) = "entry" /\ page = "daily" /\ Discard(r)

(* The timer is stopped from its widget; the server makes the entry.       *)
StopTimer(d, now) ==
    /\ Free
    /\ Send(<<Call("stop", "entry",
                   Row(NoId, Instant(<<d, now - 30>>), Instant(<<d, now>>), NoTask, Typed),
                   "timer")>>)
    /\ UNCHANGED <<page, edits, day, rows, view, error, uiVars>>

----------------------------------------------------------------------------
(* The dialog of a block or an entry.                                      *)

Opening(kind, id, s, e, task, name) ==
    /\ Free
    /\ dialog' = [open |-> TRUE, kind |-> kind, id |-> id, s |-> s, e |-> e,
                  task |-> task, name |-> name,
                  mode |-> IF id # NoId /\ task = NoTask THEN "manual" ELSE "existing"]
    /\ UNCHANGED <<page, edits, day, rows, view, error, calls, busy, gesture, drag, sent, stale>>

(* The add buttons: an hour from the last quarter on, on the shown day.    *)
(* At 23 o'clock the end is written 24:mm.                                 *)
NewTimes(now) ==
    LET start == (now \div 15) * 15
    IN  [s |-> <<day, start>>, e |-> <<day, start + 60>>]

OpenNewBlock(now) ==
    /\ page = "daily"
    /\ Opening("block", NoId, NewTimes(now).s, NewTimes(now).e, NoTask, Empty)

OpenNewEntry(now) ==
    /\ page = "daily"
    /\ Opening("entry", NoId, NewTimes(now).s, NewTimes(now).e, NoTask, Empty)

(* openDialogWithTime: an end not after the start is one of the next day.  *)
OpenWithTime(d, s, e) ==
    Opening("block", NoId, <<d, s>>, <<IF e <= s THEN d + 1 ELSE d, e>>, NoTask, Empty)

(* A double click beside the blocks of the daily page.                     *)
DoubleClick(y) ==
    LET t == TimeFromY(y, 60, Hours.lo, Hours.hi)
    IN  page = "daily" /\ OpenWithTime(day, t.s, t.e)

(* A click into an hour of the week.                                       *)
ClickCell(d, y) ==
    LET hour == (Within(y, Hours.lo, Hours.hi - 1) \div 60) * 60
    IN  page = "weekly" /\ d \in ShownDays /\ OpenWithTime(d, hour, hour + 60)

EditBlock(r) ==
    /\ KindOf(r.id) = "block"
    /\ Opening("block", r.id, LocalOf(r.s), LocalOf(r.e), r.task, r.name)

EditEntry(r) ==
    /\ KindOf(r.id) = "entry" /\ page = "daily"
    /\ Opening("entry", r.id, LocalOf(r.s), LocalOf(r.e), r.task, r.name)

(* The setters of the fields that the page hands to the dialog.            *)
Edit(d) ==
    /\ dialog.open /\ edits < MaxEdits
    /\ dialog' = d /\ edits' = edits + 1
    /\ UNCHANGED <<page, day, rows, view, error, calls, busy, gesture, drag, sent, stale>>

(* DateTimeRangePicker: a new start drags the end along, by what the times *)
(* of day are apart, half an hour at least, and not beyond 23:55.  A time  *)
(* written 24:mm cannot be parsed: changing an end that depends on it      *)
(* throws after the start was set.                                         *)
Until(m, duration) == Least(m + duration, DayLength - 5)
Parses(t) == t[2] < DayLength

PickStart(m) ==
    LET length == Greatest(dialog.e[2] - dialog.s[2], 30)
    IN  Edit([dialog EXCEPT !.s[2] = m,
                            !.e = IF Parses(@) THEN <<@[1], Until(m, length)>> ELSE @])

PickEnd(m) == Parses(dialog.e) /\ Edit([dialog EXCEPT !.e[2] = m])

PickDate(d) == Edit([dialog EXCEPT !.s[1] = d, !.e = IF Parses(@) THEN <<d, @[2]>> ELSE @])

PickDuration(n) ==
    Parses(dialog.e) /\ Edit([dialog EXCEPT !.e[2] = Until(dialog.s[2], n)])

(* A task selected: its name with it, and the end if it has an estimate.   *)
SelectTask(t) ==
    /\ dialog.mode = "existing"
    /\ LET end == dialog.s[2] + Estimate[t]
       IN  Edit([dialog EXCEPT !.task = t, !.name = t,
                    !.e = IF Estimate[t] = 0 THEN @
                          ELSE <<dialog.s[1] + end \div DayLength, end % DayLength>>])

(* handleAddTask: a task made in the dialog gives its name; the id of the  *)
(* task selected before, if any, stays.                                    *)
WithNewTask(d) == [d EXCEPT !.name = Typed]

AddTask == dialog.mode = "existing" /\ Edit(WithNewTask(dialog))

(* The mode buttons: to a task, the name is cleared but not the id; to a   *)
(* typed name, the id.                                                     *)
SetMode(mode) ==
    Edit(IF mode = "existing" THEN [dialog EXCEPT !.mode = mode, !.name = Empty]
                              ELSE [dialog EXCEPT !.mode = mode, !.task = NoTask])

TypeName(name) == dialog.mode = "manual" /\ Edit([dialog EXCEPT !.name = name])

(* The dialog is left by its buttons, Escape or a click outside.           *)
Cancel ==
    /\ dialog.open /\ dialog' = Closed
    /\ UNCHANGED <<page, edits, day, rows, view, error, calls, busy, gesture, drag, sent, stale>>

(* Mutant: the button is not disabled while a save is under way.           *)
CanSaveTwice == dialog.open /\ dialog.name # Empty

CanSave == dialog.open /\ dialog.name # Empty /\ (dialog.kind = "entry" => ~busy)

Submit(kind) ==
    /\ dialog.kind = kind /\ CanSave
    /\ Send(<<Call(IF dialog.id = NoId THEN "create" ELSE "update", kind,
                   Row(dialog.id, Instant(dialog.s), Instant(dialog.e), dialog.task, dialog.name),
                   "dialog")>>)
    /\ UNCHANGED <<page, edits, day, rows, view, error, dialog, gesture, drag>>

(* save, handleEntrySave: the dialog stays open until the answer; only the *)
(* one of entries cannot be submitted again meanwhile.                     *)
SaveBlock == Submit("block") /\ UNCHANGED busy

SaveEntry == Submit("entry") /\ busy' = TRUE

----------------------------------------------------------------------------
(* Moving and resizing a block on the timeline.                            *)

(* handleDragStart, handleResizeStart: the times of the block are taken    *)
(* down; they stay the reference until the button is released.             *)
GestureOn(r, edge, grip) ==
    [on |-> TRUE, id |-> r.id, day |-> LocalDate(r.s), edge |-> edge, grip |-> grip,
     s |-> LocalTime(r.s), e |-> LocalTime(r.e),
     ps |-> LocalTime(r.s), pe |-> LocalTime(r.e), inside |-> FALSE]

GrabBlock(r, y) ==
    gesture' = GestureOn(r, "move", YToMinutes(y, Hours.lo, Hours.hi) - LocalTime(r.s))

GrabEdge(r, edge) == gesture' = GestureOn(r, edge, 0)

(* A drawn block has its name to take it by and a handle at either edge.   *)
Grab(r, y) ==
    /\ Free
    /\ y \in DrawnAt(LocalTime(r.s), LocalTime(r.e), Hours.lo, Hours.hi)
    /\ GrabBlock(r, y) \/ GrabEdge(r, "top") \/ GrabEdge(r, "bottom")
    /\ UNCHANGED <<page, edits, day, rows, view, error, calls, dialog, busy, drag, sent, stale>>

(* handleMouseMove, against the hours the column has by then.              *)
Move(y) ==
    LET g == gesture
        t == IF g.edge = "move" THEN DragTo(g.s, g.e, g.grip, y, Hours.lo, Hours.hi)
             ELSE ResizeTo(g.s, g.e, g.edge, y, Hours.lo, Hours.hi)
    IN  /\ g.on
        /\ gesture' = [g EXCEPT !.ps = t.s, !.pe = t.e,
                         !.inside = Hours.lo <= g.s /\ g.s < g.e /\ g.e <= Hours.hi]
        /\ UNCHANGED <<page, edits, day, rows, view, error, calls, dialog, busy, drag, sent, stale>>

(* handleMouseUp: an update if the times are other than the first ones;    *)
(* the click that follows is suppressed.                                   *)
Release ==
    LET g == gesture
        row == [Unset EXCEPT !.id = g.id, !.s = Instant(<<g.day, g.ps>>),
                             !.e = Instant(<<g.day, g.pe>>)]
    IN  /\ g.on
        /\ gesture' = Idle
        /\ IF <<g.ps, g.pe>> # <<g.s, g.e>>
           THEN Send(<<Call("update", "block", row, "gesture")>>)
           ELSE UNCHANGED <<calls, sent, stale>>
        /\ UNCHANGED <<page, edits, day, rows, view, error, dialog, busy, drag>>

----------------------------------------------------------------------------
(* Dragging a task to the timeline.                                        *)

Length(t) == IF t = NoTask \/ Estimate[t] = 0 THEN 60 ELSE Estimate[t]

PickUp(t) ==
    /\ Free
    /\ drag' = [NoDrag EXCEPT !.held = TRUE, !.task = t]
    /\ UNCHANGED <<page, edits, day, rows, view, error, calls, sent, stale, dialog, busy, gesture>>

DragOver(over, y) ==
    /\ drag.held /\ drag.task # NoTask
    /\ drag' = [drag EXCEPT !.over = over, !.y = IF over THEN y ELSE 0]
    /\ UNCHANGED <<page, edits, day, rows, view, error, calls, sent, stale, dialog, busy, gesture>>

(* handleDragEnd of the daily page: over the timeline, a block is created  *)
(* and the drag is forgotten when the answer is there, one started         *)
(* meanwhile with it; elsewhere nothing is created.                        *)
DropOnDay ==
    LET t == TimeFromY(drag.y, Length(drag.task), Hours.lo, Hours.hi)
        row == Row(NoId, Instant(<<day, t.s>>), Instant(<<day, t.e>>), drag.task, drag.task)
    IN  /\ page = "daily" /\ drag.held
        /\ IF drag.task # NoTask /\ drag.over
           THEN /\ Send(<<Call("create", "block", row, "drop")>>)
                /\ drag' = [drag EXCEPT !.held = FALSE]
           ELSE drag' = NoDrag /\ UNCHANGED <<calls, sent, stale>>
        /\ UNCHANGED <<page, edits, day, rows, view, error, dialog, busy, gesture>>

(* That of the weekly page, which looks for an element with an attribute   *)
(* that no column carries: nothing is ever created.                        *)
DropOnWeek ==
    /\ page = "weekly" /\ drag.held
    /\ drag' = NoDrag
    /\ UNCHANGED <<page, edits, day, rows, view, error, calls, sent, stale, dialog, busy, gesture>>

----------------------------------------------------------------------------
Init ==
    /\ page \in Pages
    /\ day \in Days
    /\ rows = OldRows
    /\ view = [k \in Kind |-> <<>>]
    /\ error = FALSE
    /\ dialog = Closed /\ busy = FALSE /\ gesture = Idle /\ drag = NoDrag
    /\ calls = Lists(ShownDays)
    /\ sent = 2 /\ edits = 0
    /\ stale = [k \in Kind |-> FALSE]

ShownRows == Columns \cup Shown("entry")

Next ==
    \/ \E d \in Days : ShowDay(d) \/ ShowWeek(d) \/ PickDate(d)
    \/ Retry
    \/ Serve
    \/ Answer
    \/ \E r \in ShownRows : DeleteBlock(r) \/ DeleteEntry(r) \/ EditBlock(r) \/ EditEntry(r)
    \/ \E now \in Moments :
          OpenNewBlock(now) \/ OpenNewEntry(now) \/ \E d \in Days : StopTimer(d, now)
    \/ \E y \in Pointers : DoubleClick(y) \/ Move(y) \/ \E d \in Days : ClickCell(d, y)
    \/ \E m \in Clock : PickStart(m) \/ PickEnd(m)
    \/ \E n \in Durations : PickDuration(n)
    \/ \E t \in Tasks : SelectTask(t) \/ PickUp(t)
    \/ AddTask
    \/ \E mode \in {"existing", "manual"} : SetMode(mode)
    \/ \E name \in {Empty, Typed} : TypeName(name)
    \/ Cancel
    \/ SaveBlock
    \/ SaveEntry
    \/ \E r \in Columns, y \in Pointers : Grab(r, y)
    \/ Release
    \/ \E over \in BOOLEAN, y \in Pointers : DragOver(over, y)
    \/ DropOnDay
    \/ DropOnWeek

Spec == Init /\ [][Next]_vars

----------------------------------------------------------------------------
(* Properties.                                                             *)

(* Every variable has its type.                                            *)
TypeOK ==
    /\ day \in Int /\ error \in BOOLEAN /\ busy \in BOOLEAN
    /\ \A r \in rows : r.id \in Blocks \cup Entries
    /\ \A k \in Kind : \A i \in DOMAIN view[k] : KindOf(view[k][i].id) = k
    /\ dialog.open \in BOOLEAN /\ gesture.on \in BOOLEAN /\ drag.held \in BOOLEAN
    /\ \A i \in DOMAIN calls : calls[i].stage \in {"sent", "ok"}
    /\ sent \in 0..MaxRequests /\ edits \in 0..MaxEdits

MoveFaithful ==
    gesture.on /\ gesture.inside =>
        LET g == gesture
        IN  /\ 0 <= g.ps /\ g.ps < g.pe
            /\ CASE g.edge = "move"   -> g.pe - g.ps = g.e - g.s
                 [] g.edge = "top"    -> g.pe = g.e
                 [] g.edge = "bottom" -> g.ps = g.s

DropFaithful ==
    drag.over /\ drag.task # NoTask /\ Length(drag.task) % 15 = 0 =>
        LET landing == TimeFromY(drag.y, Length(drag.task), Hours.lo, Hours.hi)
        IN  /\ landing.s = DropIndicator(drag.y, Length(drag.task), Hours.lo, Hours.hi)
            /\ landing.e - landing.s = Least(Length(drag.task), Hours.hi - Hours.lo)

(* What the pointer shows is what will be saved.  A block that lies within *)
(* the hours of its column keeps its length when it is moved and its other *)
(* edge when it is resized, and ends after it starts, wherever the pointer *)
(* goes, off the column and off the quarters (handleMouseMove); a dropped  *)
(* task lands where the indicator was, whole or filling the column (two    *)
(* computations: that of the indicator keeps it in the column before       *)
(* rounding, the other one after).                                         *)
GestureFaithful == MoveFaithful /\ DropFaithful

(* When nothing is in flight, the page shows every row of its days, as it  *)
(* is in the table, once; unless since the last list a request failed, was *)
(* about a row that the store no longer holds, or overlapped with one that *)
(* its answer could undo (useTimeBlockStore).                              *)
ViewTrue ==
    calls = <<>> =>
        \A k \in Kind :
            ~stale[k] =>
                /\ Shown(k) = {r \in rows : KindOf(r.id) = k /\ LocalDate(r.s) \in ShownDays}
                /\ \A i, j \in Places(k) : i # j => view[k][i].id # view[k][j].id

(* The save button of an entry is disabled exactly while one save of an    *)
(* entry is under way, whatever dialogs are closed and opened meanwhile    *)
(* (isEntrySubmitting): no entry is saved twice, and none is left that     *)
(* cannot be saved.                                                        *)
SubmittingIsSaving ==
    Cardinality({i \in DOMAIN calls : calls[i].kind = "entry" /\ calls[i].by = "dialog"})
        = IF busy THEN 1 ELSE 0

(* A row that belongs to a task is named after it (TimeBlockDialog: the id *)
(* of a task stays undefined until the new task is known).                 *)
NameIsTasks == \A r \in rows : r.task # NoTask => r.name = r.task
=============================================================================

----------------------------- MODULE TaskBoard -----------------------------
(***************************************************************************)
(* The task management page (T01) with its goals, milestones, tags and     *)
(* tasks, the task list of the daily page, and the panel of one task that  *)
(* both pages open over themselves: the four list stores, the requests     *)
(* they have in flight, the selections the page makes by itself, and what  *)
(* is done when an answer arrives.  The task service's tables are a set of *)
(* rows; every request commits at once.  Dates, colours, descriptions and  *)
(* the search box are left out, and so is the selection of several tasks,  *)
(* which no control of the page can start.                                 *)
(***************************************************************************)
EXTENDS Integers, Sequences, FiniteSets, SequencesExt

CONSTANTS
    Goals, Milestones, Tags, Tasks,     \* identities of rows
    NoId, Standalone,                   \* nothing, '__standalone__'
    Names, Empty,                       \* what can be typed
    OldRows,        \* rows there are when the page is opened
    MaxEdits,       \* changes in dialogs, in the panel's name field, of the switch
    MaxRequests,    \* requests sent
    MaxInFlight     \* and at once

VARIABLES
    page,
    rows,       \* goals, milestones, tags and tasks
    view,       \* items of the stores, per kind
    error,      \* of some store
    calls,      \* requests in flight
    hide,       \* hideCompleted
    sel,        \* selectedGoalId and selectedMilestoneId
    dialog,     \* the open dialog
    panel,      \* useTaskDetailPanel, navigatedTaskId
    text,       \* editingName of the panel
    sent, edits,
    typedFor,   \* history: the task that text was typed for
    stale,      \* history: a request failed, or two overlapped
    pulled      \* history: rows that went while selected, other than by a
                \* deletion that was asked for while they were selected

uiVars == <<hide, sel, dialog, panel, text, typedFor, pulled>>
vars == <<page, rows, view, error, calls, sent, edits, stale, uiVars>>

Kind == {"goal", "milestone", "tag", "task"}
Ids == [goal |-> Goals, milestone |-> Milestones, tag |-> Tags, task |-> Tasks]
KindOf(id) == CHOOSE k \in Kind : id \in Ids[k]
OfKind(k) == {r \in rows : KindOf(r.id) = k}

(* up is the goal of a milestone or the milestone of a task.               *)
Row(id, up, parent, name) ==
    [id |-> id, up |-> up, parent |-> parent, name |-> name,
     status |-> "active", pos |-> 0]

IdsOf(seq) == {r.id : r \in ToSet(seq)}
Find(seq, id) == CHOOSE r \in ToSet(seq) : r.id = id

NoDialog == [open |-> FALSE, kind |-> "goal", id |-> NoId, goal |-> NoId,
             name |-> Empty, status |-> "active"]
NoPanel == [task |-> NoId, create |-> FALSE, up |-> NoId, parent |-> NoId,
            nav |-> NoId, focus |-> FALSE]
IsOpen(p) == p.create \/ p.task # NoId

(* Nothing more is done once the last request is answered.                *)
More == sent < MaxRequests \/ calls # <<>>
Free == ~dialog.open /\ ~IsOpen(panel) /\ sent < MaxRequests

----------------------------------------------------------------------------
(* What the pages show.                                                    *)

Visible(r) == r.status # "archived" /\ ~(hide /\ r.status = "completed")

FilteredGoals == SelectSeq(view["goal"], Visible)

OfGoal(v, g) == SelectSeq(v["milestone"], LAMBDA r : r.up = g)

ShownMilestones ==
    IF sel.goal \in {NoId, Standalone} THEN <<>>
    ELSE SelectSeq(OfGoal(view, sel.goal), Visible)

OfMilestone(v, m) == SelectSeq(v["task"], LAMBDA r : r.up = m /\ r.parent = NoId)
StandaloneTasks == OfMilestone(view, NoId)
ChildTasks(id) == SelectSeq(view["task"], LAMBDA r : r.parent = id)

(* filterTasks: what is done goes to the bottom, the rest by sortOrder.    *)
Before(a, b) ==
    IF a.status # b.status THEN b.status = "completed" ELSE a.pos < b.pos
FilterTasks(seq) == SetToSortSeq(ToSet(SelectSeq(seq, Visible)), Before)

ShownTasks ==
    CASE sel.ms # NoId -> FilterTasks(OfMilestone(view, sel.ms))
      [] sel.ms = NoId /\ sel.goal = Standalone -> FilterTasks(StandaloneTasks)
      [] OTHER -> <<>>

(* The rows of the third column, subtasks included, and those the daily    *)
(* page lists, unless a store has an error.                                *)
Listed ==
    IF page = "tasks"
    THEN ToSet(ShownTasks) \cup UNION {ToSet(FilterTasks(ChildTasks(r.id))) : r \in ToSet(ShownTasks)}
    ELSE {r \in ToSet(view["task"]) :
             /\ ~error
             /\ r.parent = NoId /\ r.status # "completed"
             /\ \/ r.up = NoId
                \/ \E m \in ToSet(view["milestone"]) :
                      m.id = r.up /\ m.status = "active" /\ m.up \in IdsOf(view["goal"])}

----------------------------------------------------------------------------
(* The effects that follow a change of the selection.                      *)

FirstOf(seq) ==
    LET open == SelectSeq(seq, LAMBDA r : r.status # "archived")
    IN  IF open = <<>> THEN NoId ELSE open[1].id

(* The first goal when none is selected.                                   *)
GoalFor(g, v) == IF g = NoId THEN FirstOf(v["goal"]) ELSE g

(* The first milestone of the goal when another's is selected.             *)
MilestoneFor(g, m, v) ==
    LET open == {r.id : r \in {x \in ToSet(OfGoal(v, g)) : x.status # "archived"}}
    IN  CASE g \in {NoId, Standalone} -> m
          [] g \notin {NoId, Standalone} /\ m \in open -> m
          [] OTHER -> FirstOf(OfGoal(v, g))

(* They run when the selection is another one, the first also when goals   *)
(* change.                                                                 *)
Selected(old, g, m, v) ==
    LET goal == GoalFor(g, v)
    IN  IF <<goal, m>> = <<old.goal, old.ms>> THEN old
        ELSE [goal |-> goal, ms |-> MilestoneFor(goal, m, v)]

(* The task the panel displays, and the effect that sets the name field    *)
(* when the task, its name or the mode becomes another.                    *)
Displayed(p, v) ==
    LET id == IF p.nav # NoId THEN p.nav ELSE p.task
    IN  IF ~p.create /\ id \in IdsOf(v["task"]) THEN id ELSE NoId

NameShown(p, v) ==
    LET id == Displayed(p, v) IN IF id = NoId THEN Empty ELSE Find(v["task"], id).name

(* Mutant: the effect does not depend on the id of the task.               *)
WatchNames(p, v) == <<NoId, NameShown(p, v), p.create>>

Watched(p, v) == <<Displayed(p, v), NameShown(p, v), p.create>>

Retext(p, v) ==
    IF Watched(p, v) # Watched(panel, view) /\ (p.create \/ Displayed(p, v) # NoId)
    THEN text' = NameShown(p, v) /\ typedFor' = NoId
    ELSE UNCHANGED <<text, typedFor>>

ShowPanel(p) == panel' = p /\ Retext(p, view)

----------------------------------------------------------------------------
(* Requests.                                                               *)

Call(op, kind, row, by) ==
    [op |-> op, kind |-> kind, row |-> row, ids |-> <<>>, by |-> by,
     was |-> NoId, stage |-> "sent", answer |-> {}]

(* The four lists count as one.                                            *)
Send(new) ==
    /\ sent < MaxRequests /\ sent' = sent + 1
    /\ Len(SelectSeq(calls \o new, LAMBDA c : c.op # "list")) <= MaxInFlight
    /\ calls' = calls \o new
    /\ stale' = ((stale \/ calls # <<>>) /\ ~(calls = <<>> /\ Len(new) = 4))

Ask(c) == Send(<<c>>)

(* Identities are not used twice, and the choice of one is of no account.  *)
Known ==
    {r.id : r \in rows} \cup UNION {{r.id, r.up, r.parent} : r \in UNION {ToSet(view[k]) : k \in Kind}}
    \cup {dialog.id, panel.task, panel.nav, panel.parent, panel.up, sel.goal, sel.ms, typedFor}
    \cup UNION {{c.row.id, c.row.up, c.row.parent} \cup {r.id : r \in c.answer} \cup ToSet(c.ids)
                  : c \in ToSet(calls)}
Unseen(ids) == IF ids \subseteq Known THEN {} ELSE {CHOOSE id \in ids : id \notin Known}

Exists(id) == id = NoId \/ \E r \in rows : r.id = id
TheRow(id) == CHOOSE r \in rows : r.id = id

(* CreateGoal counts positions on, tasks all start at 0.                   *)
Created(c, id) ==
    [c.row EXCEPT !.id = id,
                  !.pos = IF c.kind = "goal" THEN Cardinality(OfKind("goal")) ELSE 0]

(* What is sent is changed; a cleared milestone is not sent.               *)
Updated(c) ==
    LET old == TheRow(c.row.id)
    IN  CASE c.op = "toggle" ->
               [old EXCEPT !.status = IF @ = "active" THEN "completed" ELSE "active"]
          [] c.op = "rename" -> [old EXCEPT !.name = c.row.name]
          [] c.op = "move"   -> [old EXCEPT !.up = IF c.row.up = NoId THEN @ ELSE c.row.up]
          [] c.op = "status" -> [old EXCEPT !.status = c.row.status]
          [] OTHER -> [old EXCEPT !.name = c.row.name, !.status = c.row.status]

(* The foreign keys: milestones go with their goal; a task loses its       *)
(* milestone or its parent and stays.                                      *)
AfterDeletion(id) ==
    LET gone == {id} \cup {r.id : r \in {x \in OfKind("milestone") : x.up = id}}
    IN  {[r EXCEPT !.up = IF @ \in gone THEN NoId ELSE @,
                   !.parent = IF @ \in gone THEN NoId ELSE @] :
            r \in {x \in rows : x.id \notin gone}}

Positioned(ids) ==
    {IF r.id \in ToSet(ids)
     THEN [r EXCEPT !.pos = (CHOOSE i \in DOMAIN ids : ids[i] = r.id) - 1]
     ELSE r : r \in rows}

Done(i, new, answer) ==
    /\ rows' = new
    /\ calls' = [calls EXCEPT ![i].stage = "ok", ![i].answer = answer]

ServeList(c, i) == c.op = "list" /\ Done(i, rows, OfKind(c.kind))

ServeCreate(c, i) ==
    /\ c.op = "create" /\ Exists(c.row.up) /\ Exists(c.row.parent)
    /\ \E id \in Unseen(Ids[c.kind]) :
          Done(i, rows \cup {Created(c, id)}, {Created(c, id)})

ServeUpdate(c, i) ==
    /\ c.op \in {"update", "rename", "move", "status", "toggle"}
    /\ Exists(c.row.id) /\ Exists(c.row.up)
    /\ Done(i, (rows \ {TheRow(c.row.id)}) \cup {Updated(c)}, {Updated(c)})

ServeDelete(c, i) ==
    c.op = "delete" /\ Exists(c.row.id) /\ Done(i, AfterDeletion(c.row.id), {})

ServeReorder(c, i) ==
    /\ c.op = "reorder"
    /\ Done(i, Positioned(c.ids), {r \in Positioned(c.ids) : r.id \in ToSet(c.ids)})

Serve ==
    /\ \E i \in DOMAIN calls :
          /\ calls[i].stage = "sent"
          /\ \/ ServeList(calls[i], i) \/ ServeCreate(calls[i], i) \/ ServeUpdate(calls[i], i)
             \/ ServeDelete(calls[i], i) \/ ServeReorder(calls[i], i)
    /\ UNCHANGED <<page, view, error, sent, edits, stale, uiVars>>

----------------------------------------------------------------------------
(* Answers.                                                                *)

(* Mutant: what is deleted at the server stays in the store.               *)
Kept(seq, c) == seq

Removed(seq, c) ==
    SelectSeq(seq, LAMBDA r : r.id # c.row.id /\ (c.kind = "task" => r.parent # c.row.id))

Replaced(seq, new) ==
    [i \in DOMAIN seq |-> IF seq[i].id \in {r.id : r \in new}
                          THEN CHOOSE r \in new : r.id = seq[i].id ELSE seq[i]]

InOrder(set) == SetToSortSeq(set, LAMBDA a, b : a.pos < b.pos)

Reordered(seq, c) ==
    IF c.kind = "goal" THEN InOrder(ToSet(Replaced(seq, c.answer)))
    ELSE Replaced(seq, c.answer)

Merged(c) ==
    LET old == view[c.kind]
    IN  [view EXCEPT ![c.kind] =
           CASE c.op = "list"    -> InOrder(c.answer)
             [] c.op = "create"  -> old \o SetToSeq(c.answer)
             [] c.op = "delete"  -> Removed(old, c)
             [] c.op = "reorder" -> Reordered(old, c)
             [] OTHER            -> Replaced(old, c.answer)]

(* Mutant: the context of creating is not cleared.                         *)
PanelStillCreating(c, ok) ==
    IF c.by = "panel-create" /\ ok
    THEN [panel EXCEPT !.task = (CHOOSE r \in c.answer : TRUE).id] ELSE panel

(* onCreated, and the end of the panel's handleDelete, which does not know *)
(* whether the store succeeded.                                            *)
PanelAfter(c, ok) ==
    CASE c.by = "panel-create" /\ ok ->
           [NoPanel EXCEPT !.task = (CHOOSE r \in c.answer : TRUE).id]
      [] c.by = "panel-delete" /\ c.was # NoId -> [panel EXCEPT !.nav = NoId]
      [] c.by = "panel-delete" /\ c.was = NoId -> NoPanel
      [] OTHER -> panel

(* A dialog that saved closes the one of its kind that is open by then.    *)
DialogAfter(c) ==
    IF c.by = "dialog" /\ dialog.kind = c.kind THEN NoDialog ELSE dialog

(* handleDeleteGoal and handleDeleteMilestone compare with the selection   *)
(* of the time of the click; a failed goal resets the milestone too.       *)
SelectionAfter(c, ok) ==
    LET mine == c.was = c.row.id
    IN  [goal |-> IF c.by = "goal-delete" /\ mine /\ ok THEN NoId ELSE sel.goal,
         ms   |-> IF \/ (c.by = "goal-delete" /\ mine)
                     \/ (c.by = "ms-delete" /\ mine /\ ok)
                  THEN NoId ELSE sel.ms]

(* What follows an answer: the store, the handler, the effects.            *)
Settle(c, ok) ==
    LET v == IF ok THEN Merged(c) ELSE view
        s == SelectionAfter(c, ok)
        gone == UNION {IdsOf(view[k]) \ IdsOf(v[k]) : k \in Kind}
    IN  /\ view' = v
        /\ panel' = PanelAfter(c, ok)
        /\ Retext(PanelAfter(c, ok), v)
        /\ dialog' = DialogAfter(c)
        /\ sel' = IF page = "tasks" THEN Selected(sel, s.goal, s.ms, v) ELSE sel
        /\ pulled' = (pulled \cup IF c.op = "delete" /\ c.was = c.row.id THEN {} ELSE gone) \cap {sel'.goal, sel'.ms}

Without(i) == calls' = RemoveAt(calls, i)

Succeed(i) ==
    /\ calls[i].stage = "ok" /\ Without(i)
    /\ Settle(calls[i], TRUE)
    /\ UNCHANGED <<error, stale>>

Failed(i) ==
    /\ Without(i)
    /\ Settle(calls[i], FALSE)
    /\ error' = TRUE
    /\ stale' = TRUE

Answer ==
    /\ \E i \in DOMAIN calls : Succeed(i) \/ Failed(i)
    /\ UNCHANGED <<page, rows, hide, sent, edits>>

----------------------------------------------------------------------------
(* The pages.                                                              *)

NoSelection == [goal |-> NoId, ms |-> NoId]
Fresh(p, v) == IF p = "tasks" THEN Selected(NoSelection, NoId, NoId, v) ELSE NoSelection

(* (Pages are left while something is in flight or failed, and not after   *)
(* the last request: bounds, as for what is typed.)                        *)
GoTo(p) ==
    /\ p # page /\ sent < MaxRequests /\ (calls # <<>> \/ error)
    /\ page' = p
    /\ sel' = Fresh(p, view)
    /\ dialog' = NoDialog /\ panel' = NoPanel /\ text' = Empty /\ typedFor' = NoId
    /\ pulled' = {}
    /\ calls' = [i \in DOMAIN calls |-> [calls[i] EXCEPT !.by = "gone", !.was = NoId]]
    /\ UNCHANGED <<rows, view, error, hide, sent, edits, stale>>

List(k) == Call("list", k, Row(NoId, NoId, NoId, Empty), "page")

(* The daily page offers to load all again when a store has an error.      *)
Retry ==
    /\ page = "daily" /\ ~IsOpen(panel) /\ error
    /\ Send(<<List("task"), List("goal"), List("milestone"), List("tag")>>)
    /\ error' = FALSE
    /\ UNCHANGED <<page, rows, view, edits, uiVars>>

OnBoard == page = "tasks" /\ Free

Select(g, m) ==
    /\ sel' = Selected(sel, g, m, view)
    /\ pulled' = pulled \cap {sel'.goal, sel'.ms}
    /\ UNCHANGED <<page, rows, view, error, calls, sent, edits, stale, hide, dialog, panel, text, typedFor>>

SelectGoal == \E r \in ToSet(FilteredGoals) : Select(r.id, sel.ms)
SelectStandalone == StandaloneTasks # <<>> /\ Select(Standalone, NoId)
SelectMilestone == \E r \in ToSet(ShownMilestones) : Select(sel.goal, r.id)

SetHideCompleted ==
    /\ hide' = ~hide /\ edits < MaxEdits /\ edits' = edits + 1
    /\ UNCHANGED <<page, rows, view, error, calls, sent, stale, sel, dialog, panel, text, typedFor, pulled>>

(* A request from the page itself: nothing else changes.                   *)
Request(c) == Ask(c) /\ UNCHANGED <<page, rows, view, error, edits, uiVars>>

(* A row is dropped on another row of its list: arrayMove.                 *)
Drag(kind, list) ==
    \E i, j \in DOMAIN list :
        /\ i # j
        /\ Request([Call("reorder", kind, Row(NoId, NoId, NoId, Empty), "page")
                      EXCEPT !.ids = LET ids == [k \in DOMAIN list |-> list[k].id]
                                     IN  InsertAt(RemoveAt(ids, i), j, ids[i])])

(* What is hidden because it is completed is part of the order.            *)
DragGoal ==
    Drag("goal", SelectSeq(view["goal"], LAMBDA r : r.status # "archived"))
DragTask == Drag("task", ShownTasks)

Complete(r) ==
    /\ r.status # "completed"
    /\ Request(Call("status", KindOf(r.id), [r EXCEPT !.status = "completed"], "page"))
CompleteGoal == \E r \in ToSet(FilteredGoals) : Complete(r)
CompleteMilestone == \E r \in ToSet(ShownMilestones) : Complete(r)

Delete(r, by, was) ==
    Request([Call("delete", KindOf(r.id), r, by) EXCEPT !.was = was])
DeleteGoal == \E r \in ToSet(FilteredGoals) : Delete(r, "goal-delete", sel.goal)
DeleteMilestone == \E r \in ToSet(ShownMilestones) : Delete(r, "ms-delete", sel.ms)
DeleteTag == \E r \in ToSet(view["tag"]) : Delete(r, "page", NoId)
DeleteTask == \E r \in Listed : Delete(r, "page", NoId)

ToggleListed ==
    \E r \in Listed : Request(Call("toggle", "task", r, "page"))

----------------------------------------------------------------------------
(* The dialogs of goals, milestones and tags.                              *)

SetDialog(d) ==
    /\ dialog' = d
    /\ UNCHANGED <<page, rows, view, error, calls, sent, stale, hide, sel, panel, text, typedFor, pulled>>

OpenNew(kind, goal) ==
    SetDialog([NoDialog EXCEPT !.open = TRUE, !.kind = kind, !.goal = goal]) /\ UNCHANGED edits
NewGoal == OpenNew("goal", NoId)
NewMilestone == sel.goal \notin {NoId, Standalone} /\ OpenNew("milestone", sel.goal)
NewTag == OpenNew("tag", NoId)

OpenEdit(r) ==
    /\ SetDialog([open |-> TRUE, kind |-> KindOf(r.id), id |-> r.id, goal |-> r.up,
                  name |-> r.name, status |-> r.status])
    /\ UNCHANGED edits
EditGoal == \E r \in ToSet(FilteredGoals) : OpenEdit(r)
EditMilestone == \E r \in ToSet(ShownMilestones) : OpenEdit(r)
EditTag == \E r \in ToSet(view["tag"]) : OpenEdit(r)

Change(d) ==
    /\ dialog.open /\ sent < MaxRequests /\ edits < MaxEdits /\ edits' = edits + 1
    /\ d # dialog /\ SetDialog(d)
TypeDialogName == \E n \in Names \cup {Empty} : Change([dialog EXCEPT !.name = n])
PickStatus ==
    /\ dialog.id # NoId /\ dialog.kind # "tag"
    /\ \E s \in {"active", "completed", "archived"} : Change([dialog EXCEPT !.status = s])
PickGoal ==
    /\ dialog.kind = "milestone"
    /\ \E g \in ToSet(view["goal"]) :
          g.status # "archived" /\ Change([dialog EXCEPT !.goal = g.id])

Cancel == dialog.open /\ More /\ SetDialog(NoDialog) /\ UNCHANGED edits

(* The goal of a milestone is sent when it is made, and not when it is     *)
(* changed.  The dialog stays open until the answer.                       *)
Save(kind) ==
    /\ dialog.open /\ dialog.kind = kind /\ dialog.name # Empty
    /\ LET new == dialog.id = NoId
       IN  Request(Call(IF new THEN "create" ELSE "update", kind,
                        [Row(dialog.id, IF new THEN dialog.goal ELSE NoId, NoId, dialog.name)
                           EXCEPT !.status = dialog.status], "dialog"))
SaveGoal == Save("goal")
SaveMilestone == dialog.goal # NoId /\ Save("milestone")
SaveTag == Save("tag")

----------------------------------------------------------------------------
(* The panel of one task.                                                  *)

SetPanel(p) ==
    /\ ShowPanel(p)
    /\ UNCHANGED <<page, rows, view, error, calls, sent, stale, edits, hide, sel, dialog, pulled>>

OpenCreate(up, parent) ==
    SetPanel([NoPanel EXCEPT !.create = TRUE, !.up = up, !.parent = parent])
NewTask == (sel.ms # NoId \/ sel.goal = Standalone) /\ OpenCreate(sel.ms, NoId)
NewSubtask ==
    \E r \in ToSet(ShownTasks) : OpenCreate(IF r.up # NoId THEN r.up ELSE sel.ms, r.id)
OpenTask == \E r \in Listed : SetPanel([NoPanel EXCEPT !.task = r.id])
ClosePanel == IsOpen(panel) /\ More /\ SetPanel(NoPanel)

Shows == Displayed(panel, view) # NoId
ShownTask == Find(view["task"], Displayed(panel, view))

Type ==
    /\ panel.create \/ Shows
    /\ sent < MaxRequests /\ edits < MaxEdits /\ edits' = edits + 1
    /\ text' \in Names \cup {Empty}
    /\ typedFor' = IF panel.create THEN "create" ELSE ShownTask.id
    /\ panel' = [panel EXCEPT !.focus = TRUE]
    /\ UNCHANGED <<page, rows, view, error, calls, sent, stale, hide, sel, dialog, pulled>>

(* handleSaveName: on blur, and so before anything else in the panel can   *)
(* be clicked.                                                             *)
Blur(asked) ==
    /\ panel.focus /\ panel' = [panel EXCEPT !.focus = FALSE]
    /\ IF asked = <<>> THEN UNCHANGED <<calls, sent, stale>> ELSE Send(asked)
    /\ UNCHANGED <<page, rows, view, error, edits, hide, sel, dialog, text, typedFor, pulled>>
BlurCreate ==
    /\ panel.create /\ text # Empty
    /\ Blur(<<Call("create", "task", Row(NoId, panel.up, panel.parent, text), "panel-create")>>)
BlurRename ==
    /\ Shows /\ text \notin {Empty, ShownTask.name}
    /\ Blur(<<Call("rename", "task", [ShownTask EXCEPT !.name = text, !.up = NoId], "page")>>)
BlurUnchanged ==
    /\ text = Empty \/ (Shows /\ text = ShownTask.name)
    /\ Blur(<<>>)

Clickable == Shows /\ ~panel.focus /\ More

(* undefined is not sent: what is cleared stays.                           *)
SetProperty ==
    Clickable /\ Request(Call("move", "task", [ShownTask EXCEPT !.up = NoId], "page"))
PickMilestone ==
    /\ Clickable
    /\ \E m \in ToSet(view["milestone"]) :
          /\ m.status = "active"
          /\ \E g \in ToSet(view["goal"]) : g.id = m.up /\ g.status # "archived"
          /\ Request(Call("move", "task", [ShownTask EXCEPT !.up = m.id], "page"))
ToggleShown ==
    /\ Clickable
    /\ \E r \in {ShownTask} \cup ToSet(ChildTasks(ShownTask.id)) :
          Request(Call("toggle", "task", r, "page"))
AddSubtask ==
    /\ Clickable
    /\ \E n \in Names :     \* the fixed name of a new subtask
          /\ n = (CHOOSE x \in Names : TRUE)
          /\ Request(Call("create", "task", Row(NoId, ShownTask.up, ShownTask.id, n), "page"))
Navigate ==
    /\ Clickable
    /\ \E r \in ToSet(ChildTasks(ShownTask.id)) : SetPanel([panel EXCEPT !.nav = r.id])
Back == Clickable /\ panel.nav # NoId /\ SetPanel([panel EXCEPT !.nav = NoId])
DeleteShown ==
    /\ Clickable
    /\ Request([Call("delete", "task", ShownTask, "panel-delete") EXCEPT !.was = panel.nav])

----------------------------------------------------------------------------
Init ==
    /\ page \in {"tasks", "daily"}
    /\ rows = OldRows
    /\ view = [k \in Kind |-> InOrder(OfKind(k))]
    /\ error = FALSE
    /\ calls = <<>> /\ sent = 0 /\ edits = 0
    /\ hide = FALSE
    /\ sel = Fresh(page, view)
    /\ dialog = NoDialog /\ panel = NoPanel /\ text = Empty
    /\ typedFor = NoId /\ stale = FALSE /\ pulled = {}

Board ==
    /\ OnBoard
    /\ \/ SelectGoal \/ SelectStandalone \/ SelectMilestone \/ SetHideCompleted
       \/ DragGoal \/ DragTask \/ CompleteGoal \/ CompleteMilestone
       \/ DeleteGoal \/ DeleteMilestone \/ DeleteTag \/ DeleteTask
       \/ NewGoal \/ NewMilestone \/ NewTag \/ EditGoal \/ EditMilestone \/ EditTag
       \/ NewTask \/ NewSubtask

Dialog ==
    TypeDialogName \/ PickStatus \/ PickGoal \/ Cancel \/ SaveGoal \/ SaveMilestone \/ SaveTag

Panel ==
    \/ ClosePanel \/ Type \/ BlurCreate \/ BlurRename \/ BlurUnchanged \/ SetProperty
    \/ PickMilestone \/ ToggleShown \/ AddSubtask \/ Navigate \/ Back \/ DeleteShown

Next ==
    \/ Board \/ Dialog \/ Panel \/ Serve \/ Answer \/ Retry
    \/ \E p \in {"tasks", "daily"} : GoTo(p)
    \/ Free /\ (ToggleListed \/ OpenTask)

Spec == Init /\ [][Next]_vars

----------------------------------------------------------------------------
TypeOK ==
    /\ page \in {"tasks", "daily"} /\ hide \in BOOLEAN /\ error \in BOOLEAN
    /\ \A r \in rows : r.status \in {"active", "completed", "archived"} /\ r.pos \in Nat
    /\ \A k \in Kind : \A i \in DOMAIN view[k] : view[k][i].id \in Ids[k]
    /\ sel.goal \in Goals \cup {NoId, Standalone} /\ sel.ms \in Milestones \cup {NoId}
    /\ panel.create => panel.task = NoId /\ panel.nav = NoId
    /\ \A i \in DOMAIN calls : calls[i].stage \in {"sent", "ok"}
    /\ sent \in 0..MaxRequests /\ edits \in 0..MaxEdits

(* Whenever no request failed or raced, the stores of goals and tags hold  *)
(* the tables, the milestones listed are those of the selected goal, and   *)
(* every task in the third column is as it is stored, each row once:       *)
(* dragging, completing, cascading deletions and their continuations       *)
(* (createCrudStore, useTaskStore, useGoalStore) add up to what the        *)
(* service did, though it says little of it.  (Not for what is listed under *)
(* a selected row that is gone, see SelectionExists.)                      *)
ShownIsStored ==
    calls = <<>> /\ ~stale =>
        /\ \A k \in {"goal", "tag"} : ToSet(view[k]) = OfKind(k)
        /\ \A k \in Kind : Len(view[k]) = Cardinality(IdsOf(view[k]))
        /\ pulled = {} =>
             /\ ToSet(OfGoal(view, sel.goal)) = {r \in OfKind("milestone") : r.up = sel.goal}
             /\ ToSet(ShownTasks) \subseteq rows

(* What is selected exists in its store and the milestone is one of the    *)
(* selected goal, however answers, deletions and selections interleave     *)
(* (useGoalManagement, useMilestoneManagement), except for rows that went  *)
(* by a list or by a deletion asked for before they were selected.         *)
SelectionExists ==
    /\ sel.goal \in IdsOf(view["goal"]) \cup {NoId, Standalone} \cup pulled
    /\ sel.ms \in IdsOf(view["milestone"]) \cup {NoId} \cup pulled
    /\ sel.ms # NoId /\ sel.goal \notin pulled /\ sel.ms \notin pulled =>
          Find(view["milestone"], sel.ms).up = sel.goal

(* A name that was typed for one task is never in the name field of        *)
(* another, where leaving the field would save it: not after going to a    *)
(* subtask and back, closing the panel, or an answer that opens or changes *)
(* the task (TaskDetailPanel).                                             *)
TypedForShown ==
    (panel.create \/ Shows) /\ text # NameShown(panel, view) =>
        typedFor = IF panel.create THEN "create" ELSE ShownTask.id

(* What the user selected and typed belongs to the rows that are shown.     *)
InputFitsRows == SelectionExists /\ TypedForShown
=============================================================================

----------------------------- MODULE PromptPage -----------------------------
(***************************************************************************)
(* The page of the AI's prompts (A03): the form that saves a new version   *)
(* of a context, the list of its versions with what differs from the       *)
(* active one, adopting, rejecting and rolling back, the optimisation that *)
(* makes candidates, and the test that sends a message to two versions and *)
(* asks which answer was better.  Every request commits at once, may fail, *)
(* and its answer may be lost or overtaken.  Numbers (turns, temperature)  *)
(* are one field of the form; notes of a change, where a version comes     *)
(* from, and the texts of the test are left out.                           *)
(***************************************************************************)
EXTENDS Integers, Sequences, FiniteSets, SequencesExt, TLC

CONSTANTS
    Contexts, First, NoContext,     \* contexts, the first in the list
    Blank,              \* white space, see PromptDiff
    Texts, Params,      \* what the prompt and the numbers can be changed to
    Better,             \* the prompt the optimiser comes up with
    Tools, Category, SubGroups,     \* the tools, as the selector groups them
    OldRows,            \* contexts and their versions when the page is opened
    MaxEdits,       \* changes in the form
    MaxCommands,    \* saves, decisions, optimisations
    MaxSteps,       \* those, twice, edits, and changes of context, tab or version
    MaxMessages,    \* messages and votes in tests
    MaxInFlight,    \* requests in flight when anything is started
    MaxTroubles     \* requests that fail, answers that are lost

ASSUME OldRowsAssumption == First \in Contexts /\ NoContext \notin Contexts

VARIABLES
    table,      \* ai_contexts and ai_context_versions
    clock,      \* the number of changes of it
    ctxs, vs, meta, loading,    \* usePromptStore
    page,       \* state of the page and of the parts it shows
    form,       \* state of the editor
    jobs,       \* functions that wait for an answer
    moves, edits, commands, messages, troubles,
    typed,      \* history: fields edited, and what the editor was opened on
    asof,       \* history: how old the answers shown are
    overtaken,  \* history: lists that were replaced by an older one
    moved,      \* history: the context was changed during an optimisation
    unsure      \* history: an answer is missing

store == <<ctxs, vs, meta, loading>>
bounds == <<moves, edits, commands, messages, troubles>>
history == <<typed, asof, overtaken, moved, unsure>>
vars == <<table, clock, store, page, form, jobs, bounds, history>>

D == INSTANCE PromptDiff

Field == {"text", "tools", "params"}

(* A version: its content and the state of a candidate.                    *)
Version(now, status) == [now |-> now, status |-> status]

NoDetail == [ctx |-> NoContext, n |-> 0, version |-> <<>>]
NoPair == <<>>
NoTest == [done |-> 0, both |-> FALSE, asked |-> FALSE, wins |-> <<0, 0>>,
           streams |-> <<0, 0>>, busy |-> <<FALSE, FALSE>>]

NoAnswer == [rows |-> <<>>, list |-> <<>>, made |-> {}, at |-> 0]
Job(id, fn, c, n, data, todo) ==
    [id |-> id, fn |-> fn, ctx |-> c, n |-> n, data |-> data,
     todo |-> todo, st |-> "sent", ans |-> NoAnswer]

FetchContexts == Job(0, "fetchContexts", NoContext, 0, <<>>, <<"contexts">>)
FetchMetadata == Job(0, "fetchMetadata", NoContext, 0, <<>>, <<"metadata">>)
FetchVersions(c) == Job(0, "fetchVersions", c, 0, <<>>, <<"versions">>)

-----------------------------------------------------------------------------
(* The service.                                                            *)

Pending(row) == Cardinality({n \in DOMAIN row.versions :
                                 row.versions[n].status = "pending"})

(* What list_contexts says of a context, and what the others do, which     *)
(* count no candidates.                                                    *)
Listed(row) == [now |-> row.now, active |-> row.active, pending |-> Pending(row)]
Alone(row) == [now |-> row.now, active |-> row.active, pending |-> 0]

WithVersion(row, now) ==
    [now |-> now, active |-> Len(row.versions) + 1,
     versions |-> Append(row.versions, Version(now, "none"))]

Commands == {"update", "rollback", "adopt", "reject"}

Updated(row, data) == WithVersion(row, data @@ row.now)
RolledBack(row, n) == WithVersion(row, row.versions[n].now)
Adopted(row, n) ==
    [row EXCEPT !.now = row.versions[n].now, !.active = n, !.versions[n].status = "adopted"]
Rejected(row, n) == [row EXCEPT !.versions[n].status = "rejected"]

(* The row of the context after the command; unchanged when the version is *)
(* not one of the context.                                                 *)
Committed(row, j) ==
    LET step == Head(j.todo) IN
    IF step = "update" THEN Updated(row, j.data)
    ELSE IF j.n \notin DOMAIN row.versions THEN row
    ELSE IF step = "rollback" THEN RolledBack(row, j.n)
    ELSE IF step = "adopt" THEN Adopted(row, j.n)
    ELSE Rejected(row, j.n)

Found(row, j) == Head(j.todo) = "update" \/ j.n \in DOMAIN row.versions

Reply(i, st, ans) == jobs' = [jobs EXCEPT ![i].st = st, ![i].ans = ans]

ServeCommand(i) ==
    LET j == jobs[i]
        row == Committed(table[j.ctx], j)
    IN  /\ j.st = "sent" /\ Head(j.todo) \in Commands
        /\ table' = [table EXCEPT ![j.ctx] = row]
        /\ clock' = clock + 1
        /\ IF Found(table[j.ctx], j)
           THEN Reply(i, "served", [NoAnswer EXCEPT !.rows = j.ctx :> Alone(row), !.at = clock'])
           ELSE Reply(i, "failed", NoAnswer)

(* A read that returns the contexts, the versions of one, or the metadata; *)
(* the end of an optimisation says for which contexts it made a candidate. *)
ServeRead(i) ==
    LET j == jobs[i]
        step == Head(j.todo)
    IN  /\ j.st = "sent" /\ step \notin Commands
        /\ Reply(i, "served",
             [rows |-> IF step = "contexts" THEN [c \in Contexts |-> Listed(table[c])] ELSE <<>>,
              list |-> IF step = "versions" THEN table[j.ctx].versions ELSE <<>>,
              made |-> j.ans.made, at |-> clock])
        /\ UNCHANGED <<table, clock>>

(* The optimisation takes minutes: it makes its candidates one by one.     *)
MakeCandidate(i) ==
    \E c \in Contexts \ jobs[i].ans.made :
        /\ jobs[i].st = "sent" /\ Head(jobs[i].todo) = "optimize"
        /\ table' = [table EXCEPT ![c].versions =
                        Append(@, Version([table[c].now EXCEPT !.text = Better], "pending"))]
        /\ clock' = clock + 1
        /\ jobs' = [jobs EXCEPT ![i].ans.made = @ \cup {c}]

(* Of functions that wait for the same, one stands for all.                *)
Waiting == {i \in DOMAIN jobs : \A k \in 1 .. i - 1 : jobs[k] # jobs[i]}

Serve ==
    /\ \E i \in Waiting : ServeCommand(i) \/ ServeRead(i) \/ MakeCandidate(i)
    /\ UNCHANGED <<store, page, form, bounds, history>>

(* A request fails, or the answer to it does not arrive.                   *)
Fail ==
    /\ troubles < MaxTroubles
    /\ troubles' = troubles + 1
    /\ \E i \in Waiting :
        /\ \/ jobs[i].st = "sent"
           \/ jobs[i].st = "served" /\ Head(jobs[i].todo) \in Commands
        /\ Reply(i, "failed", NoAnswer)
        /\ unsure' = (unsure \/ jobs[i].st = "served" \/ jobs[i].ans.made # {}
                             \/ Head(jobs[i].todo) \in {"contexts", "versions"})
    /\ UNCHANGED <<table, clock, store, page, form, moves, edits, commands, messages,
                   typed, asof, overtaken, moved>>

-----------------------------------------------------------------------------
(* What the page shows.                                                    *)

Screen == ~(loading /\ ctxs = <<>>)      \* else the loading screen
DetailShown(p) == p.tab = "optimize" /\ p.ab = NoPair /\ p.detail # NoDetail
TestShown(p) == p.tab = "optimize" /\ p.ab # NoPair
EditorShown == Screen /\ page.tab = "editor" /\ page.sel # NoContext
HistoryShown == Screen /\ page.tab = "optimize" /\ page.sel # NoContext

Selected == ctxs[page.sel]
Versions == IF page.sel \in DOMAIN vs THEN vs[page.sel] ELSE <<>>

(* The prompt of the active version, if the list has it; the version shown *)
(* is compared with it.                                                    *)
ActivePrompt ==
    IF Selected.active \in DOMAIN Versions THEN Versions[Selected.active].now.text ELSE <<>>

DiffShown ==
    HistoryShown /\ DetailShown(page) /\ ActivePrompt # <<>> /\ page.detail.n # Selected.active

Difference == D!LineDiff(ActivePrompt, page.detail.version.now.text)

(* A part that is not shown any more forgets what it waited for.           *)
Settled(p) ==
    [p EXCEPT !.rolling = IF p.tab = "optimize" THEN @ ELSE 0,
              !.acting = IF DetailShown(p) THEN @ ELSE 0,
              !.test = IF TestShown(p) THEN @ ELSE NoTest]

(* Mutant: the editor keeps what it shows when the context changes.        *)
KeepForm(old, now) == IF old.val = <<>> THEN [val |-> now, saving |-> 0] ELSE old

(* The editor is opened on a context, or shows another one; it goes on     *)
(* waiting for a save.                                                     *)
ResetForm(old, now) == [val |-> now, saving |-> old.saving]

NoForm == [val |-> <<>>, saving |-> 0]
Untyped == [touched |-> {}, base |-> <<>>]
OpenForm(old, now) ==
    /\ form' = ResetForm(old, now)
    /\ typed' = [touched |-> {}, base |-> now]

(* The editor asks for the tools and variables until it has them.          *)
Metadata == IF meta THEN <<>> ELSE <<FetchMetadata>>

(* The versions are asked for when the context changes, and on the tab of  *)
(* the versions once more.                                                 *)
Effects(c, tab) ==
    IF tab = "optimize" THEN <<FetchVersions(c), FetchVersions(c)>> ELSE <<FetchVersions(c)>>

-----------------------------------------------------------------------------
(* Answers.                                                                *)

(* Mutant: a decision is over when the service has taken it.               *)
AfterOnly(j) ==
    IF j.fn \in {"adopt", "reject"} \/ j.st = "failed" THEN <<>> ELSE Tail(j.todo)

(* What a function does after its request was answered, or failed: the     *)
(* store's functions go on, the others throw.                              *)
After(j) ==
    LET ok == j.st = "served"
        step == Head(j.todo)
    IN  IF step = "optimize" /\ j.ans.made = {} THEN <<>>
        ELSE IF ~ok /\ step \in {"adopt", "reject"} THEN <<>>
        ELSE IF ~ok /\ step = "rollback" THEN SubSeq(j.todo, 3, Len(j.todo))
        ELSE Tail(j.todo)

(* Mutant: the buttons are released only after a success.                  *)
EndedWell(p, j) ==
    IF j.st = "failed" THEN p
    ELSE IF j.fn \in {"rollback", "adopt", "reject"}
    THEN [p EXCEPT !.rolling = 0, !.acting = 0, !.detail = NoDetail]
    ELSE IF j.fn = "adoptTested" THEN [p EXCEPT !.ab = NoPair]
    ELSE IF j.fn = "optimize" THEN [p EXCEPT !.optimizing = FALSE] ELSE p

(* The page after the last step of a function.                             *)
Ended(p, j) ==
    LET threw == j.st = "failed" /\ Head(j.todo) \in {"adopt", "reject"}
        Released(q) == [q EXCEPT !.rolling = IF @ = j.id THEN 0 ELSE @,
                                 !.acting = IF @ = j.id THEN 0 ELSE @]
    IN  IF j.fn \in {"rollback", "adopt", "reject"}
        THEN Released([p EXCEPT !.detail = IF threw THEN @ ELSE NoDetail])
        ELSE IF j.fn = "adoptTested" THEN [p EXCEPT !.ab = IF threw THEN @ ELSE NoPair]
        ELSE IF j.fn = "optimize" THEN [p EXCEPT !.optimizing = FALSE]
        ELSE p

(* The lists an answer replaces, and the store after it.                   *)
Replaced(j) ==
    IF j.st = "failed" THEN {}
    ELSE IF Head(j.todo) = "versions" THEN {<<"list", j.ctx>>}
    ELSE IF Head(j.todo) \in {"contexts", "update", "rollback"}
    THEN {"row"} \X DOMAIN j.ans.rows
    ELSE {}

StoreAnswer(j, todo) ==
    LET step == Head(j.todo)
        items == Replaced(j)
    IN  /\ ctxs' = IF items \cap ({"row"} \X Contexts) # {} THEN j.ans.rows @@ ctxs ELSE ctxs
        /\ vs' = IF <<"list", j.ctx>> \in items THEN (j.ctx :> j.ans.list) @@ vs ELSE vs
        /\ meta' = (meta \/ (step = "metadata" /\ j.st = "served"))
        /\ loading' = IF todo # <<>> /\ Head(todo) = "contexts" THEN TRUE
                      ELSE IF step \in {"contexts", "update", "rollback"} THEN FALSE
                      ELSE loading
        /\ asof' = [x \in DOMAIN asof |-> IF x \in items /\ j.ans.at > asof[x]
                                          THEN j.ans.at ELSE asof[x]]
        /\ overtaken' = (overtaken \ items) \cup {x \in items : j.ans.at < asof[x]}

(* An answer arrives; the page selects the first context when there is     *)
(* none.                                                                   *)
Answer(i) ==
    LET j == jobs[i]
        todo == After(j)
        p == IF todo = <<>> THEN Ended(page, j) ELSE page
        selects == p.sel = NoContext /\ ctxs' # <<>>
        rest == IF todo = <<>> THEN RemoveAt(jobs, i)
                ELSE [jobs EXCEPT ![i] = Job(j.id, j.fn, j.ctx, j.n, j.data, todo)]
    IN  /\ j.st # "sent"
        /\ StoreAnswer(j, todo)
        /\ page' = Settled([p EXCEPT !.sel = IF selects THEN First ELSE @])
        /\ IF selects
           THEN /\ jobs' = rest \o Effects(First, p.tab)
                            \o (IF p.tab = "editor" THEN Metadata ELSE <<>>)
                /\ IF p.tab = "editor" THEN OpenForm(form, ctxs'[First].now)
                   ELSE UNCHANGED <<form, typed>>
           ELSE /\ jobs' = rest
                /\ form' = IF todo = <<>> /\ form.saving = j.id /\ j.fn = "save"
                           THEN [form EXCEPT !.saving = 0] ELSE form
                /\ UNCHANGED typed
        /\ UNCHANGED <<table, clock, bounds, moved, unsure>>

-----------------------------------------------------------------------------
(* Bounds on what the user does: little is started while much is in        *)
(* flight, and nothing once an answer is missing or the last command is    *)
(* over.                                                                   *)
Goes ==
    /\ ~unsure /\ Len(jobs) <= MaxInFlight
    /\ commands = MaxCommands => jobs # <<>>

Steps == moves + edits + 2 * commands

(* Moving about the page.                                                  *)

Move ==
    /\ Screen /\ Goes /\ Steps < MaxSteps
    /\ moves' = moves + 1
    /\ UNCHANGED <<table, clock, store, edits, commands, messages, troubles,
                   asof, overtaken, unsure>>

Leaves(c) == moved' = (moved \/ (c # page.sel /\ page.optimizing))

(* A context of the list at the side: the version that is open on the      *)
(* other tab, and a test, stay.                                            *)
SelectBeside(c) ==
    /\ Move /\ page.tab = "editor" /\ c # page.sel /\ c \in DOMAIN ctxs
    /\ page' = [page EXCEPT !.sel = c]
    /\ OpenForm(form, ctxs[c].now)
    /\ jobs' = jobs \o Effects(c, page.tab)
    /\ Leaves(c)

(* A context of the selection above the versions.                          *)
SelectAbove(c) ==
    /\ Move /\ page.tab = "optimize" /\ c # page.sel /\ c \in DOMAIN ctxs
    /\ page' = Settled([page EXCEPT !.sel = c, !.detail = NoDetail, !.ab = NoPair])
    /\ jobs' = jobs \o Effects(c, page.tab)
    /\ Leaves(c)
    /\ UNCHANGED <<form, typed>>

(* The parts of the other tab go, and with them what was typed.            *)
SwitchTab ==
    /\ Move
    /\ page' = Settled([page EXCEPT !.tab = IF @ = "editor" THEN "optimize" ELSE "editor"])
    /\ IF page.sel = NoContext THEN UNCHANGED <<form, typed, jobs>>
       ELSE IF page.tab = "editor"
       THEN /\ form' = NoForm /\ typed' = Untyped
            /\ jobs' = Append(jobs, FetchVersions(page.sel))
       ELSE OpenForm(NoForm, Selected.now) /\ jobs' = jobs \o Metadata
    /\ UNCHANGED moved

(* A version of the list is shown, in place of another; during a test it   *)
(* is shown after the test.                                                *)
SelectVersion(n) ==
    /\ Move /\ HistoryShown /\ n \in DOMAIN Versions
    /\ page' = [page EXCEPT !.detail = [ctx |-> page.sel, n |-> n, version |-> Versions[n]]]
    /\ UNCHANGED <<form, typed, jobs, moved>>

(* A test of the active version and another, from the list, also during a  *)
(* test, which goes on with the new pair, or from the version shown.       *)
StartABTest(n) ==
    /\ Move /\ HistoryShown /\ n # Selected.active
    /\ \/ n \in DOMAIN Versions
       \/ DetailShown(page) /\ n = page.detail.n /\ page.acting = 0
    /\ page' = Settled([page EXCEPT !.ab = <<Selected.active, n>>, !.detail = NoDetail])
    /\ UNCHANGED <<form, typed, jobs, moved>>

CloseTest ==
    /\ Move /\ TestShown(page)
    /\ page' = Settled([page EXCEPT !.ab = NoPair])
    /\ UNCHANGED <<form, typed, jobs, moved>>

-----------------------------------------------------------------------------
(* The editor.                                                             *)

Edit(field, value) ==
    /\ EditorShown /\ Goes /\ edits < MaxEdits /\ Steps < MaxSteps
    /\ value # form.val[field]
    /\ edits' = edits + 1
    /\ form' = [form EXCEPT !.val[field] = value]
    /\ typed' = [typed EXCEPT !.touched = @ \cup {field}]
    /\ UNCHANGED <<table, clock, store, page, jobs, moves, commands, messages, troubles,
                   asof, overtaken, moved, unsure>>

EditText == \E t \in Texts : Edit("text", t)
EditParams == \E n \in Params : Edit("params", n)

(* The groups of the selector: the tools of a category, and for those of   *)
(* the database the sub-groups that have some.                             *)
Grouped(category) == SelectSeq(Tools, LAMBDA t : Category[t] = category)
SubGroup(names) == SelectSeq(names, LAMBDA t : t \in ToSet(Grouped("db")))
Groups ==
    ({Grouped(Category[t]) : t \in ToSet(Tools)} \cup {SubGroup(names) : names \in SubGroups})
        \ {<<>>}

(* The tools that have a box: those of the service, and those that are     *)
(* selected and that it does not know.                                     *)
ToolRows == UNION {ToSet(group) : group \in Groups} \cup ToSet(form.val.tools)

Without(tools, names) == SelectSeq(tools, LAMBDA t : t \notin names)

(* A tool that is added comes last, also when it was there before.         *)
ToggleTool ==
    /\ meta /\ form.val # <<>>
    /\ \E t \in ToolRows :
        Edit("tools", IF t \in ToSet(form.val.tools) THEN Without(form.val.tools, {t})
                      ELSE Append(form.val.tools, t))

AllSelected(group) == ToSet(group) \subseteq ToSet(form.val.tools)

ToggleGroup ==
    /\ meta /\ form.val # <<>>
    /\ \E group \in Groups :
        LET tools == form.val.tools IN
        Edit("tools", IF AllSelected(group) THEN Without(tools, ToSet(group))
                      ELSE tools \o Without(group, ToSet(tools)))

(* The fields that differ from the context as the store has it.            *)
Changed == {x \in Field : form.val[x] # Selected.now[x]}

-----------------------------------------------------------------------------
(* Commands.                                                               *)

Command(fn, n, data, todo) ==
    /\ Screen /\ Goes /\ commands < MaxCommands /\ Steps + 1 < MaxSteps
    /\ commands' = commands + 1
    /\ jobs' = Append(jobs, Job(commands', fn, page.sel, n, data, todo))
    /\ loading' = (loading \/ Head(todo) \in {"update", "rollback"})
    /\ UNCHANGED <<table, clock, ctxs, vs, meta, moves, edits, messages, troubles, history>>

CanSave == EditorShown /\ Changed # {} /\ form.saving = 0 /\ ~loading

(* Only what was changed is sent; what the form shows stays.               *)
Save ==
    /\ CanSave
    /\ Command("save", 0, [x \in Changed |-> form.val[x]], <<"update", "versions">>)
    /\ form' = [form EXCEPT !.saving = commands']
    /\ UNCHANGED page

(* Adopting or rejecting a candidate, rolling back to another version.     *)
Decide(fn) ==
    LET n == page.detail.n IN
    /\ DetailShown(page) /\ page.acting = 0 /\ n # Selected.active
    /\ (fn = "rollback") <=> (page.detail.version.status # "pending")
    /\ Command(fn, n, <<>>, IF fn = "rollback" THEN <<fn, "versions">>
                            ELSE <<fn, "contexts", "versions">>)
    /\ page' = [page EXCEPT !.acting = commands']
    /\ UNCHANGED form

RollbackListed(n) ==
    /\ HistoryShown /\ n \in DOMAIN Versions /\ n # Selected.active
    /\ ~loading /\ page.rolling = 0
    /\ Command("rollback", n, <<>>, <<"rollback", "versions">>)
    /\ page' = [page EXCEPT !.rolling = commands']
    /\ UNCHANGED form

CanAdopt(side) == TestShown(page) /\ page.test.wins[side] > 0

(* The winner of a test; of the active version nothing needs to be done.   *)
AdoptTested(side) ==
    LET n == page.ab[side] IN
    /\ CanAdopt(side)
    /\ IF n = Selected.active
       THEN /\ Screen /\ Goes
            /\ page' = Settled([page EXCEPT !.ab = NoPair])
            /\ UNCHANGED <<table, clock, store, jobs, bounds, history>>
       ELSE /\ Command("adoptTested", n, <<>>,
                IF n \in DOMAIN Versions /\ Versions[n].status = "pending"
                THEN <<"adopt", "contexts", "versions">>
                ELSE <<"rollback", "versions", "contexts", "versions">>)
            /\ UNCHANGED page
    /\ UNCHANGED form

CanOptimize == page.tab = "optimize" /\ ~page.optimizing

RunOptimization ==
    /\ CanOptimize
    /\ Command("optimize", 0, <<>>, <<"optimize", "contexts">> \o
                    (IF page.sel = NoContext THEN <<>> ELSE <<"versions">>))
    /\ page' = [page EXCEPT !.optimizing = TRUE]
    /\ UNCHANGED form

-----------------------------------------------------------------------------
(* The test of two versions.                                               *)

Test(t) ==
    /\ page' = [page EXCEPT !.test = t]
    /\ UNCHANGED <<table, clock, store, form, jobs, moves, edits, commands, troubles, history>>

Message(t) ==
    /\ Screen /\ TestShown(page) /\ messages < MaxMessages
    /\ Goes /\ jobs = <<>>
    /\ messages' = messages + 1
    /\ Test(t)

(* To both versions, also while they answer: the count of answers begins   *)
(* anew.                                                                   *)
SendBoth ==
    Message([page.test EXCEPT !.done = 0, !.both = FALSE, !.asked = TRUE,
                !.streams = [k \in 1 .. 2 |-> @[k] + 1], !.busy = <<TRUE, TRUE>>])

(* To one of them, from its own panel.                                     *)
SendOne(side) ==
    /\ ~page.test.busy[side]
    /\ Message([page.test EXCEPT !.streams[side] = @ + 1, !.busy[side] = TRUE])

Vote(side) ==
    /\ page.test.both
    /\ Message([page.test EXCEPT !.wins[side] = @ + 1])

(* Mutant: an answer that ends with an error is not counted.               *)
StreamEndsWell(side, failed) ==
    LET t == page.test
        done == IF failed THEN t.done ELSE IF t.done = 2 THEN 2 ELSE t.done + 1
    IN  /\ TestShown(page) /\ t.streams[side] > 0
        /\ UNCHANGED messages
        /\ Test([t EXCEPT !.streams[side] = @ - 1, !.busy[side] = FALSE,
                          !.done = done, !.both = @ \/ done = 2])

(* An answer has come to its end, with an error or without; two ends make  *)
(* the question appear (more than two change nothing).                     *)
StreamEnds(side, failed) ==
    LET t == page.test
        done == IF t.done = 2 THEN 2 ELSE t.done + 1
    IN  /\ TestShown(page) /\ t.streams[side] > 0
        /\ UNCHANGED messages
        /\ Test([t EXCEPT !.streams[side] = @ - 1, !.busy[side] = FALSE,
                          !.done = done, !.both = @ \/ done = 2])

-----------------------------------------------------------------------------
Init ==
    /\ table = OldRows /\ clock = 0
    /\ ctxs = <<>> /\ vs = <<>> /\ meta = FALSE /\ loading = TRUE
    /\ page = [sel |-> NoContext, tab |-> "editor", detail |-> NoDetail, ab |-> NoPair,
               optimizing |-> FALSE, acting |-> 0, rolling |-> 0, test |-> NoTest]
    /\ form = NoForm
    /\ jobs = <<FetchContexts>>
    /\ moves = 0 /\ edits = 0 /\ commands = 0 /\ messages = 0 /\ troubles = 0
    /\ typed = Untyped
    /\ asof = [x \in {"row", "list"} \X Contexts |-> 0]
    /\ overtaken = {} /\ moved = FALSE /\ unsure = FALSE

Arrive == \E i \in Waiting : Answer(i)
Select == \E c \in Contexts : SelectBeside(c) \/ SelectAbove(c)
OpenVersion == \E n \in 1 .. Len(Versions) : SelectVersion(n)
StartTest == HistoryShown /\ \E n \in (1 .. Len(Versions)) \cup {page.detail.n} : StartABTest(n)
Decision == \E fn \in {"adopt", "reject", "rollback"} : Decide(fn)
Rollback == \E n \in 1 .. Len(Versions) : RollbackListed(n)
Adopt == \E side \in 1 .. 2 : AdoptTested(side)
Chat == \E side \in 1 .. 2 : SendOne(side) \/ Vote(side)
StreamsEnd == \E side \in 1 .. 2, failed \in BOOLEAN : StreamEnds(side, failed)

Next ==
    \/ Serve \/ Fail \/ Arrive
    \/ Select \/ SwitchTab \/ OpenVersion \/ StartTest \/ CloseTest
    \/ EditText \/ EditParams \/ ToggleTool \/ ToggleGroup
    \/ Save \/ Decision \/ Rollback \/ Adopt \/ RunOptimization
    \/ SendBoth \/ Chat \/ StreamsEnd

Spec == Init /\ [][Next]_vars

(* The service answers, or the request ends in an error; and so does every *)
(* answer of a model.                                                      *)
FairSpec == Spec /\ WF_vars(Serve) /\ WF_vars(Arrive)
                 /\ \A side \in 1 .. 2 :
                        WF_vars(\E failed \in BOOLEAN : StreamEnds(side, failed))

-----------------------------------------------------------------------------
(* The state has its type: what is shown is about contexts and versions    *)
(* there are, only the shown parts wait, and for a command in flight.      *)
TypeOK ==
    /\ page.sel \in DOMAIN ctxs \cup {NoContext}
    /\ (page.sel = NoContext) <=> (ctxs = <<>>)
    /\ page.tab \in {"editor", "optimize"}
    /\ (form.val # <<>>) <=> (page.tab = "editor" /\ page.sel # NoContext)
    /\ page.optimizing <=> \E i \in DOMAIN jobs : jobs[i].fn = "optimize"
    /\ {page.acting, page.rolling, form.saving} \subseteq
           {0} \cup {jobs[i].id : i \in DOMAIN jobs}
    /\ page.acting # 0 => DetailShown(page)
    /\ page.rolling # 0 => page.tab = "optimize"
    /\ page.test # NoTest => TestShown(page)
    /\ \A i \in DOMAIN jobs :
           jobs[i].todo # <<>> /\ jobs[i].st \in {"sent", "served", "failed"}
    /\ \A c \in Contexts : table[c].active \in DOMAIN table[c].versions

(* When nothing is in flight, all contexts are shown as the service has    *)
(* them and so are the versions of the selected one, whatever was saved,   *)
(* decided, rolled back or optimised in whatever order and whichever       *)
(* command failed: every handler reads again what it may have changed.     *)
(* The exceptions are a list that an older answer replaced, an answer that *)
(* is missing, and an optimisation during which the context was changed.   *)
PageIsCurrent ==
    jobs = <<>> =>
        /\ ~loading
        /\ ~unsure => \A c \in Contexts :
              <<"row", c>> \in overtaken \/
                  (ctxs[c].now = table[c].now /\ ctxs[c].active = table[c].active)
        /\ ~unsure /\ ~moved =>
              <<"list", page.sel>> \in overtaken \/ Versions = table[page.sel].versions

(* A save sends only what was typed for the context it is sent to, or what *)
(* was changed under the open editor by an answer that came late: never    *)
(* what was typed for, or read from, another context.                      *)
SavedToItsContext ==
    [][Save => \A x \in Changed :
          x \in typed.touched \/ Selected.now[x] # typed.base[x]]_vars

(* What is marked between the active prompt and the one of the version     *)
(* shown lets both be read off, and is no more than needed.                *)
DiffShowsBoth ==
    DiffShown => D!ShowsBoth(Difference, ActivePrompt, page.detail.version.now.text)

(* The version shown is one of the selected context, on which a decision   *)
(* acts and with whose active version it is compared.                      *)
ShownIsSelected == DetailShown(page) => page.detail.ctx = page.sel

(* After a message to both versions the question which answer was better   *)
(* appears, though panels are asked on their own, answers fail and further *)
(* messages are sent meanwhile, unless the test is left.                   *)
VoteComes == (page.test.asked /\ ~page.test.both) ~> (page.test.both \/ ~TestShown(page))
=============================================================================

# kensan: TLA+ verification project

kensan is a personal productivity application: goals, tasks, time blocks with a
timer, notes, memos and an AI agent that can read all of it and propose writes,
which the user approves.  This directory holds TLA+ models of its stateful parts,
the TLC configurations that check them, and proofs checked by TLAPS.  Paths are
relative to the repository (`src/`); `kensan-ai/...` stands for
`kensan-ai/src/kensan_ai`, `web/...` for `frontend/src`.

Contents: 1 inventory, 2 what makes each component correct, 3 modules,
4 runs, 5 fairness, 6 proofs, 7 disagreements found, 8 what is not modelled,
9 plan.

## 1. Inventory

**Services and batch jobs**

| Component | State it keeps | Operations | Talks to | Hard behaviour |
|---|---|---|---|---|
| Agent endpoints (`kensan-ai/.../api/routes.py`) and `ConversationStore` | conversation id -> messages, pending actions, last activity (30 minute TTL), in memory only | `/agent/stream`, `/agent/approve`, `/agent/reject` | agent loop, tools, store, interaction log | coroutines that interleave at every await and yield, cancellation at any yield, restart |
| Agent loop (`agents/base.py`, `gemini_runner.py`, `adk_runner.py`, `message_history.py`) | message history, tool set, pending write calls, nudge flags, turn counter | LLM turn, parallel read tools, deferral of writes, nudges, unlocking deferred tools | LLM API, tools | protocol between tool calls and results, bounded turns, errors in the middle, a history that outlives the loop |
| Tool selection (`agents/chat.py`) | none | choose the tools of a message, the deferred write tools | agent endpoints | pure |
| AI tools (`tools/*.py`) | none of their own | read and write the shared PostgreSQL | database | errors returned as values |
| Prompt management (`db/queries/ai_contexts.py`, `batch/prompt_optimizer.py`, `batch/experiment_manager.py`) | `ai_contexts` row with `active_version`, `ai_context_versions` | update, rollback, adopt, reject, create candidate, generate candidate | database, LLM | read, compute and write without a transaction |
| Fact extraction (`extraction/fact_extractor.py`) | `user_facts` | extract, deduplicate, insert | LLM, database | check then insert |
| Note indexing (`indexing/pipeline.py`, `chunker.py`) | `notes.index_status`, `note_content_chunks` | reindex pending notes | MinIO, embeddings, database | status races with edits, a crash leaves `processing` |
| Interaction log and rating (`interaction_logger.py`, `routes.py`) | interaction rows | background log, rate with retries | database | rating races the background insert |
| Timer and time blocks (`backend/services/timeblock`) | `running_timers`, `time_entries`, `time_blocks` | start, stop, current, CRUD | database | check then act, two writes without a transaction |
| Notes (`backend/services/note`) | `notes`, `note_contents`, MinIO objects | note CRUD and search, content create, update, delete | MinIO, database, indexing | object store and database written one after the other |
| Tasks (`backend/services/task`) | goals, milestones, tasks, tags, todos, completions | CRUD, reorder, toggle, cascading deletes | database | cascades that the answer does not mention; toggle is check then insert |
| Users (`backend/services/user`), tokens (`backend/shared/auth`, `middleware`) | accounts, settings, JWT with an expiry | register, login, demo login, settings | database | a token may expire between two requests |
| Memos, analytics (`backend/services/memo`, `analytics`) | rows | CRUD, aggregation queries | database | none beyond single statements |
| Lakehouse (`lakehouse/`) | bronze, silver, gold tables, ingest watermarks | ingest, transform, aggregate | PostgreSQL, Iceberg | watermark persisted after the appends |

**Browser**

| Component | State it keeps | Operations | Talks to | Hard behaviour |
|---|---|---|---|---|
| Shell: HTTP client, session, settings, timer widget (`web/api/client.ts`, `useAuthStore.ts`, `useInitializeData.ts`, `useSettingsStore.ts`, `useTimerStore.ts`, `App.tsx`) | token, user, loading flag, settings, running timer | sign in and out, initial fetches, 401 handling, save settings, start and stop the timer, reload | user, task and time block services | answers of one session that arrive in the next; a refused request ends a session |
| Page guides and demo tour (`web/components/guide`) | step, target, timers, what is stored about tours | start, next, back, skip, polling for a part of a page | router, prompt page | several polls and timeouts per step, navigation under them |
| Calendar (`web/pages/DailyPage.tsx`, `W01_WeeklyPlanning.tsx`, `components/common/timeline`, `daily`, `weekly`, `useTimeBlockStore.ts`, `lib/timezone.ts`) | blocks and entries, dialogs, the gesture under way | fetch a day or a week, create, edit, delete, drag, resize, drop a task | time block service | local days against UTC, rounding, late answers |
| Task page (`web/pages/T01*`, `components/task`, list stores) | four lists, selections, dialogs, the task panel | CRUD, complete, reorder, selecting by effects | task service | effects that select, cascades, answers that open or close panels |
| Note pages (`web/pages/N01*`, `N02*`, `useNoteStore.ts`) | list, cache, filters, form, refs of content ids | search, edit, save a note and its contents, paste images, archive, delete | note service, object store | a save is several requests in a row, any of which may fail |
| Prompt page (`web/pages/A03*`, `components/prompt`, `usePromptStore.ts`) | contexts, versions, form, comparison, test of two versions | save, adopt, reject, roll back, optimise, test and vote | prompt endpoints | a context chosen while answers are under way |
| Agent in the pages (`web/components/agent`, `components/analytics`, `hooks/useChatStream.ts`, stores) | conversation id, log, cards, history, rating, review, advice | send, approve, reject, view an old conversation, rate, generate a review with retries, apply an advice | agent endpoints over SSE, all stores | several responses in flight, abandoned responses, old cards in the log |
| Interaction pages, memos, charts, mocks, observability, deployment | - | - | - | - |

How they interact.  The browser talks HTTP to six Go services and SSE to the AI
service.  The Go services and the AI service share one PostgreSQL (ADR-0001);
nearly every statement commits on its own, so the rows are the only thing two
requests have in common and any two requests interleave at every statement.
The AI service is one asyncio process: between two awaits a handler is alone,
at each await or yield any other handler may run, and a client that disconnects
cancels the generator at a yield.  Dagster calls the batch jobs of the AI
service and the ingestion on a schedule, beside the users' requests.
In the browser everything runs on one thread: a function runs up to its next
`await`, effects run after a step, and answers and timers come in any order.
Stores are shared by all pages and outlive them; pages lose their own state when
they are left.

## 2. What makes each component correct

| Component | Properties |
|---|---|
| Chat panel, endpoints, store | a write is applied only if the user selected it, from a proposal of this conversation, and at most once; what the history says was not done was not done; a decided action is never offered again; the input comes back |
| Agent loop | calls and results are adjacent in the history; each call is executed or proposed exactly once; every event reaches the client before `done`; nudges and deferred tools obey their rules; the response ends |
| Timer | tracked time is never lost; one entry per timer; a timer ends only by a stop that recorded it; names follow the task |
| Prompt versions | numbers without gaps; versions are immutable; undecided candidates are not active; the active version is what the agent is prompted with |
| Notes and index | nothing deleted is found; nothing is found twice; an indexed note is indexed with what its readers see; pending notes are dealt with; a large text is readable after an update |
| Shell | what a page shows belongs to the user signed in; a session ends only for a cause; the loading screen goes away |
| Guides and tour | every step comes to a card the user can go on from |
| Calendar | what the pointer shows is what is saved; the page shows the rows of its local days; no entry is saved twice |
| Task page | selections and typed names belong to the rows shown; stores and tables agree when nothing is in flight |
| Note pages | a saved note is stored as it was shown, and once; the list, the cache and the search are what is stored |
| Prompt page | the page is current whatever overlapped; a save sends only what was typed for its context; the comparison lets both prompts be read off; the vote is offered |
| Agent in the pages | the log is the conversation the next message goes to; what would be approved is visible; a review is about its period and an advice is applied once |
| Facts, ratings | a fact is stored once; a rating goes to the interaction that was rated |
| Ingestion | bronze has every row of the source once, and its latest state for mutable tables, whenever the job stops |
| Todos | an odd number of toggles completes, an even number undoes |

The hazards behind these are listed with their lines in `PROJECT.json`.

## 3. Modules

Each module names its source in a comment above every action, and
`PROJECT.json` maps each definition to its lines.

| Module | Models | Uses | Theorems in |
|---|---|---|---|
| `ApprovalFlow` | what the agent promises about writes | | `AgentConversation_proofs` |
| `AgentConversation` | the tab's requests, the endpoints, the store | `ApprovalFlow` (refined) | `AgentConversation_proofs` |
| `AgentLoop` | one call of the agent and its events | | `AgentLoop_proofs` |
| `TimerService` | start and stop of the work timer | | `TimerService_proofs` |
| `PromptVersions` | a context and its versions in the database | | `PromptVersions_proofs` |
| `NoteIndex` | contents, object store and search index of a note | | `NoteIndex_proofs` |
| `Timeline`, `Calendar` | time arithmetic; the calendar pages and their store | `Calendar` extends `Timeline` | `Calendar_proofs` |
| `TaskBoard` | the task page, the task panel and the four list stores | | |
| `NotePage` | the note list and the editor | | |
| `Session`, `Tour` | the shell; the shell with both guides | `Tour` extends `Session` | `Tour_proofs` |
| `PromptDiff`, `PromptPage` | the comparison of two prompts; the prompt page | `PromptPage` instantiates `PromptDiff` | |
| `ProposalCard`, `ChatPanel`, `ReviewPage`, `AdviceCard`, `Assistant` | where a user meets the agent | `Assistant` composes the other four | `Assistant_proofs` |

The first six are the services, the others the browser.  A browser module takes
the service from outside: a request commits at once, may fail or, where the code
distinguishes it, its answer may be lost, and answers come in any order.  The one
exception is `NotePage`: creating and updating a note are several commits, and what the
page does about an error depends on how many of them were made, so it has
them.  What else happens inside a request is the business of the service modules.  In all browser
modules an action is one run of the thread: a handler up to its next `await`, or
a continuation after an answer, with the effects that React runs after it.

### ApprovalFlow and AgentConversation

`ApprovalFlow` is the abstract promise: every write action is proposed once,
executed at most once and only after the user selected it, and a refused one
stays refused.

`AgentConversation` is the code: one tab (`clientVars`), the requests it sends
(`requestVars`, the locals of the handlers) and the server's memory
(`serverVars`).  A request is a member of `Req`; `pc` says where its handler is:
`sent`, `running` (entered), `done` (about to yield the done event), `tail` (after the
last yield), `over` or `lost`.  `BeginStream`, `AgentDone`, `YieldDone` and
`SaveProposal` are the stretches of `agent_stream` between its yields,
`BeginApprove`, `Execute`, `EndLoop`, `YieldDone` and `RecordResults` those of
`agent_approve`; `RejectAll` is `agent_reject`, which never awaits.  The client's
actions include what its handlers do on the spot: `HandleReject` closes the card
and does not wait, `StopReading` is the `finally` that unlocks the input.
`GiveUp`, `Cancel`, `NewConversation`, late and lost rejections, `Lapse` (TTL) and
`Restart` are the troubles, counted by `faults`.  `Flow` instantiates
`ApprovalFlow` with the stage of each action as memory and database show it.

### AgentLoop

`stream_sse` of both runners.  A run is one call; `messages` is the history the
runs of a conversation share; a call carries the turn and the model response it
came in.  `Runners` says which tools the endpoint gives the run: of the context the
message resolves to (`Contexts`), either those selected for the message (`Selections`,
any), with the write tools of the same groups set aside until something was read
(`DeferredFor`), or, when a proposal is open and the message is thus taken for a
revision of it, all of them and none set aside.  `AnswerText`, `AnswerReads` and `AnswerWrites` are the branches on a
model answer (the LLM may answer anything), `FinishRead` a readonly tool of the
parallel batch, `Collect` the end of the batch with the unlocking of deferred
tools, `Relay` and `Conclude` the generator that polls the queue.  The task is not
cancelled by `Abandon`.  `AgentConversation` summarises all of this by `AgentDone`:
the proposal a loop ends with (`ProposalComplete` says what it is made of).

### TimerService

Start and stop requests against the user's one row of `running_timers`; one action
per database call, `Abort` before any of them, and `Rename` for the trigger that
updates the copies of a task's name.  `overlapped` is a history variable: two
requests, or a request and a rename, were in flight at once.

### PromptVersions

One context and its versions; one action per SQL statement of the requests
(list with its lazy copy, update, rollback, adopt, reject) and of the batch
(candidate).  The unique index makes `Insert` of an existing number fail.
`overlapped`: two requests that set the context were in flight.  The properties
about the active version are conditional on `Copied`, that both the context and its
version 1 exist: when the first request of a new user stops between the two
statements, there is a context without a version, and `active_version` refers
to nothing until somebody writes a version.

### NoteIndex

One note: `row` and `object` are what `note_contents` and the object store hold of
each content, `status` is `notes.index_status`, `chunks` the index.  An edit is a
content request of the note service, with one action per statement or storage
call; an indexer is a call of `reindex_pending_notes`, likewise.  `Abort`, `Fail`
and `Crash` may come before every step.  History variables name the three windows
in which the code is known not to keep the index current: `overlapped` (two
indexers), `missed` (a change not marked, or marked while an indexer holds texts
it read before, or a failed download) and `crashed`.  Outside of them
`IndexedIsCurrent` and `FoundOnce` must hold, and that they do is the point of the
run: deletions between read and insert, half-failed edits that a later edit marks,
and partial inserts are all covered.

### Timeline and Calendar

`Timeline` is arithmetic: local time against UTC (`LocalToUtc`, `UtcRange`, with the
one look-up of the offset the code makes), pointer positions against times
(`YToMinutes`, `TimeFromY`, `DropIndicator`), JavaScript's `%` on negative minutes
(`AsTimeString`).  `Calendar` is the store (`view`, `error`, `calls`), the tables
(`rows`), the block and entry dialogs with their pickers, and the pointer: `gesture`
is a move or a resize under way with its preview, `drag` a task dragged over the
timeline.  A preview is what the code computes on each mouse move from where
the gesture began, and releasing sends exactly that; `GestureFaithful` compares
the two.  The store's list is a function from places to rows: an append takes the place
after the last one, a replacement keeps it, and a list that arrives starts again; the
order matters to nothing but the appearance.  `stale` is history: since the last list a
request failed, overlapped with one its answer could undo (`Disturbs`), or was about a row
that the store no longer held (`Misses`).

### TaskBoard

Goals, milestones, tags and tasks in the tables and in four stores made by
`createCrudStore`.  The page selects by effects that run after an answer or a click
(`Selected`, `Settle`) and are part of that step, as no state between is
shown.  The panel of a task (`panel`, `text`) may be open over the task page or the
daily page, may create, show or descend into a subtask, and saves its name when
the field is left.  Deletions cascade in the tables as the schema says and in the
stores as the store functions say; `ShownIsStored` says where the two agree.
`typedFor` and `pulled` are history.

### NotePage

The list with its filters, search and the cache of whole notes, and the editor.
Every opened editor is an instance (`insts`) with its refs, because a save goes on
after its editor was left; a save is a job with a list of requests still to make
(note, text, two diagrams), each decided when the one before was answered.
Pasting an image into a new note makes a draft first.  A request that creates or updates
a note goes through the statements of the service one by one (`ServeCreate`,
`ServeLookUp`, `ServeUpdate`, `ServeTags`, `ServeMeta`), each of which commits by itself;
after each the service may answer an error (`ServeFail`), and the page does the same
about all errors.  `unsure`, `stale` and `half` are history: an answer was lost or two changes
overlapped; and the notes of which a request failed after its row was committed.  A
creation that does leaves a note behind which the next save does not know of, an update
that does leaves the cache with the old note: section 7.

### Session and Tour

`Session`: who is signed in (`session`), the token that the HTTP client holds, the
requests with the token they were sent with, the loading gate (`ready`,
`loading`), what the stores hold and whose it is, settings and timer.  Stores
outlive a sign-out, as they do in the code, and `ShownIsTheirs` is about what a page
shows nevertheless.  `Lapse` expires a token, `Reload` starts the page again.
`Tour` extends it with the guides: `tour` is the state of `DemoTour`, `waits` the
timers of all runs of its effect, `dead` the flag they share, `parts` what of the page
is on the screen.

### PromptDiff and PromptPage

`PromptDiff` is the longest common subsequence of lines and, in a replaced line, of
words, with the backtracking of the code; `ShowsBoth` is the reference: both prompts can be
read off the marks, and as many lines are unmarked as two prompts can have in common
(`Matchings`).  `PromptPage` is the store and
the page: `jobs` are functions that wait, with the requests they still make and
the continuation of the handler that started them, `asof` how old each shown list is.
The test of two versions has two streams that are answered independently.

### ProposalCard, ChatPanel, ReviewPage, AdviceCard, Assistant

`ChatPanel` is the tab's side of the agent: the log, the responses it reads one event
at a time (`calls`, with the tools each told of), cards, the history of old conversations, the rating, and a question that
another page leaves to be asked.  The answer to a message
and the answer to an approval go through the same reader but differ in their order: a
message's has texts and batches of tool calls, each batch announced before its first
result, and then perhaps a proposal; an approval's has each call with its result, which may
be an error, and always a closing text.  An entry of the log carries the conversation it
belongs to as history: the tab does not know it, and `PanelIsOneConversation`
compares it with the id the next message is sent with.  `mixed` is history too: the
log was replaced, or another conversation begun, while a response, a rating or an old
conversation was on its way, or by a question that waited.  `ProposalCard` says which
actions a card draws.  `ReviewPage` is the analytics page with the loop of at
most three attempts; `AdviceCard` is the card of today's page with the loops that
add blocks and go on when the page is left.  `Assistant` composes them: one of today's
page, the analytics page or another one is open, the panel is beside all of them, and
`AskInPanel` is the only thing a page and the panel do together.  What the service
does with the panel's requests is `AgentConversation`.

## 4. Runs

| Run | Instance | Properties | What it shows |
|---|---|---|---|
| `AgentConversation_reliable` | 5 requests, 2 actions, up to 2 lost rejections or expiries, symmetry | `WritesToldTruly`, `ImplementsApprovalFlow` | writes are applied at most once and told truly; the code implements `ApprovalFlow` |
| `AgentConversation_faults` | 3 requests, 2 actions, any 2 faults, fair | `RanAsApproved`, `DecidedStaysDecided`, `SpinnerStops` | safety of writes whatever goes wrong; the input comes back |
| `AgentLoop_serial` | 2 runs, 2 tools, 3 selections, 3 turns, 3 calls, both providers, fair | `TypeOK`, `HistoryPaired`, `ProposalComplete`, `EventsDelivered`, `NudgeRules`, `ResponseEnds` | the protocol of the loop |
| `TimerService_any` | 4 requests, 1 rename | `TimeKept`, `OnlyStopEnds` | no time is lost, recorded twice or under another name |
| `PromptVersions_any` | 3 requests, 2 values, symmetry | `ActiveIsSound`, `AuditTrail` | append-only versions, the active one is what is used |
| `NoteIndex_any` | 2 contents, a short and a long text, 2 edits, 2 indexers, fair | `SearchIsTrue`, `EventuallyIndexed` | what is found exists, once, and is current; notes get indexed |
| `Calendar_tokyo` | Tokyo, days 0 and 7, both pages, 2 edits, 4 requests, 2 at once | `TypeOK`, `GestureFaithful`, `ViewTrue`, `SubmittingIsSaving` | what a gesture shows is saved; the page shows what the tables hold |
| `TaskBoard_two` | 2 goals, 2 milestones, 3 tasks, 1 edit, 2 requests, 2 at once | `TypeOK`, `InputFitsRows`, `ShownIsStored` | selection, typed names and lists stay with their rows |
| `NotePage_two` | 2 old notes with diagrams, 1 edit, 2 requests, 2 visits | `TypeOK`, `SavedOnce`, `StoreTrue` | a save in several requests of several commits is complete and made once |
| `Tour_two` | 2 users, 2 tokens, 1 timer, 1 trouble, fair | `TypeOK`, `ShownIsTheirs`, `SessionEndsForCause`, `WaitingEnds` | nobody sees another's rows; nothing waits for ever |
| `PromptPage_two` | 2 contexts, 5 steps, 2 commands, 2 messages, 1 trouble, fair | `TypeOK`, `PageIsCurrent`, `DiffShowsBoth`, `SavedToItsContext`, `VoteComes` | the page is current whatever overlapped |
| `Assistant_two` | 3 panel requests, 2 calls of tools, 2 advices, 2 periods, 3 attempts | `TypeOK`, `PanelIsOneConversation`, `ChoiceIsSeen`, `GeneratedIsTrue` | the log, the cards, the review and the advice say what is |

Deadlock is not checked: in every instance the requests, runs or edits are used
up and the system may stop.  Each property has a mutant in `PROJECT.json`, a
plausible bug in one mapped definition that makes the run fail.

Beside the runs there are configurations that show a behaviour described in
section 7; TLC reports their property violated:
`AgentConversation_giveup`, `AgentConversation_stalecard`, `AgentLoop_abandoned`,
`TimerService_overlap`, `PromptVersions_overlap`, `NoteIndex_large`,
`Calendar_newtask`, `NotePage_disagree`, `PromptPage_sidebar`,
`Assistant_choice`.  `NotePage_disagree` and `Assistant_choice` have four properties each: TLC
stops at the first one it finds violated, and reports each of the others when it is the
only one.

Why the bounds are enough:

- *Requests.*  Each interesting schedule is a story of a few requests: five cover
  message, proposal, approval, next message, and a second decision on the same
  card; with faults three are the largest number that still finishes, and the
  central safety property is a theorem for any number (section 6).  Four timer requests are
  start, stop, stop, start, in all interleavings, which the known loss needs.
  Three prompt requests allow any two operations to race a third.  In the
  browser two requests in flight are what a late answer needs, and the
  history variables (`stale`, `unsure`, `overtaken`, `mixed`) excuse a state only after
  such an overlap, so longer stories consist of the same pairs.
- *Actions and tools.*  Two actions give selections that are partial; one readonly
  and one deferred write tool distinguish every branch of the loop, and three
  calls allow a mixed batch after an earlier one.  A message selects nothing, only the
  readonly tool, which sets the write tool aside, or both; the second run finds a proposal
  open or not.  Two calls of tools in the panel are two of one batch, or one in each
  of two responses.
- *Turns.*  Three turns are: read, nudge, write; the last one is the boundary.
- *Faults.*  `MaxFaults`, `MaxAbandoned`, `MaxRenames`, `MaxTroubles` and `MaxCalls` bound
  what would otherwise happen without end; two faults cover every pair.
- *Times.*  `Calendar_tokyo` has the offset for which local and UTC dates differ most
  of the day, pickers and pointers on, beside and beyond the quarters, the day's
  first and last minutes, a day and the day a week later.
- *Rows.*  Two goals with a milestone each and a task with a subtask have a row to
  select after every deletion; two notes with different kinds of diagrams exercise
  every branch of a save; two contexts, one with a candidate and a rejected version,
  offer every decision.
- *User steps in the browser.*  `Assistant`: no step once `mixed`, pages are changed
  before the panel is used, a behaviour is about the advice card or about the panel and
  the review (they share nothing), panel and page are not busy at the same time (they
  share only the question), one request is kept for a question that waits.
  `PromptPage`: moves, edits and twice the commands are at most five; nothing is begun
  with more than one request in flight, after a missing answer, or after the last
  command; messages of a test only when nothing is in flight.  `Tour`: no zone is
  picked and no tour begun while settings are saved; links are free and other choices
  counted; page actions begin only with no request in flight, a sign-in with at most one;
  a token expires when a request that carries it is pending.  `TaskBoard`: pages are left only
  while something is in flight or has failed; nothing is done after the last request
  was answered.  `NotePage`: no editor is opened while a draft is being made; nothing
  begins once `unsure`.  `Calendar`: a picker, and what it offers, counts as an edit.
- *Symmetry* is used where only invariants and a safety refinement are checked and
  all members of the sets are interchangeable; never with liveness.

## 5. Fairness

- `AgentConversation`: weak fairness of `Server(r)`, the event loop resumes every
  coroutine that can go on.  The client needs none: what the client does on an
  event is part of the server's step that sends it, and giving up is not assumed.
- `AgentLoop`: weak fairness of the task and of the generator.  A model request
  ends because the API clients have timeouts, with an answer or an error.
- `NoteIndex`: weak fairness of each edit's next call and of the indexer, which the
  Dagster schedule `reindex_schedule` starts every ten minutes.  Failing is allowed under
  fairness; an indexer stopped half way (`Crash`) is excluded by `EventuallyIndexed`
  itself, since nothing in the code ever picks a note in `processing` up again.
- `Tour`: weak fairness of `Served` and `Arrived` (a request is answered or fails: the
  services answer, and the browser ends a broken connection) and of `Timers` (the
  browser fires a timer that was not cleared).  The user is never fair: a card may stay
  for ever, which is why `WaitingEnds` is about coming to a card.
- `PromptPage`: weak fairness of `Serve` and `Arrive`, likewise, and of each side's
  `StreamEnds`: a stream of the test ends, with `done`, an error, or by the chunk and response
  timeouts of `streamAgentChat`.

The other modules state no liveness: their requests are short and may always fail.

## 6. Proofs

The `*_proofs` modules hold for every number of requests, actions, tools, values,
contents, users, proposals and steps.  They use the assumptions that the models name,
which say what the constants are and nothing about behaviour:

- the "nothing" value is none of the others: `NoneAssumption`, `ChatAssumption`,
  `TodayAssumption`, `PeriodAssumption`, `UserAssumption`;
- bounds are numbers and sets are what they are called: `FaultAssumption`,
  `RenameAssumption`, `LargeAssumption`, `BoundAssumption`, `RetryAssumption`,
  `StepsAssumption`, `ProviderAssumption`, `ToolAssumption` (contexts,
  selections and groups are sets of tools),
  `ZoneAssumption`, `StopsAssumption` (a tour has a step);
- `AdviceAssumption` and `ProposalsAssumption`: an advice or a proposal is finite, its
  days and times are numbers, and a proposed block lies within its day, because its
  times are times of day (`HH:MM`, `db_tools.py:509`);
- `Calendar`: identities of blocks and entries are apart (`IdentityAssumption`), offsets, days,
  times and positions are integers (`OffsetAssumption`, `TimeAssumption`), the estimate of
  a task is a number of minutes (`EstimateAssumption`), there are finitely many old rows, one
  with each id (`OldRowsAssumption`, the primary key), a tab shows one of two pages
  (`PagesAssumption`) and there is room for the two lists a page opens with (`BoundAssumption`).

`PageShowsTables` is the only theorem about the browser with a hypothesis, `MidnightsClear`: the
timezone has no transition, or the offset the code looks up for a local midnight is
in force around it.  The code asks for the offset at the moment that has the local time's
digits in UTC (`timezone.ts:92`), as far from the midnight as the zone is from UTC; the
hypothesis holds for every zone without DST and for those that switch in the small hours
and are behind UTC or only little ahead of it.  It cannot be dropped, see section 7.

| Module | Theorem | Says |
|---|---|---|
| `AgentConversation_proofs` | `TypeCorrect`, `OnlyApprovedRuns` | types; an approve request applies only selected actions proposed in its conversation (`RanAsApproved`) |
| | `DecidedForGood` | what the history tells of is never pending again (`DecidedStaysDecided`) |
| | `ToldTruly` | `Orderly`: one application at most, and never told otherwise (`WritesToldTruly`) |
| | `FlowImplemented` | `Orderly`, no restart: the code implements `ApprovalFlow` (`ImplementsApprovalFlow`) |
| `AgentLoop_proofs` | `TypeCorrect`, `EveryCallDealtWith`, `NothingUnread`, `NudgesInOrder` | `TypeOK`; `ProposalComplete`; `EventsDelivered`; `NudgeRules` |
| | `PairedUnlessAbandoned`, `HistoryStaysPaired` | calls and results stay adjacent until a response is abandoned; always, when `MaxAbandoned = 0` (`HistoryPaired`) |
| `TimerService_proofs` | `TypeCorrect`, `TimersEndByStop`, `NoTimeLost` | types; only a stop that recorded something ends a timer (`OnlyStopEnds`); nothing is lost, recorded twice or out of sync without overlap (`TimeKept`) |
| `PromptVersions_proofs` | `TypeCorrect`, `NumbersNeverSkip`, `HistoryIsKept`, `AuditTrailHolds`, `CandidatesWait`, `ActiveVersionIsSound` | types; numbers without gaps and immutable versions (`AuditTrail`); undecided candidates are not active and the active version is shown without overlap (`ActiveIsSound`) |
| `NoteIndex_proofs` | `TypeCorrect`, `DeletedIsNotFound`, `NothingFoundTwice`, `SearchIsSound`, `IndexTellsTheTruth`, `SearchTellsTheTruth` | types; nothing deleted is found; nothing twice; an indexed note is indexed with what its readers see (`SearchIsTrue`) |
| `Tour_proofs` | `TypeCorrect`, `OnlyTheirs`, `EndsForCause` | `TypeOK`; a page shows its user's rows and timer (`ShownIsTheirs`); why a session ends (`SessionEndsForCause`, an action property) |
| `Calendar_proofs` | `TypeInvariance`, `TypesHold`, `GesturesAreFaithful`, `EntrySavedOnce` | types (`TypeOK`); what a gesture shows is saved (`GestureFaithful`); an entry is saved once (`SubmittingIsSaving`) |
| | `PageShowsTables` | `MidnightsClear`: the page shows what the tables hold (`ViewTrue`) |
| `Assistant_proofs` | `TypeCorrect`, `OneConversation`, `ChoiceShown`, `GeneratedTruth` | `TypeOK`; the log is the conversation (`PanelIsOneConversation`); what is approved is drawn (`ChoiceIsSeen`); reviews, advices and counts (`GeneratedIsTrue`) |

The arguments, by inductive invariant:

- `OnlyApprovedRuns`.  `RanAsApproved` speaks of what was applied; a step that applies
  takes it from a handler's list `todo`, which was taken from an object's
  `pending`, which a stream wrote.  `IInv` therefore ties each of them to the next:
  `HolderOK` (a handler's object is the one created for its conversation id, also
  after the store forgot or replaced it), `StoreOK`, `PendingOK` (what is pending was
  proposed in that conversation), `TodoOK`.  Frame lemmas (`OthersKept`, `StoreKept`,
  `RanKept`, `QuietStep`) say what a step of one request leaves to the others.
- `DecidedForGood` adds to it that actions are minted once (`FoundOK`) and that what was
  told of or is being decided comes from a stream that is `over` (`HandledOK`, `ToldOK`):
  only the last step of a stream makes actions pending, so an old one never comes back.
- `ToldTruly` and `FlowImplemented` assume `Orderly`: no response is given up, no
  conversation begun in the middle of one, no rejection arrives late.  Rejections may
  be lost, conversations may expire and, for `ToldTruly`, the service may restart.
  `RInv` says that the tab then has one request at a time in the service (`Alone`) and
  that, because of this, what an approve request divides into `approved` and `refused` is
  exactly what is pending in its object until it ends (`ApproveOK`), and is pending nowhere
  else nor afterwards (`Dealt`, `Apart`).  Each action of the code is then shown to be a
  `FlowStep`: `StageOf` is evaluated for the actions it concerns, and shown
  unchanged for all others.  The hypotheses cannot be dropped: with `giveup`, `newchat` or
  `latereject` TLC violates `WritesToldTruly`, and with `restart` a proposal is forgotten
  while it is executed, which `ApprovalFlow` does not have.
- `AgentLoop`.  `RunInv` is what one run keeps whatever the others do: its calls in the
  history are its own (`Spoken`), each of them is executed, being read, pending, or in
  the batch of its last message (`Books`, `Waiting`), deferred tools are offered from the first
  result on and nothing else is (`LockRight`).  A run that has not begun has written
  nothing (`Quiet`), so the notice of a message that sets a proposal aside is the run's own
  first message, and tells that the run was made with all tools of its context (`Equipped`).
  `Linked` ties the task to its generator.  The shared
  history needs that one response is relayed (`OneRelayed`), that only a run that is
  reading leaves calls unanswered and that they are then the last message
  (`LastAnswered`); both fail as soon as a response is abandoned, which is the
  disagreement of `AgentLoop_abandoned` in section 7.
- `TimersEndByStop` needs `EntryBeforeDelete` only.  `NoTimeLost` needs `Alone`:
  without overlap one request is in flight, what it has read is still true,
  and the timer it is about to delete is recorded.
- `PromptVersions`: `Local` holds under every overlap (`Contiguous` numbers, what a
  request has read and chosen in `JobOK`, `ContextOK`); it gives the numbers, the
  candidates and the history.  `SInv` adds `Alone` and `Fresh`, that what a request
  read is still what the context holds, for the active version.
- `NoteIndex`: `OnceInv` says that one indexer is at work, that it holds one text of
  each content (`Holding`) and has inserted none of what it still holds
  (`ChunksApart`).  `CurrentInv` says that while no edit is half way the indexer's
  three heaps, to download, to insert and inserted, together are what readers
  see (`Faithful`), so that they are the index when it finishes (`Current`); and
  that a busy indexer finds the note pending or processing, so that `indexed` is
  only written by the one that did the work.
- `Tour`: stores outlive a session and requests carry the token of the time they were
  sent, so `IInv` speaks of the requests: whose they are and what their token is
  (`Owned`), that one sign-in is under way (`OneLogin`), and, as long as nothing has gone
  wrong, that every request in flight is of this session, what it has read is still so
  (`StillTrue`), and the rows and the timer are the user's up to an answer that has not
  yet been handled (`RowsRight`, `ClockRight`), or the loading screen hides them until
  the list is back (`Awaited`).  The guides change nothing of the shell but the page.
- `Calendar`: `WellTyped` is inductive by itself.  `SavingIsBusy` says the same as
  `SubmittingIsSaving` about places instead of a cardinality; it needs that the dialog
  which saves is about an entry, that only answers of such saves clear the flag, and nothing
  about dialogs, which is why closing one and opening another does no harm.
  `MoveFaithful` is inductive with the types, by the arithmetic of `DragTo` and `ResizeTo`;
  `DropFaithful` follows in every state from the arithmetic of the indicator and of
  the landing, which push into the column before and after rounding (`DropsAreFaithful`).
  `ViewTrue` speaks of moments without requests.  `AllFresh` says what holds in between,
  for a kind that is not `stale`: either its list is in flight alone, for the days that are
  shown, and answered with what the table still holds (`Listing`); or the requests are about
  different rows, each update about one the store has, and every row that no answered request
  is about is in the store as in the table (`Settling`).  The dates of a list are an
  interval of instants (`UtcRange`) and the page filters by local date; that the two agree is
  the lemma that needs `MidnightsClear`.
- `Assistant`: `IInv` is the conjunction of one invariant per part and of `Placed`, which
  page is open.
  *Panel*: `Linked` says that everything that is shown, continued or being read
  belongs to one conversation (`InView`), that a rating under way is for the one
  selected, that while the conversation has no id its first answer is still being read and
  has not told it, and that an old conversation on view is only read.  Approvals are requests
  like messages there: theirs is the conversation of the panel when they are sent, and what
  is read of one is of a conversation in view (`AtResponse`, `AddedFine`).  A question that
  waits has a request kept for it.  It is stated of a state as a value (`Good`,
  `Fine`), as the code is: a handler is a sequence of functions of the state, each with
  a lemma, and the effects that run after it are the last one (`BecomeGood`).
  *Cards*: `checked` is part of what the card shows, a day that is proposed has a tab
  unless most days are in the current week, and the hours drawn contain every block,
  by the least and greatest elements of finite sets (`LeastOf`, `HoursOfBlock`).
  *Review*: without overlap one fetch is under way, and it is for the page's period
  (`FetchOK`); the text is that of the attempt under way (`TextOK`).
  *Advice*: loops are apart from one another and have not added what they still have to
  (`LoopsOK`); added and left together are what a loop began with (`CountOK`).

Only model-checked: liveness (`SpinnerStops`, `ResponseEnds`, `EventuallyIndexed`,
`WaitingEnds`, `VoteComes`: no prover here handles fairness), and everything of
`TaskBoard`, `NotePage` and `PromptPage`.  The stores of `TaskBoard` and `NotePage` are
filtered lists (`SelectSeq`), whose recursion no prover here unfolds; of `PromptPage`, `DiffShowsBoth`
would need induction over the recursion of the comparison, and the others a typing of
its continuations that has not been attempted.

## 7. Disagreements found

Each of these has a property that states what the repository says and a
configuration in which TLC reports it violated by what the code does.

| Configuration | Property | The code | What the repository says |
|---|---|---|---|
| `AgentConversation_stalecard` | `SelectedAreDealtWith` | every card of the log is enabled while any proposal is open; approving an old one executes nothing and rejects the open one | selected tools are executed (`docs/TECHNICAL_HIGHLIGHTS.md:61`) |
| `AgentConversation_giveup` | `DiscardedWasNotRun` | `pending_actions` is cleared after the last event; a response cut off before leaves applied actions to be recorded as discarded | pending means unapproved (`routes.py:267`) |
| `AgentLoop_abandoned` | `HistoryPaired` | the loop's task outlives its response and writes into the history of the next one | results follow their calls (`message_history.py:37`) |
| `TimerService_overlap` | `StoppedIsRecorded` | the DELETE names the user, not the timer that was read | a stop creates a time entry (`timeblock/.../repository.go:685`) |
| `PromptVersions_overlap` | `ActiveIsSnapshot` | the version is inserted from one reading, the context updated on another | versions are snapshots (ADR-0011) |
| `NoteIndex_large` | `LargeUpdateShown` | the UPDATE does not write the storage key | a large text is uploaded to external storage (`note/.../service.go:590`) |
| `Calendar_newtask` | `NameIsTasks` | a task added in the block dialog leaves the id of the task chosen before, so the block has the new task's name and the old task's id | "taskIdは次回のtasks更新後に自動的に反映されるため、一旦undefinedのまま" (`TimeBlockDialog.tsx:107`) |
| `NotePage_disagree` | `AllListed` | the store merges the filters into the last ones, and a filter that is taken back is left out of the call, so the list stays filtered by it (`useNoteStore.ts:92`) | すべて, すべての目標 (`N01_NoteList.tsx:151`); "Fetch notes on mount and when filters change" (`:50`) |
| `NotePage_disagree` | `UntouchedStays` | a drawing over 100 KB is in the object store and not in the row; the editor takes it for absent and the next save deletes it (`N02_NoteEdit.tsx:280`) | "hasDrawio toggled off — delete the drawio content" (`:279`) |
| `NotePage_disagree` | `RetriedMakesOne` | the service commits the row of a new note before its tags and its metadata (`note/.../repository.go:191`); an error after it looks like none was made, so the save that is tried again makes a second note | "Track content IDs for create/update decisions on save" (`N02_NoteEdit.tsx:73`) |
| `NotePage_disagree` | `CacheTrue` | an update that fails after its row was committed changes the row and not the cache, which is never fetched again | "Full notes cache (with content)" (`useNoteStore.ts:9`) |
| `PromptPage_sidebar` | `ShownIsSelected` | a version open on the optimize tab stays when another context is chosen from the editor tab, and is then compared with and decided on for the other context | "Prompt diff against active version" (`VersionDetail.tsx:157`) |
| `Assistant_choice` | `AllChosenAreSeen` | when at least half of the proposed days are in the current week the others have no tab, but are selected and approved | "Expand proposal dates to a full Mon-Sun week range" (`ActionProposal.tsx:54`) |
| `Assistant_choice` | `ReviewIsOfShownPeriod` | the review of one period stays when another is picked | "この期間のAIレビューはまだ生成されていません" (`AIReviewSection.tsx:303`) |
| `Assistant_choice` | `LogIsOneConversation` | the response to an approval has no way to be aborted, and one to a message goes on when another conversation is loaded: their events land in the log that is shown then, and `done` sets the id the next message is sent with | "Reset stream state for new prefilled conversation" (`ChatPanel.tsx:74`) |
| `Assistant_choice` | `NoQuestionWaits` | a question of another page that comes to an open, idle panel is read only when some later response begins or ends | "Handle prefilled messages" (`ChatPanel.tsx:69`) |

Seen while modelling and kept in the models, without a configuration:

- *Agent.*  A write tool that returns an error value is recorded as executed
  (`Execute`); after a broken Gemini stream the calls of both requests are kept
  (`Call.resp`); an edit marked while an indexer works is overwritten by `indexed`
  (`missed`).
- *Chat panel.*  A card's selection is all again when the panel is closed and
  opened or the history is shown.  A first response that ends without `done`
  leaves the tab without a conversation id: the next message starts another
  conversation below the old log (`mixed`).  A rating is thanked for even if it
  failed, and a late one marks a new conversation as rated.  A question from another
  page that comes to an open, idle panel waits until some later response ends and
  then replaces the conversation (`askedIdle`); what was set back when it came
  (`useChatStore.ts`, `sendPrefilled`) is not set back again, so an old conversation
  shown, or one rated, in the meantime leaves its mark on the new one, which then
  looks only viewed or already thanked for (`Ask` sets `mixed`; found by the proof of
  `OneConversation`, whose invariant was not kept by that step).
- *Review and advice.*  Late sums of an earlier period replace those of the one
  picked (`overlap`).  The count of applied blocks includes failed additions; an
  advice asked for while another is applied is shown as applied.  Any click into a custom
  period fetches at once and closes the calendar, so its end cannot be picked.
- *Prompt page.*  Answers of updates carry no candidate count, so the badge goes until
  the next list.  An optimisation reads again only the versions of the context that was
  selected when it was started (`moved`).  A decision answered after the return to the
  editor leaves the old text in the form, which a save puts over the adopted one.
  Two clicks on a winner make two versions.
- *Shell.*  Zones picked on the settings page are reset before they can be saved.  A
  refused request of an earlier session signs the next one out
  (`SessionEndsForCause`).  Stores are not emptied by signing out.
- *Tour.*  The flag of a running tour survives signing out, although tours are "per user"
  (`DemoTour.tsx:33`).  All polls share one flag, so a cleared one goes on when
  the next begins; going back to the version step waits the full eight seconds.
- *Calendar.*  Moving a block that ends at or after midnight, or outside the hours
  of the week's columns, saves an end before the start.  A task dropped on the week
  creates nothing.  A dialog opened at 23 h proposes an end at hour 24.  The conversion of
  local times looks the offset up at the wrong moment, although `timezone.ts:8` says that it
  "correctly handles DST transitions": with `OffsetBefore` 600, `OffsetAfter` 660 and `Switch` -480
  (Sydney) a row at -630, in the last local hour of day -1, is on no day, and TLC reports
  `ViewTrue` violated.  Found by the proof of `PageShowsTables`, which needs `MidnightsClear`.
  The same proof found that the answer of an update adds nothing when the row has left the store
  (`useTimeBlockStore.ts:138`): a block is moved to another day and the answer is lost, the page is
  retried, the old row's dialog is opened while that list is under way, and saving it moves the
  block back into the day, where it is not shown before the next list (`Misses`).
- *Task page.*  Deleting a milestone removes its tasks from the board until a reload,
  although the service keeps them (`ON DELETE SET NULL`, `001_init.sql:110`); deleting a
  task with subtasks removes them from the store only.  Leaving the name field twice
  creates two tasks.  A late answer switches or closes another panel (`InputFitsRows`
  holds nevertheless).  Clearing a milestone, a due date or an estimate sends nothing.
- *Notes.*  A goal, milestone, title or date that is cleared is not sent.  An image
  upload or a new tag puts the form back to what it was when it began.  A failed fetch
  of contents counts as none, so a save makes second ones.  Answers navigate from
  wherever the user is by then.  A diary whose creation failed half way cannot be made
  again, because there may be one of a day (`ErrNoteAlreadyExists`); an archiving that fails
  half way loses the tags, which are deleted before they are inserted.

## 8. What is not modelled

- Stateless code: tool selection, context resolution, analytics queries, SQL
  building, password hashing, formatting, layout.  It enters the models as a choice.
- The CRUD of the services but for creating and updating notes: the browser modules take a
  request as one step that commits or fails, which is what it is where the service makes one
  statement, or one transaction, after a check of existence.
- Code inside libraries: the ADK loop, Iceberg, the LLM, embeddings, drag and drop,
  the text and diagram editors.
- One user, one conversation per tab, one timer task, one context, one note in the
  service modules: rows of different users never meet in a statement.  One tab in the
  browser modules.
- *Chat, review, advice*: when a card fetches the calendar's blocks, the splitting of
  events over network chunks, scrolling, width, charts, the second click of a custom
  period.
- *Prompt page*: the variables found in a prompt, the note of a change, evaluation
  summaries, the seconds of an optimisation; turns and temperature are one field.
  `VersionDiffDialog` is not mounted anywhere.
- *Shell*: theme, names, the seconds of the timer, other tabs.  The seven fetches at the
  start are one list and the timer.  The tour is checked on a selection of its steps (`Stops`).
- *Calendar*: zoom, the overlay of the running timer, sums, due panels, overlap columns
  (not used).  *Task page*: dates and their order, search, the Gantt chart, the selection
  of several tasks (no control starts it), todo and recurring widgets (not mounted), the
  task cards of the weekly page.  *Notes*: order of the list, editing tools, renaming tags.
- The interaction pages, memos, fact extraction, ratings in the service, bronze
  ingestion, the lakehouse jobs, the chunker, observability and deployment.
- `PROJECT.json` lists every component with its reason.

The mapped modules have about 6 thousand lines for about 14.7 thousand mapped lines
of source.

## 9. Plan

Done first, because it decides what the agent may do to a user's data:
`AgentConversation`, `AgentLoop`.  Then the services with writes that span statements:
`TimerService`, `PromptVersions`, `NoteIndex`.  Then the browser, where most of the
interleavings a user meets are: `Calendar`, `TaskBoard`, `NotePage`, `Session` with
`Tour`, `PromptPage`, `Assistant`.  What is left, in this order:

| Module | Abstract specification | Instance | Properties and theorems |
|---|---|---|---|
| `BronzeIngest` | a bronze table is the source, as of some moment of the job | 3 rows, 2 tables (append, overwrite), 3 jobs that may stop anywhere | no row missing or twice when jobs complete; duplicates only after a stop between write and saved state; theorem: a watermark never passes a row that was committed before it |
| `FactStore` | a set of facts, each rated where it was made | 2 extractions, 1 rating | a fact once per user; a rating meets its interaction |
| `TodoToggle` | a bit flipped once per accepted toggle | 3 toggles | accepted toggles flip |
| `ToolSelection` | - | bounded messages | the deferred set and the initial set are disjoint and their union is what the message asks for |

Proofs to add: `PageIsCurrent` of `PromptPage`; `InputFitsRows` of `TaskBoard` and `SavedOnce`
of `NotePage`, once their lists are functions of places as those of `Calendar` are; then
`BronzeIngest`'s watermark.

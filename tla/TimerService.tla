---------------------------- MODULE TimerService ----------------------------
(***************************************************************************)
(* The work timer of the timeblock service: POST /timer/start and          *)
(* POST /timer/stop on one user's row of running_timers and on             *)
(* time_entries, with the trigger that keeps the task name stored in both  *)
(* equal to the task's.                                                    *)
(*                                                                         *)
(* Every request runs in its own goroutine and every database call is a    *)
(* transaction of its own, so one action here is one database call.  A     *)
(* request may end with an error before any of its calls: the client       *)
(* disconnected, the database failed, or the service stopped.  A timer is  *)
(* named by the request that started it; all timers are on one task.       *)
(***************************************************************************)
EXTENDS Naturals

CONSTANTS
  Req,         \* the requests
  None,        \* no timer
  MaxRenames   \* bound on how often the task is renamed

ASSUME NoneAssumption == None \notin Req
ASSUME RenameAssumption == MaxRenames \in Nat

VARIABLES
  pc,          \* the next call of each request, or how it ended
  kind,        \* "start" or "stop"
  input,       \* the task name a start request carries
  seen,        \* stop: the timer that repository.StopTimer read
  seenName,    \* stop: its task name
  timer,       \* running_timers: the timer of the user's row (user_id is UNIQUE)
  timerName,   \* running_timers: task_name
  entries,     \* time_entries made by stop requests
  taskName,    \* tasks: name, 0 at first and increased by each rename
  overlapped   \* history: two requests, or a request and a rename, overlapped

requestVars == <<pc, kind, input, seen, seenName>>
dbVars == <<timer, timerName, entries, taskName>>
vars == <<requestVars, dbVars, overlapped>>

Name == 0..MaxRenames

Entry == [stop: Req, timer: Req, name: Name]

Ended == {"ok", "conflict", "notfound", "nothing", "failed"}

Calls == {"check", "insert", "read", "entry", "delete"}

InFlight(r) == pc[r] \in Calls

Init ==
  /\ pc = [r \in Req |-> "unused"]
  /\ kind = [r \in Req |-> "start"]
  /\ input = [r \in Req |-> 0]
  /\ seen = [r \in Req |-> None]
  /\ seenName = [r \in Req |-> 0]
  /\ timer = None /\ timerName = 0
  /\ entries = {}
  /\ taskName = 0
  /\ overlapped = FALSE

Goto(r, p) == pc' = [pc EXCEPT ![r] = p]

\* A client sends a request; a start carries the task's name as it is shown.
Send(r, k) ==
  /\ pc[r] = "unused"
  /\ Goto(r, "check")
  /\ kind' = [kind EXCEPT ![r] = k]
  /\ input' = [input EXCEPT ![r] = taskName]
  /\ overlapped' = (overlapped \/ \E q \in Req : InFlight(q))
  /\ UNCHANGED <<seen, seenName, dbVars>>

-----------------------------------------------------------------------------
\* service.StartTimer: GetRunningTimer.
StartCheck(r) ==
  /\ pc[r] = "check" /\ kind[r] = "start"
  /\ Goto(r, IF timer = None THEN "insert" ELSE "conflict")
  /\ UNCHANGED <<kind, input, seen, seenName, dbVars, overlapped>>

StartInsert_Upsert(r) ==
  /\ pc[r] = "insert"
  /\ timer' = r /\ timerName' = input[r]
  /\ Goto(r, "ok")
  /\ UNCHANGED <<kind, input, seen, seenName, entries, taskName, overlapped>>

\* repository.StartTimer: the INSERT, refused when user_id has a row.
StartInsert(r) ==
  /\ pc[r] = "insert"
  /\ IF timer = None
       THEN timer' = r /\ timerName' = input[r] /\ Goto(r, "ok")
       ELSE Goto(r, "conflict") /\ UNCHANGED <<timer, timerName>>
  /\ UNCHANGED <<kind, input, seen, seenName, entries, taskName, overlapped>>

\* service.StopTimer: GetRunningTimer, only to see whether there is one.
StopCheck(r) ==
  /\ pc[r] = "check" /\ kind[r] = "stop"
  /\ Goto(r, IF timer = None THEN "notfound" ELSE "read")
  /\ UNCHANGED <<kind, input, seen, seenName, dbVars, overlapped>>

StopRead_DeleteFirst(r) ==
  /\ pc[r] = "read" /\ timer # None
  /\ Goto(r, "entry")
  /\ seen' = [seen EXCEPT ![r] = timer]
  /\ seenName' = [seenName EXCEPT ![r] = timerName]
  /\ timer' = None
  /\ UNCHANGED <<kind, input, timerName, entries, taskName, overlapped>>

\* repository.StopTimer reads the timer again; when it is gone the request
\* succeeds without an entry.
StopRead(r) ==
  /\ pc[r] = "read"
  /\ IF timer = None
       THEN Goto(r, "nothing") /\ UNCHANGED <<seen, seenName>>
       ELSE /\ Goto(r, "entry")
            /\ seen' = [seen EXCEPT ![r] = timer]
            /\ seenName' = [seenName EXCEPT ![r] = timerName]
  /\ UNCHANGED <<kind, input, dbVars, overlapped>>

\* repository.StopTimer: INSERT INTO time_entries, from what was read.
StopEntry(r) ==
  /\ pc[r] = "entry"
  /\ entries' = entries \cup {[stop |-> r, timer |-> seen[r], name |-> seenName[r]]}
  /\ Goto(r, "delete")
  /\ UNCHANGED <<kind, input, seen, seenName, timer, timerName, taskName, overlapped>>

\* repository.StopTimer: DELETE FROM running_timers WHERE user_id, whatever
\* timer the row holds by now.
StopDelete(r) ==
  /\ pc[r] = "delete"
  /\ timer' = None
  /\ Goto(r, "ok")
  /\ UNCHANGED <<kind, input, seen, seenName, timerName, entries, taskName, overlapped>>

\* The request ends with an error before its next call.
Abort(r) ==
  /\ InFlight(r)
  /\ Goto(r, "failed")
  /\ UNCHANGED <<kind, input, seen, seenName, dbVars, overlapped>>

\* The task is renamed: sync_task_denormalized_fields updates, in the same
\* transaction, the entries and the running timer of the task.
Rename ==
  /\ taskName < MaxRenames
  /\ taskName' = taskName + 1
  /\ entries' = {[e EXCEPT !.name = taskName'] : e \in entries}
  /\ timerName' = IF timer = None THEN timerName ELSE taskName'
  /\ overlapped' = (overlapped \/ \E q \in Req : InFlight(q))
  /\ UNCHANGED <<requestVars, timer>>

StopTimer(r) == StopCheck(r) \/ StopRead(r) \/ StopEntry(r) \/ StopDelete(r)

StartTimer(r) == StartCheck(r) \/ StartInsert(r)

Next ==
  \/ \E r \in Req : \/ Send(r, "start") \/ Send(r, "stop")
                    \/ StartTimer(r) \/ StopTimer(r) \/ Abort(r)
  \/ Rename

Spec == Init /\ [][Next]_vars

-----------------------------------------------------------------------------
(***************************************************************************)
(* Properties.                                                             *)
(***************************************************************************)
TypeOK ==
  /\ pc \in [Req -> Ended \cup Calls \cup {"unused"}]
  /\ kind \in [Req -> {"start", "stop"}]
  /\ input \in [Req -> Name]
  /\ seen \in [Req -> Req \cup {None}]
  /\ seenName \in [Req -> Name]
  /\ timer \in Req \cup {None}
  /\ timerName \in Name
  /\ entries \subseteq Entry
  /\ taskName \in Name
  /\ overlapped \in BOOLEAN

\* The timers that were started: the INSERT of their request succeeded.
Started == {r \in Req : kind[r] = "start" /\ pc[r] = "ok"}

Recorded(t) == \E e \in entries : e.timer = t

\* When the user's requests do not overlap, no tracked time is lost: a timer
\* that was started runs or has an entry, whatever request failed half way.
NothingLost ==
  ~overlapped => \A t \in Started : timer = t \/ Recorded(t)

\* When they do not overlap and none fails, a timer has one entry, from the
\* one stop request that ended it.
OneEntry ==
  ~overlapped /\ (\A r \in Req : pc[r] # "failed") =>
    \A d, e \in entries : d.timer = e.timer => d = e

\* Under any overlap a running timer is never replaced by another one; it is
\* only ended by a stop request, and that request has made an entry before.
OnlyStopEnds ==
  [][timer # None /\ timer' # timer =>
       timer' = None /\ \E e \in entries : pc[e.stop] = "delete" /\ pc'[e.stop] = "ok"]_vars

\* ADR-0007: the triggers keep the copies of the task name consistent, as
\* long as no request is in flight while the task is renamed.
NamesInSync ==
  ~overlapped =>
    /\ \A e \in entries : e.name = taskName
    /\ timer # None => timerName = taskName

\* Requests that do not overlap keep the user's time: none of it is lost, none
\* is recorded twice unless a request failed, and it bears the task's name.
TimeKept == NothingLost /\ OneEntry /\ NamesInSync

\* The comment on StopTimer, "stops the current timer and creates a time
\* entry": a timer that was stopped has its entry.
StoppedIsRecorded == \A t \in Started : timer = t \/ Recorded(t)
=============================================================================

--------------------------- MODULE PromptVersions ---------------------------
(***************************************************************************)
(* The prompt versions of the AI service: one user's row of ai_contexts    *)
(* and its rows of ai_context_versions, as the queries of ai_contexts.py   *)
(* and the weekly optimisation batch read and write them.                  *)
(*                                                                         *)
(* asyncpg commits every statement on its own and the service runs many    *)
(* requests at a time, so one action here is one SQL statement.  A request *)
(* may end with an error before any of its statements: the connection or   *)
(* the service is lost.  The unique index on (context_id, version_number)  *)
(* makes an INSERT of a number that exists fail.                           *)
(***************************************************************************)
EXTENDS Naturals

CONSTANTS
  Req,     \* the requests, and the contexts processed by the batch
  Value,   \* what a field of a context can hold
  None     \* no row, nothing read

\* allowed_tools, max_turns and temperature are always handled together.
Field == {"prompt", "settings"}

Content == [Field -> Value]

\* What source and changelog tell of where a version comes from.
Origin == {"template", "manual", "rollback", "ai"}

Version == [content: Content, origin: Origin,
            status: {"none", "pending", "adopted", "rejected"}]

Context == [content: Content, active: Nat]

ASSUME NoneAssumption == None \notin Context \cup Content

VARIABLES
  pc,         \* the next statement of each request, or how it ended
  job,        \* its parameters and locals, while it is handled
  context,    \* the row of ai_contexts
  versions,   \* the rows of ai_context_versions, by version_number
  overlapped  \* history: two requests that set the context were in flight

vars == <<pc, job, context, versions, overlapped>>

\* The requests that update ai_contexts.
Setters == {"update", "rollback", "adopt"}

Kind == Setters \cup {"list", "candidate", "reject"}

Statements == {"exists", "copy", "read", "number", "insert", "mark", "set"}

\* over: answered, with or without an error.
Place == Statements \cup {"unused", "over"}

Given == UNION {[S -> Value] : S \in SUBSET Field}

\* given: the fields that are not None in an update or a candidate; target:
\* the number in the URL of rollback, adopt and reject; seen: the content it
\* read; next: next_version.
Job == [kind: Kind, given: Given, target: Nat, seen: Content \cup {None}, next: Nat]

Nothing == [f \in {} |-> None]

NewJob(k, g, n) == [kind |-> k, given |-> g, target |-> n, seen |-> None, next |-> 0]

NoJob == NewJob("list", Nothing, 0)

InFlight(r) == pc[r] \in Statements

FirstVersion(c) == [content |-> c, origin |-> "template", status |-> "none"]

\* A new user, or one to whom the template was copied before.
Init ==
  /\ pc = [r \in Req |-> "unused"]
  /\ job = [r \in Req |-> NoJob]
  /\ \/ context = None /\ versions = [n \in {} |-> None]
     \/ \E c \in Content : /\ context = [content |-> c, active |-> 1]
                           /\ versions = [n \in {1} |-> FirstVersion(c)]
  /\ overlapped = FALSE

FirstStatement(k) ==
  CASE k = "list" -> "exists" [] k = "reject" -> "mark" [] OTHER -> "read"

Goto(r, p) == pc' = [pc EXCEPT ![r] = p]

\* The handler returns or raises: its locals are gone.
End(r) == Goto(r, "over") /\ job' = [job EXCEPT ![r] = NoJob]

\* COALESCE(MAX(version_number), 0)
Latest ==
  IF DOMAIN versions = {} THEN 0
  ELSE CHOOSE n \in DOMAIN versions : \A m \in DOMAIN versions : m <= n

\* The fields of g, the others from c.
Merge(g, c) == [f \in Field |-> IF f \in DOMAIN g THEN g[f] ELSE c[f]]

\* A request arrives.  The id of a context is known once its row exists.
Send(r, k, g, n) ==
  /\ pc[r] = "unused"
  /\ k # "list" => context # None
  /\ Goto(r, FirstStatement(k))
  /\ job' = [job EXCEPT ![r] = NewJob(k, g, n)]
  /\ overlapped' =
       (overlapped \/ (k \in Setters /\ \E q \in Req : job[q].kind \in Setters))
  /\ UNCHANGED <<context, versions>>

\* GET /prompts
SendList(r) == Send(r, "list", Nothing, 0)

\* PATCH /prompts/{id}: any of the fields may be left out.
SendUpdate(r) == \E g \in Given : Send(r, "update", g, 0)

\* The batch has got an improved prompt from the LLM and stores a candidate.
SendCandidate(r) == \E g \in [{"prompt"} -> Value] : Send(r, "candidate", g, 0)

\* The URL names a version, or one that does not exist yet.
SendForVersion(r, k) ==
  \E n \in DOMAIN versions \cup {Latest + 1} : Send(r, k, Nothing, n)

-----------------------------------------------------------------------------
\* ensure_user_contexts: SELECT 1 FROM ai_contexts.
Exists(r) ==
  /\ pc[r] = "exists"
  /\ IF context = None THEN Goto(r, "copy") /\ UNCHANGED job ELSE End(r)
  /\ UNCHANGED <<context, versions, overlapped>>

\* ensure_user_contexts: INSERT ... SELECT ... ON CONFLICT DO NOTHING RETURNING.
\* Without a returned row there is nothing to insert a version for.
Copy(r) ==
  /\ pc[r] = "copy"
  /\ IF context # None
       THEN End(r) /\ UNCHANGED context
       ELSE \E c \in Content :
              /\ context' = [content |-> c, active |-> 1]
              /\ job' = [job EXCEPT ![r].seen = c, ![r].next = 1]
              /\ Goto(r, "insert")
  /\ UNCHANGED <<versions, overlapped>>

\* The first SELECT of update and candidate: the context.
ReadContext(r) ==
  /\ pc[r] = "read" /\ job[r].kind \in {"update", "candidate"}
  /\ job' = [job EXCEPT ![r].seen = context.content]
  /\ Goto(r, "number")
  /\ UNCHANGED <<context, versions, overlapped>>

\* The first SELECT of rollback and adopt: the target version, or 404.
ReadTarget(r) ==
  /\ pc[r] = "read" /\ job[r].kind \in {"rollback", "adopt"}
  /\ IF job[r].target \in DOMAIN versions
       THEN /\ job' = [job EXCEPT ![r].seen = versions[job[r].target].content]
            /\ Goto(r, IF job[r].kind = "adopt" THEN "mark" ELSE "number")
       ELSE End(r)
  /\ UNCHANGED <<context, versions, overlapped>>

\* SELECT COALESCE(MAX(version_number), 0)
Number(r) ==
  /\ pc[r] = "number"
  /\ job' = [job EXCEPT ![r].next = Latest + 1]
  /\ Goto(r, "insert")
  /\ UNCHANGED <<context, versions, overlapped>>

Source(k) ==
  CASE k = "list" -> "template" [] k = "rollback" -> "rollback"
    [] k = "candidate" -> "ai"  [] OTHER -> "manual"

\* The version a request stores.
NewVersion(j) ==
  [content |-> IF j.kind \in {"update", "candidate"} THEN Merge(j.given, j.seen) ELSE j.seen,
   origin  |-> Source(j.kind),
   status  |-> IF j.kind = "candidate" THEN "pending" ELSE "none"]

\* Update and rollback go on to set the context.
AfterInsert(r) ==
  IF job[r].kind \in Setters THEN Goto(r, "set") /\ UNCHANGED job ELSE End(r)

Insert_Overwrites(r) ==
  /\ pc[r] = "insert"
  /\ versions' = [n \in DOMAIN versions \cup {job[r].next} |->
                    IF n = job[r].next THEN NewVersion(job[r]) ELSE versions[n]]
  /\ AfterInsert(r)
  /\ UNCHANGED <<context, overlapped>>

\* INSERT INTO ai_context_versions, an error when the number is taken.
Insert(r) ==
  /\ pc[r] = "insert"
  /\ IF job[r].next \in DOMAIN versions
       THEN End(r) /\ UNCHANGED versions
       ELSE /\ versions' = [n \in DOMAIN versions \cup {job[r].next} |->
                              IF n = job[r].next THEN NewVersion(job[r]) ELSE versions[n]]
            /\ AfterInsert(r)
  /\ UNCHANGED <<context, overlapped>>

MarkAdopted_Forgotten(r) ==
  /\ pc[r] = "mark" /\ job[r].kind = "adopt"
  /\ Goto(r, "set")
  /\ UNCHANGED <<job, versions, context, overlapped>>

\* adopt: UPDATE ai_context_versions, whatever the status was.  The version was
\* there when it was read and versions are never deleted.
MarkAdopted(r) ==
  /\ pc[r] = "mark" /\ job[r].kind = "adopt"
  /\ versions' = [versions EXCEPT ![job[r].target].status = "adopted"]
  /\ Goto(r, "set")
  /\ UNCHANGED <<job, context, overlapped>>

\* reject: UPDATE ai_context_versions, or 404 when no row was updated.
MarkRejected(r) ==
  /\ pc[r] = "mark" /\ job[r].kind = "reject"
  /\ versions' = IF job[r].target \in DOMAIN versions
                   THEN [versions EXCEPT ![job[r].target].status = "rejected"]
                   ELSE versions
  /\ End(r)
  /\ UNCHANGED <<context, overlapped>>

\* UPDATE ai_contexts: update sets only the fields given and the number,
\* rollback and adopt set all of them.
Set(r) ==
  /\ pc[r] = "set"
  /\ context' =
       [content |-> IF job[r].kind = "update" THEN Merge(job[r].given, context.content)
                    ELSE job[r].seen,
        active  |-> IF job[r].kind = "adopt" THEN job[r].target ELSE job[r].next]
  /\ End(r)
  /\ UNCHANGED <<versions, overlapped>>

\* The request ends with an error before its next statement.
Abort(r) ==
  /\ InFlight(r)
  /\ End(r)
  /\ UNCHANGED <<context, versions, overlapped>>

Arrive(r) ==
  \/ SendList(r) \/ SendUpdate(r) \/ SendCandidate(r)
  \/ \E k \in {"rollback", "adopt", "reject"} : SendForVersion(r, k)

Step(r) ==
  \/ Exists(r) \/ Copy(r) \/ ReadContext(r) \/ ReadTarget(r) \/ Number(r)
  \/ Insert(r) \/ MarkAdopted(r) \/ MarkRejected(r) \/ Set(r) \/ Abort(r)

Next == \E r \in Req : Arrive(r) \/ Step(r)

Spec == Init /\ [][Next]_vars

-----------------------------------------------------------------------------
(***************************************************************************)
(* Properties.                                                             *)
(***************************************************************************)
TypeOK ==
  /\ pc \in [Req -> Place]
  /\ job \in [Req -> Job]
  /\ context \in Context \cup {None}
  /\ DOMAIN versions \subseteq Nat
  /\ versions \in [DOMAIN versions -> Version]
  /\ overlapped \in BOOLEAN

\* The template was copied to the user: both the context and its version 1.
Copied == 1 \in DOMAIN versions /\ versions[1].origin = "template"

\* ADR-0011, "version numbers always increase": no number is skipped or used
\* twice, whatever requests race for it or fail after they chose it.
NumbersIncrease == DOMAIN versions = 1..Latest

\* ADR-0011, "full audit trail": no request changes or removes the content of
\* a stored version, however many compute the same number.
VersionsKept ==
  [][\A n \in DOMAIN versions :
       /\ n \in DOMAIN versions'
       /\ versions'[n].content = versions[n].content
       /\ versions'[n].origin = versions[n].origin]_vars

\* The history of a context is append-only and without gaps: both together.
AuditTrail == []NumbersIncrease /\ VersionsKept

\* "The candidate is not yet adopted": once the context has its first version,
\* the active version exists and is never an AI candidate nobody decided on.
CandidateNotActive ==
  Copied => /\ context.active \in DOMAIN versions
            /\ versions[context.active].status # "pending"

\* The version shown as active is what the agent is prompted with, as long as
\* updates, rollbacks and adoptions do not overlap each other; whatever fails
\* half way, and whenever the batch, a rejection or another copy runs.
ActiveIsShown ==
  Copied /\ ~overlapped => versions[context.active].content = context.content

\* The agent is never prompted with something else than the active version,
\* nor with a candidate nobody decided on, outside the named overlap.
ActiveIsSound == CandidateNotActive /\ ActiveIsShown

\* ADR-0011, "ai_context_versions stores snapshots of ai_contexts on every
\* update": the active version is a snapshot of the context.
ActiveIsSnapshot ==
  Copied => versions[context.active].content = context.content
=============================================================================

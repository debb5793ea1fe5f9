------------------------ MODULE PromptVersions_proofs ------------------------
(***************************************************************************)
(* For any number of requests and any contents: the types of               *)
(* PromptVersions, that version numbers are never skipped or reused and    *)
(* stored versions never change, that an undecided candidate is never      *)
(* active, and that the active version is what the context holds as long   *)
(* as the requests that set it do not overlap.                             *)
(***************************************************************************)
EXTENDS PromptVersions, TLAPS

\* The numbers in use are 1, 2, ... up to some number.
Contiguous == \E k \in Nat : DOMAIN versions = 1..k

Stored(n) == n \in DOMAIN versions

Decided(n) == Stored(n) /\ versions[n].status # "pending"

\* What a request that is about to execute a statement has read and chosen.
JobOK(r) ==
  /\ pc[r] \in {"unused", "over"} => job[r] = NoJob
  /\ pc[r] \in {"exists", "copy"} => job[r].kind = "list"
  /\ pc[r] = "read" => job[r].kind \in {"update", "candidate", "rollback", "adopt"}
  /\ pc[r] = "number" => /\ job[r].kind \in {"update", "candidate", "rollback"}
                         /\ job[r].seen \in Content
  /\ pc[r] = "insert" => /\ job[r].kind \in {"list", "update", "candidate", "rollback"}
                         /\ job[r].seen \in Content
                         /\ job[r].next = 1 \/ Stored(job[r].next - 1)
                         /\ job[r].kind = "list" => job[r].next = 1
  /\ pc[r] = "mark" => job[r].kind \in {"reject", "adopt"}
  /\ pc[r] = "mark" /\ job[r].kind = "adopt" => Stored(job[r].target)
  /\ pc[r] = "set" => /\ job[r].kind \in Setters
                      /\ job[r].seen \in Content
                      /\ job[r].kind = "adopt" => Decided(job[r].target)
                      /\ job[r].kind # "adopt" => Decided(job[r].next)
  /\ pc[r] \in {"mark", "set"} /\ job[r].kind = "adopt" =>
       job[r].seen = versions[job[r].target].content
  /\ job[r].kind # "list" \/ pc[r] = "insert" => context # None

\* The row of ai_contexts: its first version is number 1, and once that is the
\* template's copy the active version is one that was decided on.
ContextOK ==
  /\ context = None => DOMAIN versions = {}
  /\ context # None /\ DOMAIN versions = {} => context.active = 1
  /\ CandidateNotActive

Local == TypeOK /\ Contiguous /\ (\A r \in Req : JobOK(r)) /\ ContextOK

-----------------------------------------------------------------------------
\* MAX(version_number) of 1..k is k.
LEMMA LatestIs ==
  ASSUME NEW k \in Nat, DOMAIN versions = 1..k
  PROVE  Latest = k
<1>1. CASE k = 0
  <2>1. DOMAIN versions = {}
    BY <1>1
  <2> QED
    BY <1>1, <2>1 DEF Latest
<1>2. CASE k # 0
  <2>1. k \in DOMAIN versions /\ \A m \in DOMAIN versions : m <= k
    BY <1>2
  <2>2. DOMAIN versions # {}
    BY <2>1
  <2>3. Latest = CHOOSE n \in DOMAIN versions : \A m \in DOMAIN versions : m <= n
    BY <2>2 DEF Latest
  <2>4. Latest \in DOMAIN versions /\ \A m \in DOMAIN versions : m <= Latest
    BY <2>1, <2>3
  <2>5. Latest \in 1..k /\ k <= Latest
    BY <2>1, <2>4
  <2> QED
    BY <2>5
<1> QED
  BY <1>1, <1>2

LEMMA NumberType ==
  ASSUME Contiguous
  PROVE  Latest \in Nat /\ DOMAIN versions = 1..Latest
BY LatestIs DEF Contiguous

\* Merging given fields into a content makes a content.
LEMMA MergeType ==
  ASSUME NEW g \in Given, NEW c \in Content
  PROVE  Merge(g, c) \in Content
<1>1. PICK S \in SUBSET Field : g \in [S -> Value]
  BY DEF Given
<1> QED
  BY <1>1 DEF Merge, Content

LEMMA NewJobType ==
  ASSUME NEW k \in Kind, NEW g \in Given, NEW n \in Nat
  PROVE  /\ NewJob(k, g, n) \in Job
         /\ NewJob(k, g, n).kind = k
BY DEF NewJob, Job

LEMMA NothingType == Nothing \in Given
<1>1. Nothing \in [{} -> Value]
  BY DEF Nothing
<1> QED
  BY <1>1 DEF Given

LEMMA NoJobType == NoJob \in Job /\ NoJob.kind = "list"
BY NewJobType, NothingType DEF NoJob, Kind

LEMMA NewVersionType ==
  ASSUME NEW j \in Job, j.seen \in Content
  PROVE  /\ NewVersion(j) \in Version
         /\ j.kind # "candidate" => NewVersion(j).status # "pending"
         /\ NewVersion(j).origin = "template" <=> j.kind = "list"
         /\ j.kind \notin {"update", "candidate"} => NewVersion(j).content = j.seen
         /\ j.kind \in {"update", "candidate"} =>
              NewVersion(j).content = Merge(j.given, j.seen)
<1>1. j.given \in Given /\ j.kind \in Kind
  BY DEF Job
<1>2. Merge(j.given, j.seen) \in Content
  BY <1>1, MergeType
<1>3. Source(j.kind) \in Origin /\ (Source(j.kind) = "template" <=> j.kind = "list")
  BY <1>1 DEF Source, Origin, Kind, Setters
<1> QED
  BY <1>2, <1>3 DEF NewVersion, Version

-----------------------------------------------------------------------------
LEMMA InitLocal == Init => Local
<1> SUFFICES ASSUME Init PROVE Local
  OBVIOUS
<1>1. pc \in [Req -> Place] /\ job \in [Req -> Job] /\ overlapped \in BOOLEAN
  BY NoJobType DEF Init, Place
<1>2. \A r \in Req : JobOK(r)
  BY NoJobType DEF Init, JobOK
<1>3. CASE context = None /\ versions = [n \in {} |-> None]
  <2>1. DOMAIN versions = {} /\ {} = 1..0
    BY <1>3
  <2>2. TypeOK
    BY <1>1, <1>3, <2>1 DEF TypeOK
  <2>3. Contiguous
    BY <2>1 DEF Contiguous
  <2>4. ContextOK
    BY <1>3, <2>1 DEF ContextOK, CandidateNotActive, Copied
  <2> QED
    BY <1>2, <2>2, <2>3, <2>4 DEF Local
<1>4. CASE \E c \in Content : /\ context = [content |-> c, active |-> 1]
                              /\ versions = [n \in {1} |-> FirstVersion(c)]
  <2>1. PICK c \in Content : /\ context = [content |-> c, active |-> 1]
                             /\ versions = [n \in {1} |-> FirstVersion(c)]
    BY <1>4
  <2>2. context \in Context /\ context # None
    BY <2>1, NoneAssumption DEF Context
  <2>3. FirstVersion(c) \in Version /\ FirstVersion(c).status = "none"
    BY DEF FirstVersion, Version, Origin
  <2>4. DOMAIN versions = {1} /\ versions[1] = FirstVersion(c) /\ {1} = 1..1
    BY <2>1
  <2>5. TypeOK
    BY <1>1, <2>1, <2>2, <2>3, <2>4 DEF TypeOK
  <2>6. Contiguous
    BY <2>4 DEF Contiguous
  <2>7. ContextOK
    BY <2>1, <2>2, <2>3, <2>4 DEF ContextOK, CandidateNotActive, Copied
  <2> QED
    BY <1>2, <2>5, <2>6, <2>7 DEF Local
<1> QED
  BY <1>3, <1>4 DEF Init

-----------------------------------------------------------------------------
\* What every step does to the stored versions.
Kept ==
  \A n \in DOMAIN versions :
    /\ n \in DOMAIN versions'
    /\ versions'[n].content = versions[n].content
    /\ versions'[n].origin = versions[n].origin
    /\ versions[n].status # "pending" => versions'[n].status # "pending"

\* Setting the status of a version to a decision.
LEMMA MarkKept ==
  ASSUME TypeOK, NEW n \in DOMAIN versions, NEW s \in {"adopted", "rejected"},
         versions' = [versions EXCEPT ![n].status = s]
  PROVE  /\ Kept
         /\ DOMAIN versions' = DOMAIN versions
         /\ versions' \in [DOMAIN versions -> Version]
         /\ versions'[n].status # "pending"
<1>1. versions[n] \in Version /\ versions \in [DOMAIN versions -> Version]
  BY DEF TypeOK
<1>2. [versions[n] EXCEPT !.status = s] \in Version
  BY <1>1 DEF Version
<1>3. /\ [versions[n] EXCEPT !.status = s].content = versions[n].content
      /\ [versions[n] EXCEPT !.status = s].origin = versions[n].origin
      /\ [versions[n] EXCEPT !.status = s].status = s
  BY <1>1 DEF Version
<1>4. versions' = [m \in DOMAIN versions |->
                     IF m = n THEN [versions[n] EXCEPT !.status = s] ELSE versions[m]]
  BY <1>1
<1>5. versions' \in [DOMAIN versions -> Version]
  BY <1>1, <1>2, <1>4
<1> QED
  BY <1>3, <1>4, <1>5 DEF Kept

\* Storing a version under a new number.
LEMMA InsertKept ==
  ASSUME TypeOK, NEW n \in Nat, n \notin DOMAIN versions, NEW v \in Version,
         versions' = [m \in DOMAIN versions \cup {n} |-> IF m = n THEN v ELSE versions[m]]
  PROVE  /\ Kept
         /\ DOMAIN versions' = DOMAIN versions \cup {n}
         /\ DOMAIN versions' \subseteq Nat
         /\ versions' \in [DOMAIN versions' -> Version]
         /\ versions'[n] = v
<1>1. versions \in [DOMAIN versions -> Version] /\ DOMAIN versions \subseteq Nat
  BY DEF TypeOK
<1>2. DOMAIN versions' = DOMAIN versions \cup {n}
  OBVIOUS
<1>3. \A m \in DOMAIN versions' : versions'[m] \in Version
  BY <1>1, <1>2
<1>4. versions' \in [DOMAIN versions' -> Version]
  BY <1>2, <1>3
<1> QED
  BY <1>1, <1>2, <1>4 DEF Kept

\* A request that does not move keeps its invariant, whatever the others do.
LEMMA OthersOK ==
  ASSUME NEW q \in Req, JobOK(q), Kept, context # None => context' # None,
         pc'[q] = pc[q], job'[q] = job[q]
  PROVE  JobOK(q)'
<1>1. \A n : Stored(n) => Stored(n)' /\ versions'[n].content = versions[n].content
  BY DEF Kept, Stored
<1>2. \A n : Decided(n) => Decided(n)'
  BY DEF Kept, Stored, Decided
<1>3. \A n : Decided(n) => Stored(n)
  BY DEF Decided
<1> HIDE DEF Stored, Decided
<1> QED
  BY <1>1, <1>2, <1>3 DEF JobOK

\* A request that ended keeps nothing.
LEMMA EndOK ==
  ASSUME TypeOK, NEW r \in Req, End(r)
  PROVE  /\ pc' \in [Req -> Place] /\ job' \in [Req -> Job]
         /\ JobOK(r)'
         /\ \A q \in Req \ {r} : pc'[q] = pc[q] /\ job'[q] = job[q]
<1>1. pc' \in [Req -> Place] /\ pc'[r] = "over"
  BY DEF End, Goto, TypeOK, Place
<1>2. job' \in [Req -> Job] /\ job'[r] = NoJob
  BY NoJobType DEF End, TypeOK
<1>3. JobOK(r)'
  BY <1>1, <1>2, NoJobType DEF JobOK
<1> QED
  BY <1>1, <1>2, <1>3 DEF End, Goto, TypeOK

\* Steps that leave the stored versions and the context alone.
LEMMA QuietOK ==
  ASSUME Local, UNCHANGED <<context, versions>>, NEW r \in Req,
         pc' \in [Req -> Place], job' \in [Req -> Job], overlapped' \in BOOLEAN,
         JobOK(r)', \A q \in Req \ {r} : pc'[q] = pc[q] /\ job'[q] = job[q]
  PROVE  Local'
<1>1. TypeOK' /\ Contiguous' /\ ContextOK'
  BY DEF Local, TypeOK, Contiguous, ContextOK, CandidateNotActive, Copied
<1>2. Kept
  BY DEF Kept
<1>3. \A q \in Req : JobOK(q)'
  <2> SUFFICES ASSUME NEW q \in Req, q # r PROVE JobOK(q)'
    OBVIOUS
  <2> QED
    BY <1>2, OthersOK DEF Local
<1> QED
  BY <1>1, <1>3 DEF Local

-----------------------------------------------------------------------------
LEMMA SendLocal ==
  ASSUME Local, NEW r \in Req, NEW k \in Kind, NEW g \in Given, NEW n \in Nat,
         Send(r, k, g, n)
  PROVE  Local'
<1> DEFINE j == NewJob(k, g, n)
<1>1. j \in Job /\ j.kind = k
  BY NewJobType
<1> HIDE DEF j
<1>2. FirstStatement(k) \in {"exists", "mark", "read"}
  BY DEF FirstStatement
<1>3. /\ FirstStatement(k) = "exists" <=> k = "list"
      /\ FirstStatement(k) = "mark" <=> k = "reject"
  BY DEF FirstStatement
<1>4. pc' \in [Req -> Place] /\ pc'[r] = FirstStatement(k)
  BY <1>2 DEF Send, Goto, Local, TypeOK, Place, Statements
<1>5. job' \in [Req -> Job] /\ job'[r] = j
  BY <1>1 DEF Send, Local, TypeOK, j
<1>6. overlapped' \in BOOLEAN
  BY DEF Send, Local, TypeOK
<1>7. JobOK(r)'
  BY <1>1, <1>2, <1>3, <1>4, <1>5 DEF JobOK, Send, Kind, Setters
<1>8. \A q \in Req \ {r} : pc'[q] = pc[q] /\ job'[q] = job[q]
  BY DEF Send, Goto, Local, TypeOK
<1> QED
  BY <1>4, <1>5, <1>6, <1>7, <1>8, QuietOK DEF Send

LEMMA ArriveLocal == ASSUME Local, NEW r \in Req, Arrive(r) PROVE Local'
<1>1. CASE SendList(r)
  BY <1>1, SendLocal, NothingType DEF SendList, Kind
<1>2. CASE SendUpdate(r)
  BY <1>2, SendLocal DEF SendUpdate, Kind, Setters
<1>3. CASE SendCandidate(r)
  <2>1. PICK g \in [{"prompt"} -> Value] : Send(r, "candidate", g, 0)
    BY <1>3 DEF SendCandidate
  <2>2. g \in Given
    BY DEF Given, Field
  <2> QED
    BY <2>1, <2>2, SendLocal DEF Kind
<1>4. ASSUME NEW k \in {"rollback", "adopt", "reject"}, SendForVersion(r, k)
      PROVE  Local'
  <2>1. PICK n \in DOMAIN versions \cup {Latest + 1} : Send(r, k, Nothing, n)
    BY <1>4 DEF SendForVersion
  <2>2. n \in Nat
    BY NumberType DEF Local, TypeOK
  <2> QED
    BY <2>1, <2>2, SendLocal, NothingType DEF Kind, Setters
<1> QED
  BY <1>1, <1>2, <1>3, <1>4 DEF Arrive

\* Steps that only end a request.
LEMMA EndLocal ==
  ASSUME Local, NEW r \in Req, End(r), UNCHANGED <<context, versions, overlapped>>
  PROVE  Local'
<1>1. TypeOK
  BY DEF Local
<1>2. /\ pc' \in [Req -> Place] /\ job' \in [Req -> Job] /\ JobOK(r)'
      /\ \A q \in Req \ {r} : pc'[q] = pc[q] /\ job'[q] = job[q]
  BY <1>1, EndOK
<1>3. overlapped' \in BOOLEAN
  BY <1>1 DEF TypeOK
<1> QED
  BY <1>2, <1>3, QuietOK

\* Steps that move a request to its next statement, changing one of its
\* locals at most, and leave the rows alone.
LEMMA ReadLocal ==
  ASSUME Local, NEW r \in Req, NEW p \in Place, NEW j \in Job,
         Goto(r, p), job' = [job EXCEPT ![r] = j], JobOK(r)',
         UNCHANGED <<context, versions, overlapped>>
  PROVE  Local'
<1>1. pc' \in [Req -> Place] /\ job' \in [Req -> Job] /\ overlapped' \in BOOLEAN
  BY DEF Local, TypeOK, Goto
<1>2. \A q \in Req \ {r} : pc'[q] = pc[q] /\ job'[q] = job[q]
  BY DEF Local, TypeOK, Goto
<1> QED
  BY <1>1, <1>2, QuietOK

LEMMA ExistsLocal == ASSUME Local, NEW r \in Req, Exists(r) PROVE Local'
<1>1. CASE context = None
  <2>1. Goto(r, "copy") /\ UNCHANGED <<job, context, versions, overlapped>> /\ pc[r] = "exists"
    BY <1>1 DEF Exists
  <2>2. job[r] \in Job /\ job' = [job EXCEPT ![r] = job[r]] /\ JobOK(r)
    BY <2>1 DEF Local, TypeOK
  <2>3. pc'[r] = "copy"
    BY <2>1 DEF Goto, Local, TypeOK
  <2>4. JobOK(r)'
    BY <2>1, <2>2, <2>3 DEF JobOK
  <2>5. "copy" \in Place
    BY DEF Place, Statements
  <2> QED
    BY <2>1, <2>2, <2>4, <2>5, ReadLocal
<1>2. CASE context # None
  BY <1>2, EndLocal DEF Exists
<1> QED
  BY <1>1, <1>2

LEMMA ReadContextLocal == ASSUME Local, NEW r \in Req, ReadContext(r) PROVE Local'
<1> DEFINE j == [job[r] EXCEPT !.seen = context.content]
<1>1. /\ pc[r] = "read" /\ job[r].kind \in {"update", "candidate"}
      /\ Goto(r, "number") /\ UNCHANGED <<context, versions, overlapped>>
      /\ job' = [job EXCEPT ![r] = j]
  BY DEF ReadContext
<1>2. job[r] \in Job /\ JobOK(r) /\ context \in Context \cup {None}
  BY DEF Local, TypeOK
<1>3. context # None
  BY <1>1, <1>2 DEF JobOK
<1>4. context.content \in Content
  BY <1>2, <1>3 DEF Context
<1>5. j \in Job /\ j.seen \in Content /\ j.kind = job[r].kind
  BY <1>2, <1>4 DEF Job
<1> HIDE DEF j
<1>6. pc'[r] = "number" /\ job'[r] = j
  BY <1>1 DEF Goto, Local, TypeOK
<1>7. JobOK(r)'
  BY <1>1, <1>3, <1>5, <1>6 DEF JobOK
<1>8. "number" \in Place
  BY DEF Place, Statements
<1> QED
  BY <1>1, <1>5, <1>7, <1>8, ReadLocal

LEMMA ReadTargetLocal == ASSUME Local, NEW r \in Req, ReadTarget(r) PROVE Local'
<1>1. CASE job[r].target \notin DOMAIN versions
  BY <1>1, EndLocal DEF ReadTarget
<1>2. CASE job[r].target \in DOMAIN versions
  <2> DEFINE j == [job[r] EXCEPT !.seen = versions[job[r].target].content]
  <2> DEFINE p == IF job[r].kind = "adopt" THEN "mark" ELSE "number"
  <2>1. /\ pc[r] = "read" /\ job[r].kind \in {"rollback", "adopt"}
        /\ Goto(r, p) /\ UNCHANGED <<context, versions, overlapped>>
        /\ job' = [job EXCEPT ![r] = j]
    BY <1>2 DEF ReadTarget
  <2>2. job[r] \in Job /\ JobOK(r) /\ versions[job[r].target] \in Version
    BY <1>2 DEF Local, TypeOK
  <2>3. versions[job[r].target].content \in Content
    BY <2>2 DEF Version
  <2>4. /\ j \in Job /\ j.seen \in Content /\ j.kind = job[r].kind
        /\ j.target = job[r].target /\ j.seen = versions[j.target].content
    BY <2>2, <2>3 DEF Job
  <2> HIDE DEF j
  <2>5. pc'[r] = p /\ job'[r] = j
    BY <2>1 DEF Goto, Local, TypeOK
  <2>6. context # None /\ UNCHANGED <<context, versions>>
    BY <2>1, <2>2 DEF JobOK
  <2>7. JobOK(r)'
    BY <1>2, <2>1, <2>4, <2>5, <2>6 DEF JobOK, Stored
  <2>8. p \in Place
    BY DEF Place, Statements
  <2> QED
    BY <2>1, <2>4, <2>7, <2>8, ReadLocal
<1> QED
  BY <1>1, <1>2

LEMMA NumberLocal == ASSUME Local, NEW r \in Req, Number(r) PROVE Local'
<1> DEFINE j == [job[r] EXCEPT !.next = Latest + 1]
<1>1. /\ pc[r] = "number" /\ job' = [job EXCEPT ![r] = j]
      /\ Goto(r, "insert") /\ UNCHANGED <<context, versions, overlapped>>
  BY DEF Number
<1>2. job[r] \in Job /\ JobOK(r)
  BY DEF Local, TypeOK
<1>3. Latest \in Nat /\ DOMAIN versions = 1..Latest
  BY NumberType DEF Local
<1>4. j \in Job /\ j.next = Latest + 1 /\ j.kind = job[r].kind /\ j.seen = job[r].seen
  BY <1>2, <1>3 DEF Job
<1> HIDE DEF j
<1>5. j.next = 1 \/ Stored(j.next - 1)
  BY <1>3, <1>4 DEF Stored
<1>6. pc'[r] = "insert" /\ job'[r] = j
  BY <1>1 DEF Goto, Local, TypeOK
<1>7. /\ job[r].kind \in {"update", "candidate", "rollback"} /\ job[r].seen \in Content
      /\ context # None
  BY <1>1, <1>2 DEF JobOK
<1>8. JobOK(r)'
  BY <1>1, <1>4, <1>5, <1>6, <1>7 DEF JobOK, Stored
<1>9. "insert" \in Place
  BY DEF Place, Statements
<1> QED
  BY <1>1, <1>4, <1>8, <1>9, ReadLocal

\* Steps that change the stored versions or the context: what is left to show
\* is about the request r that took the step and the two rows.
LEMMA WriteOK ==
  ASSUME Local, Kept, NEW r \in Req, context # None => context' # None,
         pc' \in [Req -> Place], job' \in [Req -> Job], overlapped' \in BOOLEAN,
         context' \in Context \cup {None}, DOMAIN versions' \subseteq Nat,
         versions' \in [DOMAIN versions' -> Version],
         JobOK(r)', \A q \in Req \ {r} : pc'[q] = pc[q] /\ job'[q] = job[q],
         Contiguous', ContextOK'
  PROVE  Local'
<1>1. TypeOK'
  BY DEF TypeOK
<1>2. \A q \in Req : JobOK(q)'
  <2> SUFFICES ASSUME NEW q \in Req, q # r PROVE JobOK(q)'
    OBVIOUS
  <2> QED
    BY OthersOK DEF Local
<1> QED
  BY <1>1, <1>2 DEF Local

LEMMA CopyLocal == ASSUME Local, NEW r \in Req, Copy(r) PROVE Local'
<1>1. CASE context # None
  BY <1>1, EndLocal DEF Copy
<1>2. CASE context = None
  <2>1. PICK c \in Content :
          /\ context' = [content |-> c, active |-> 1]
          /\ job' = [job EXCEPT ![r].seen = c, ![r].next = 1]
          /\ Goto(r, "insert")
    BY <1>2 DEF Copy
  <2> DEFINE j == [job[r] EXCEPT !.seen = c, !.next = 1]
  <2>2. pc[r] = "copy" /\ UNCHANGED <<versions, overlapped>> /\ JobOK(r) /\ job[r] \in Job
    BY DEF Copy, Local, TypeOK
  <2>3. j \in Job /\ j.kind = "list" /\ j.seen = c /\ j.next = 1
    BY <2>2 DEF Job, JobOK
  <2>4. job' = [job EXCEPT ![r] = j]
    BY <2>1, <2>2 DEF Local, TypeOK
  <2> HIDE DEF j
  <2>5. context' \in Context /\ context' # None /\ context'.active = 1
    BY <2>1, NoneAssumption DEF Context
  <2>6. pc'[r] = "insert" /\ job'[r] = j /\ pc' \in [Req -> Place] /\ job' \in [Req -> Job]
    <3>1. pc \in [Req -> Place] /\ job \in [Req -> Job]
      BY DEF Local, TypeOK
    <3>2. pc' = [pc EXCEPT ![r] = "insert"] /\ "insert" \in Place
      BY <2>1 DEF Goto, Place, Statements
    <3>3. j \in Job
      BY <2>3
    <3> QED
      BY <2>4, <3>1, <3>2, <3>3
  <2>7. JobOK(r)'
    BY <2>3, <2>5, <2>6 DEF JobOK
  <2>8. \A q \in Req \ {r} : pc'[q] = pc[q] /\ job'[q] = job[q]
    BY <2>1, <2>4 DEF Goto, Local, TypeOK
  <2>9. DOMAIN versions = {}
    BY <1>2 DEF Local, ContextOK
  <2>10. ContextOK'
    BY <2>2, <2>5, <2>9 DEF ContextOK, CandidateNotActive, Copied
  <2>11. Contiguous' /\ Kept
    BY <2>2 DEF Local, Contiguous, Kept
  <2>12. /\ overlapped' \in BOOLEAN /\ DOMAIN versions' \subseteq Nat
         /\ versions' \in [DOMAIN versions' -> Version]
    BY <2>2 DEF Local, TypeOK
  <2> QED
    BY <2>5, <2>6, <2>7, <2>8, <2>10, <2>11, <2>12, WriteOK
<1> QED
  BY <1>1, <1>2

LEMMA InsertLocal == ASSUME Local, NEW r \in Req, Insert(r) PROVE Local'
<1>1. CASE job[r].next \in DOMAIN versions
  BY <1>1, EndLocal DEF Insert
<1>2. CASE job[r].next \notin DOMAIN versions
  <2> DEFINE j == job[r]
             n == job[r].next
             v == NewVersion(job[r])
  <2>1. /\ pc[r] = "insert" /\ AfterInsert(r) /\ UNCHANGED <<context, overlapped>>
        /\ versions' = [m \in DOMAIN versions \cup {n} |-> IF m = n THEN v ELSE versions[m]]
    BY <1>2 DEF Insert
  <2>2. TypeOK /\ j \in Job /\ JobOK(r) /\ n \in Nat
    BY DEF Local, TypeOK, Job
  <2>3. /\ j.kind \in {"list", "update", "candidate", "rollback"} /\ j.seen \in Content
        /\ n = 1 \/ Stored(n - 1)
        /\ context # None
    BY <2>1, <2>2 DEF JobOK
  <2>4. /\ v \in Version /\ (j.kind # "candidate" => v.status # "pending")
        /\ v.origin = "template" <=> j.kind = "list"
    BY <2>2, <2>3, NewVersionType
  <2> HIDE DEF j, n, v
  <2>5. n \notin DOMAIN versions
    BY <1>2 DEF n
  <2>6. /\ Kept /\ DOMAIN versions' = DOMAIN versions \cup {n} /\ DOMAIN versions' \subseteq Nat
        /\ versions' \in [DOMAIN versions' -> Version] /\ versions'[n] = v
    BY <2>1, <2>2, <2>4, <2>5, InsertKept
  <2>7. PICK k \in Nat : DOMAIN versions = 1..k
    BY DEF Local, Contiguous
  <2>8. n = k + 1
    BY <2>2, <2>3, <2>5, <2>7 DEF Stored
  <2>9. Contiguous'
    <3>1. DOMAIN versions' = 1..(k + 1)
      BY <2>6, <2>7, <2>8
    <3> QED
      BY <3>1 DEF Contiguous
  <2>10. ContextOK'
    <3>1. context' # None /\ DOMAIN versions' # {} /\ context' = context
      BY <2>1, <2>3, <2>6
    <3>2. CandidateNotActive'
      <4> SUFFICES ASSUME Copied'
                   PROVE  /\ context.active \in DOMAIN versions'
                          /\ versions'[context.active].status # "pending"
        BY <3>1 DEF CandidateNotActive
      <4>1. CASE k = 0
        <5>1. n = 1 /\ DOMAIN versions = {} /\ context.active = 1
          BY <2>3, <2>7, <2>8, <4>1 DEF Local, ContextOK
        <5>2. v.origin = "template"
          BY <2>6, <5>1 DEF Copied
        <5> QED
          BY <2>4, <2>6, <5>1, <5>2
      <4>2. CASE k # 0
        <5>1. 1 \in DOMAIN versions
          BY <2>7, <4>2
        <5>2. Copied
          BY <2>6, <5>1 DEF Copied, Kept
        <5>3. context.active \in DOMAIN versions /\ versions[context.active].status # "pending"
          BY <5>2 DEF Local, ContextOK, CandidateNotActive
        <5> QED
          BY <2>6, <5>3 DEF Kept
      <4> QED
        BY <4>1, <4>2
    <3> QED
      BY <3>1, <3>2 DEF ContextOK
  <2>11. /\ pc' \in [Req -> Place] /\ job' \in [Req -> Job] /\ JobOK(r)'
         /\ \A q \in Req \ {r} : pc'[q] = pc[q] /\ job'[q] = job[q]
    <3>1. CASE j.kind \in Setters
      <4>1. Goto(r, "set") /\ UNCHANGED job
        BY <2>1, <3>1 DEF AfterInsert, j
      <4>2. pc' \in [Req -> Place] /\ pc'[r] = "set" /\ job'[r] = j
        BY <2>2, <4>1 DEF Goto, TypeOK, Place, Statements, j
      <4>3. /\ n \in DOMAIN versions' /\ versions'[n].status # "pending"
            /\ j.kind \in {"update", "rollback"}
        BY <2>3, <2>4, <2>6, <3>1 DEF Setters
      <4>4. n = job'[r].next /\ j = job'[r]
        BY <4>2 DEF n, j
      <4>5. JobOK(r)'
        BY <2>1, <2>3, <3>1, <4>2, <4>3, <4>4 DEF JobOK, Decided, Stored
      <4> QED
        BY <2>2, <4>1, <4>2, <4>5 DEF Goto, TypeOK
    <3>2. CASE j.kind \notin Setters
      BY <2>1, <2>2, <3>2, EndOK DEF AfterInsert, j
    <3> QED
      BY <3>1, <3>2
  <2>12. overlapped' \in BOOLEAN /\ context' \in Context \cup {None} /\ context' # None
    BY <2>1, <2>2, <2>3 DEF TypeOK
  <2> QED
    BY <2>6, <2>9, <2>10, <2>11, <2>12, WriteOK
<1> QED
  BY <1>1, <1>2

\* After a status was set to a decision the context is as it was.
LEMMA MarkContextOK ==
  ASSUME Local, Kept, DOMAIN versions' = DOMAIN versions, UNCHANGED context
  PROVE  ContextOK' /\ Contiguous'
<1>1. Copied' => Copied
  BY DEF Copied, Kept
<1>2. CandidateNotActive'
  BY <1>1 DEF Local, ContextOK, CandidateNotActive, Kept
<1> QED
  BY <1>2 DEF Local, ContextOK, Contiguous

LEMMA MarkAdoptedLocal == ASSUME Local, NEW r \in Req, MarkAdopted(r) PROVE Local'
<1> DEFINE n == job[r].target
<1>1. /\ pc[r] = "mark" /\ job[r].kind = "adopt" /\ Goto(r, "set")
      /\ versions' = [versions EXCEPT ![n].status = "adopted"]
      /\ UNCHANGED <<job, context, overlapped>>
  BY DEF MarkAdopted
<1>2. TypeOK /\ JobOK(r)
  BY DEF Local
<1>3. n \in DOMAIN versions /\ job[r].seen = versions[n].content
  BY <1>1, <1>2 DEF JobOK, Stored
<1>4. /\ Kept /\ DOMAIN versions' = DOMAIN versions
      /\ versions' \in [DOMAIN versions -> Version]
      /\ versions'[n].status # "pending"
  BY <1>1, <1>2, <1>3, MarkKept
<1>5. pc' \in [Req -> Place] /\ pc'[r] = "set"
  BY <1>1, <1>2 DEF Goto, TypeOK, Place, Statements
<1>6. Decided(n)' /\ versions'[n].content = job[r].seen
  BY <1>1, <1>3, <1>4 DEF Decided, Stored, Kept
<1>7. job[r].seen \in Content
  BY <1>2, <1>3 DEF TypeOK, Version
<1>8. JobOK(r)'
  BY <1>1, <1>2, <1>5, <1>6, <1>7 DEF JobOK, Setters
<1>9. \A q \in Req \ {r} : pc'[q] = pc[q] /\ job'[q] = job[q]
  BY <1>1, <1>2 DEF Goto, TypeOK
<1>10. ContextOK' /\ Contiguous'
  BY <1>1, <1>4, MarkContextOK
<1>11. /\ job' \in [Req -> Job] /\ overlapped' \in BOOLEAN /\ context' \in Context \cup {None}
       /\ context # None => context' # None
       /\ DOMAIN versions' \subseteq Nat
  BY <1>1, <1>2, <1>4 DEF TypeOK
<1> QED
  BY <1>4, <1>5, <1>8, <1>9, <1>10, <1>11, WriteOK

LEMMA MarkRejectedLocal == ASSUME Local, NEW r \in Req, MarkRejected(r) PROVE Local'
<1>1. CASE job[r].target \notin DOMAIN versions
  BY <1>1, EndLocal DEF MarkRejected
<1>2. CASE job[r].target \in DOMAIN versions
  <2>1. /\ versions' = [versions EXCEPT ![job[r].target].status = "rejected"]
        /\ End(r) /\ UNCHANGED <<context, overlapped>>
    BY <1>2 DEF MarkRejected
  <2>2. TypeOK
    BY DEF Local
  <2>3. /\ Kept /\ DOMAIN versions' = DOMAIN versions
        /\ versions' \in [DOMAIN versions -> Version]
    BY <1>2, <2>1, <2>2, MarkKept
  <2>4. /\ pc' \in [Req -> Place] /\ job' \in [Req -> Job] /\ JobOK(r)'
        /\ \A q \in Req \ {r} : pc'[q] = pc[q] /\ job'[q] = job[q]
    BY <2>1, <2>2, EndOK
  <2>5. ContextOK' /\ Contiguous'
    BY <2>1, <2>3, MarkContextOK
  <2>6. /\ overlapped' \in BOOLEAN /\ context' \in Context \cup {None}
        /\ context # None => context' # None
        /\ DOMAIN versions' \subseteq Nat
    BY <2>1, <2>2, <2>3 DEF TypeOK
  <2> QED
    BY <2>3, <2>4, <2>5, <2>6, WriteOK
<1> QED
  BY <1>1, <1>2

LEMMA SetLocal == ASSUME Local, NEW r \in Req, Set(r) PROVE Local'
<1> DEFINE c == IF job[r].kind = "update" THEN Merge(job[r].given, context.content)
                ELSE job[r].seen
           n == IF job[r].kind = "adopt" THEN job[r].target ELSE job[r].next
<1>1. /\ pc[r] = "set" /\ context' = [content |-> c, active |-> n]
      /\ End(r) /\ UNCHANGED <<versions, overlapped>>
  BY DEF Set
<1>2. TypeOK /\ JobOK(r) /\ job[r] \in Job
  BY DEF Local, TypeOK
<1>3. job[r].kind \in Setters /\ job[r].seen \in Content /\ Decided(n)
  BY <1>1, <1>2 DEF JobOK
<1>4. context \in Context
  BY <1>2, <1>3 DEF JobOK, TypeOK, Setters
<1>5. c \in Content
  <2>1. job[r].given \in Given /\ context.content \in Content
    BY <1>2, <1>4 DEF Job, Context
  <2> QED
    BY <1>3, <2>1, MergeType
<1>6. n \in Nat /\ n \in DOMAIN versions /\ versions[n].status # "pending"
  BY <1>2, <1>3 DEF Decided, Stored, TypeOK
<1> HIDE DEF c, n
<1>7. context' \in Context /\ context' # None /\ context'.active = n
  BY <1>1, <1>5, <1>6, NoneAssumption DEF Context
<1>8. ContextOK'
  BY <1>1, <1>6, <1>7 DEF ContextOK, CandidateNotActive
<1>9. Contiguous' /\ Kept
  BY <1>1 DEF Local, Contiguous, Kept
<1>10. /\ pc' \in [Req -> Place] /\ job' \in [Req -> Job] /\ JobOK(r)'
       /\ \A q \in Req \ {r} : pc'[q] = pc[q] /\ job'[q] = job[q]
  BY <1>1, <1>2, EndOK
<1>11. /\ overlapped' \in BOOLEAN /\ DOMAIN versions' \subseteq Nat
       /\ versions' \in [DOMAIN versions' -> Version]
  BY <1>1, <1>2 DEF TypeOK
<1> QED
  BY <1>7, <1>8, <1>9, <1>10, <1>11, WriteOK

\* Every step keeps the types, the numbering, what the requests have read and
\* that the active version was decided on.
LEMMA NextLocal == Local /\ [Next]_vars => Local'
<1> SUFFICES ASSUME Local, [Next]_vars PROVE Local'
  OBVIOUS
<1>1. CASE UNCHANGED vars
  BY <1>1 DEF vars, Local, TypeOK, Contiguous, JobOK, Stored, Decided, ContextOK,
              CandidateNotActive, Copied
<1>2. ASSUME NEW r \in Req, Arrive(r) PROVE Local'
  BY <1>2, ArriveLocal
<1>3. ASSUME NEW r \in Req, Step(r) PROVE Local'
  <2>1. CASE Abort(r)
    BY <2>1, EndLocal DEF Abort
  <2> QED
    BY <1>3, <2>1, ExistsLocal, CopyLocal, ReadContextLocal, ReadTargetLocal, NumberLocal,
       InsertLocal, MarkAdoptedLocal, MarkRejectedLocal, SetLocal DEF Step
<1> QED
  BY <1>1, <1>2, <1>3 DEF Next

-----------------------------------------------------------------------------
\* Every variable of the model keeps its type.
THEOREM TypeCorrect == Spec => []TypeOK
<1>1. Local => TypeOK
  BY DEF Local
<1> QED
  BY InitLocal, NextLocal, <1>1, PTL DEF Spec

\* However many requests compute the same number or fail after it, the numbers
\* in use are 1 to the latest one.
THEOREM NumbersNeverSkip == Spec => []NumbersIncrease
<1>1. Local => NumbersIncrease
  BY NumberType DEF Local, NumbersIncrease
<1> QED
  BY InitLocal, NextLocal, <1>1, PTL DEF Spec

\* No candidate of the batch is ever active before somebody decided on it.
THEOREM CandidatesWait == Spec => []CandidateNotActive
<1>1. Local => CandidateNotActive
  BY DEF Local, ContextOK
<1> QED
  BY InitLocal, NextLocal, <1>1, PTL DEF Spec

-----------------------------------------------------------------------------
LEMMA NextKept == Local /\ [Next]_vars => Kept
<1> SUFFICES ASSUME Local, [Next]_vars, versions' # versions PROVE Kept
  BY DEF Kept
<1>1. PICK r \in Req : Insert(r) \/ MarkAdopted(r) \/ MarkRejected(r)
  BY DEF Next, Arrive, Step, SendList, SendUpdate, SendCandidate, SendForVersion, Send,
         Exists, Copy, ReadContext, ReadTarget, Number, Set, Abort, vars
<1>2. TypeOK /\ job[r] \in Job /\ JobOK(r)
  BY DEF Local, TypeOK
<1>3. CASE Insert(r)
  <2>1. /\ pc[r] = "insert" /\ job[r].next \notin DOMAIN versions
        /\ versions' = [m \in DOMAIN versions \cup {job[r].next} |->
                          IF m = job[r].next THEN NewVersion(job[r]) ELSE versions[m]]
    BY <1>3 DEF Insert
  <2>2. job[r].next \in Nat /\ job[r].seen \in Content
    BY <1>2, <2>1 DEF Job, JobOK
  <2>3. NewVersion(job[r]) \in Version
    BY <1>2, <2>2, NewVersionType
  <2> QED
    BY <1>2, <2>1, <2>2, <2>3, InsertKept
<1>4. CASE MarkAdopted(r)
  <2>1. job[r].target \in DOMAIN versions
    BY <1>2, <1>4 DEF MarkAdopted, JobOK, Stored
  <2> QED
    BY <1>2, <1>4, <2>1, MarkKept DEF MarkAdopted
<1>5. CASE MarkRejected(r)
  BY <1>2, <1>5, MarkKept DEF MarkRejected
<1> QED
  BY <1>1, <1>3, <1>4, <1>5

\* No request changes or removes the content of a stored version.
THEOREM HistoryIsKept == Spec => VersionsKept
<1> DEFINE Same == \A n \in DOMAIN versions :
                     /\ n \in DOMAIN versions'
                     /\ versions'[n].content = versions[n].content
                     /\ versions'[n].origin = versions[n].origin
<1>1. Local /\ [Next]_vars => Same
  BY NextKept DEF Kept
<1> QED
  BY InitLocal, NextLocal, <1>1, PTL DEF Spec, VersionsKept

\* The history of a context is append-only and without gaps (ADR-0011).
THEOREM AuditTrailHolds == Spec => AuditTrail
  BY NumbersNeverSkip, HistoryIsKept DEF AuditTrail

-----------------------------------------------------------------------------
\* As long as they do not overlap, one request at most sets the context.
Alone ==
  ~overlapped =>
    \A q, r \in Req : job[q].kind \in Setters /\ job[r].kind \in Setters => q = r

\* What a request holds is still what the context holds, or was stored.
Fresh(r) ==
  /\ pc[r] = "insert" /\ job[r].kind = "list" /\ DOMAIN versions = {} =>
       job[r].seen = context.content
  /\ ~overlapped /\ pc[r] \in {"number", "insert"} /\ job[r].kind = "update" =>
       job[r].seen = context.content
  /\ ~overlapped /\ pc[r] = "set" /\ job[r].kind = "update" =>
       versions[job[r].next].content = Merge(job[r].given, context.content)
  /\ pc[r] = "set" /\ job[r].kind = "rollback" =>
       versions[job[r].next].content = job[r].seen

\* The inductive invariant behind ActiveIsShown.
SInv == Local /\ Alone /\ (\A r \in Req : Fresh(r)) /\ ActiveIsShown

LEMMA InitSInv == Init => SInv
<1> SUFFICES ASSUME Init PROVE SInv
  OBVIOUS
<1>1. Local
  BY InitLocal
<1>2. Alone /\ \A r \in Req : Fresh(r)
  BY NoJobType DEF Init, Alone, Fresh, Setters
<1>3. ActiveIsShown
  BY DEF Init, ActiveIsShown, Copied, FirstVersion
<1> QED
  BY <1>1, <1>2, <1>3 DEF SInv

\* A step of the others that leaves the context alone keeps what q holds.
LEMMA OthersFresh ==
  ASSUME NEW q \in Req, Fresh(q), JobOK(q), Kept, overlapped => overlapped',
         pc'[q] = pc[q], job'[q] = job[q],
         \/ context' = context
         \/ DOMAIN versions # {} /\ (~overlapped => job[q].kind # "update")
         \/ job[q].kind = "list" /\ pc[q] # "insert"
  PROVE  Fresh(q)'
<1>1. DOMAIN versions' = {} => DOMAIN versions = {}
  BY DEF Kept
<1>2. pc[q] = "set" /\ job[q].kind \in {"update", "rollback"} =>
        versions'[job[q].next].content = versions[job[q].next].content
  BY DEF JobOK, Decided, Stored, Kept
<1> QED
  BY <1>1, <1>2 DEF Fresh

\* A request that leaves, or one that has not read anything, is fresh.
LEMMA IdleFresh ==
  ASSUME NEW r \in Req, pc'[r] \in {"over", "exists", "read", "mark", "copy"}
  PROVE  Fresh(r)'
BY DEF Fresh

\* Steps that leave the context alone and store nothing new.
LEMMA CalmSInv ==
  ASSUME SInv, Local', NEW r \in Req, Kept, UNCHANGED context,
         DOMAIN versions' = DOMAIN versions, overlapped => overlapped',
         Fresh(r)', Alone', \A q \in Req \ {r} : pc'[q] = pc[q] /\ job'[q] = job[q]
  PROVE  SInv'
<1>1. \A q \in Req : Fresh(q)'
  <2> SUFFICES ASSUME NEW q \in Req, q # r PROVE Fresh(q)'
    OBVIOUS
  <2> QED
    BY OthersFresh DEF SInv, Local
<1>2. ActiveIsShown'
  <2>1. Copied' => Copied
    BY DEF Copied, Kept
  <2>2. Copied => context.active \in DOMAIN versions
    BY DEF SInv, Local, ContextOK, CandidateNotActive
  <2> QED
    BY <2>1, <2>2 DEF ActiveIsShown, SInv, Kept
<1> QED
  BY <1>1, <1>2 DEF SInv

\* A step after which r is as much of a setter as before keeps Alone.
LEMMA StillAlone ==
  ASSUME Alone, UNCHANGED overlapped, NEW r \in Req,
         job'[r].kind \in Setters => job[r].kind \in Setters,
         \A q \in Req \ {r} : job'[q] = job[q]
  PROVE  Alone'
BY DEF Alone

\* A request that only ends.
LEMMA EndSInv ==
  ASSUME SInv, Local', NEW r \in Req, End(r), Kept, DOMAIN versions' = DOMAIN versions,
         UNCHANGED <<context, overlapped>>
  PROVE  SInv'
<1>1. TypeOK /\ Alone
  BY DEF SInv, Local
<1>2. \A q \in Req \ {r} : pc'[q] = pc[q] /\ job'[q] = job[q]
  BY <1>1, EndOK
<1>3. pc'[r] = "over" /\ job'[r].kind = "list"
  BY <1>1, NoJobType DEF End, Goto, TypeOK
<1>4. Fresh(r)'
  BY <1>3, IdleFresh
<1>5. Alone'
  BY <1>1, <1>2, <1>3, StillAlone DEF Setters
<1> QED
  BY <1>2, <1>4, <1>5, CalmSInv

LEMMA SendSInv ==
  ASSUME SInv, Local', NEW r \in Req, NEW k, NEW g, NEW n, Send(r, k, g, n)
  PROVE  SInv'
<1>1. TypeOK /\ Alone /\ Kept
  BY DEF SInv, Local, Send, Kept
<1>2. \A q \in Req \ {r} : pc'[q] = pc[q] /\ job'[q] = job[q]
  BY <1>1 DEF Send, Goto, TypeOK
<1>3. pc'[r] \in {"exists", "mark", "read"}
  BY <1>1 DEF Send, Goto, TypeOK, FirstStatement
<1>4. job'[r].kind = k
  BY <1>1 DEF Send, TypeOK, NewJob
<1>5. Alone'
  <2> SUFFICES ASSUME ~overlapped', NEW q \in Req, NEW p \in Req, q # p,
                      job'[q].kind \in Setters, job'[p].kind \in Setters
               PROVE  FALSE
    BY DEF Alone
  <2>1. CASE q = r \/ p = r
    BY <1>2, <1>4, <2>1 DEF Send
  <2>2. CASE q # r /\ p # r
    BY <1>1, <1>2, <2>2 DEF Send, Alone
  <2> QED
    BY <2>1, <2>2
<1> QED
  BY <1>1, <1>2, <1>3, <1>5, IdleFresh, CalmSInv DEF Send

LEMMA ReadSInv ==
  ASSUME SInv, Local', NEW r \in Req,
         Exists(r) \/ ReadContext(r) \/ ReadTarget(r) \/ Number(r)
  PROVE  SInv'
<1>1. /\ TypeOK /\ Alone /\ Kept /\ job[r] \in Job /\ Fresh(r)
      /\ UNCHANGED <<context, versions, overlapped>>
  BY DEF SInv, Local, TypeOK, Kept, Exists, ReadContext, ReadTarget, Number
<1>2. CASE End(r)
  BY <1>1, <1>2, EndSInv
<1>3. CASE Exists(r) /\ ~End(r)
  <2>1. pc'[r] = "copy" /\ UNCHANGED job /\ \A q \in Req \ {r} : pc'[q] = pc[q]
    BY <1>1, <1>3 DEF Exists, Goto, TypeOK
  <2>2. Alone'
    BY <1>1, <2>1, StillAlone
  <2> QED
    BY <1>1, <2>1, <2>2, IdleFresh, CalmSInv
<1>4. CASE ReadContext(r)
  <2> DEFINE j == [job[r] EXCEPT !.seen = context.content]
  <2>1. j.kind = job[r].kind /\ j.seen = context.content
    BY <1>1 DEF Job
  <2>2. pc'[r] = "number" /\ job'[r] = j
    BY <1>1, <1>4 DEF ReadContext, Goto, TypeOK
  <2> HIDE DEF j
  <2>3. \A q \in Req \ {r} : pc'[q] = pc[q] /\ job'[q] = job[q]
    BY <1>1, <1>4 DEF ReadContext, Goto, TypeOK
  <2>4. Fresh(r)'
    BY <1>1, <2>1, <2>2 DEF Fresh
  <2>5. Alone'
    BY <1>1, <2>1, <2>2, <2>3, StillAlone
  <2> QED
    BY <1>1, <2>3, <2>4, <2>5, CalmSInv
<1>5. CASE ReadTarget(r) /\ ~End(r)
  <2> DEFINE j == [job[r] EXCEPT !.seen = versions[job[r].target].content]
  <2>1. j.kind = job[r].kind
    BY <1>1 DEF Job
  <2>2. /\ pc'[r] \in {"mark", "number"} /\ job'[r] = j
        /\ job[r].kind \in {"rollback", "adopt"}
    BY <1>1, <1>5 DEF ReadTarget, Goto, TypeOK
  <2>3. \A q \in Req \ {r} : pc'[q] = pc[q] /\ job'[q] = job[q]
    BY <1>1, <1>5 DEF ReadTarget, Goto, TypeOK
  <2> HIDE DEF j
  <2>4. Fresh(r)'
    BY <2>1, <2>2 DEF Fresh
  <2>5. Alone'
    BY <1>1, <2>1, <2>2, <2>3, StillAlone
  <2> QED
    BY <1>1, <2>3, <2>4, <2>5, CalmSInv
<1>6. CASE Number(r)
  <2> DEFINE j == [job[r] EXCEPT !.next = Latest + 1]
  <2>1. j.kind = job[r].kind /\ j.seen = job[r].seen
    BY <1>1 DEF Job
  <2>2. pc'[r] = "insert" /\ job'[r] = j /\ pc[r] = "number"
    BY <1>1, <1>6 DEF Number, Goto, TypeOK
  <2>3. \A q \in Req \ {r} : pc'[q] = pc[q] /\ job'[q] = job[q]
    BY <1>1, <1>6 DEF Number, Goto, TypeOK
  <2>4. job[r].kind # "list"
    BY <2>2 DEF SInv, Local, JobOK
  <2> HIDE DEF j
  <2>5. Fresh(r)'
    BY <1>1, <2>1, <2>2, <2>4 DEF Fresh
  <2>6. Alone'
    BY <1>1, <2>1, <2>2, <2>3, StillAlone
  <2> QED
    BY <1>1, <2>3, <2>5, <2>6, CalmSInv
<1> QED
  BY <1>2, <1>3, <1>4, <1>5, <1>6

LEMMA CopySInv == ASSUME SInv, Local', NEW r \in Req, Copy(r) PROVE SInv'
<1>1. TypeOK /\ Alone /\ Kept /\ JobOK(r) /\ job[r] \in Job
  BY DEF SInv, Local, TypeOK, Kept, Copy
<1>2. CASE context # None
  BY <1>1, <1>2, EndSInv DEF Copy
<1>3. CASE context = None
  <2>1. PICK c \in Content :
          /\ context' = [content |-> c, active |-> 1]
          /\ job' = [job EXCEPT ![r].seen = c, ![r].next = 1]
          /\ Goto(r, "insert")
    BY <1>3 DEF Copy
  <2>2. /\ job'[r].seen = c /\ job'[r].kind = job[r].kind /\ job[r].kind = "list"
        /\ pc'[r] = "insert" /\ context'.content = c
    BY <1>1, <2>1 DEF Copy, TypeOK, Job, Goto, JobOK
  <2>3. \A q \in Req \ {r} : pc'[q] = pc[q] /\ job'[q] = job[q]
    BY <1>1, <2>1 DEF Goto, TypeOK
  <2>4. UNCHANGED <<versions, overlapped>> /\ DOMAIN versions = {}
    BY <1>3 DEF Copy, SInv, Local, ContextOK
  <2>5. Fresh(r)'
    BY <2>2 DEF Fresh
  <2>6. Alone'
    BY <1>1, <2>2, <2>3, <2>4, StillAlone
  <2>7. \A q \in Req : Fresh(q)'
    <3> SUFFICES ASSUME NEW q \in Req, q # r PROVE Fresh(q)'
      BY <2>5
    <3>1. job[q].kind = "list" /\ pc[q] # "insert"
      BY <1>3 DEF SInv, Local, JobOK
    <3> QED
      BY <1>1, <2>3, <2>4, <3>1, OthersFresh DEF SInv, Local
  <2>8. ActiveIsShown'
    BY <2>4 DEF ActiveIsShown, Copied
  <2> QED
    BY <2>6, <2>7, <2>8 DEF SInv
<1> QED
  BY <1>2, <1>3

LEMMA InsertSInv == ASSUME SInv, Local', NEW r \in Req, Insert(r) PROVE SInv'
<1>1. TypeOK /\ Alone /\ JobOK(r) /\ job[r] \in Job /\ Fresh(r)
  BY DEF SInv, Local, TypeOK
<1>2. CASE job[r].next \in DOMAIN versions
  <2>1. Kept /\ End(r) /\ UNCHANGED <<context, versions, overlapped>>
    BY <1>2 DEF Insert, Kept
  <2> QED
    BY <2>1, EndSInv
<1>3. CASE job[r].next \notin DOMAIN versions
  <2> DEFINE j == job[r]
             n == job[r].next
             v == NewVersion(job[r])
  <2>1. /\ pc[r] = "insert" /\ AfterInsert(r) /\ UNCHANGED <<context, overlapped>>
        /\ versions' = [m \in DOMAIN versions \cup {n} |-> IF m = n THEN v ELSE versions[m]]
    BY <1>3 DEF Insert
  <2>2. /\ j.kind \in {"list", "update", "candidate", "rollback"} /\ j.seen \in Content
        /\ n \in Nat /\ context # None
        /\ n = 1 \/ Stored(n - 1)
    BY <1>1, <2>1 DEF JobOK, Job
  <2>3. /\ v \in Version
        /\ v.origin = "template" <=> j.kind = "list"
        /\ j.kind \notin {"update", "candidate"} => v.content = j.seen
        /\ j.kind \in {"update", "candidate"} => v.content = Merge(j.given, j.seen)
    BY <1>1, <2>2, NewVersionType
  <2>4. /\ ~overlapped /\ j.kind = "update" => j.seen = context.content
        /\ DOMAIN versions = {} /\ j.kind = "list" => j.seen = context.content
    BY <1>1, <2>1 DEF Fresh
  <2> HIDE DEF v
  <2>5. /\ Kept /\ DOMAIN versions' = DOMAIN versions \cup {n}
        /\ versions'[n] = v
    BY <1>1, <1>3, <2>1, <2>2, <2>3, InsertKept
  <2>6. \/ pc'[r] = "set" /\ job' = job /\ j.kind \in Setters
        \/ pc'[r] = "over" /\ job'[r].kind = "list"
    BY <1>1, <2>1, NoJobType DEF AfterInsert, End, Goto, TypeOK
  <2>7. \A q \in Req \ {r} : pc'[q] = pc[q] /\ job'[q] = job[q]
    BY <1>1, <2>1 DEF AfterInsert, End, Goto, TypeOK
  <2>8. Alone'
    BY <1>1, <2>1, <2>6, <2>7, StillAlone DEF Setters
  <2>9. Fresh(r)'
    <3>1. CASE pc'[r] = "over"
      BY <3>1, IdleFresh
    <3>2. CASE pc'[r] = "set" /\ job' = job
      <4>1. job'[r] = j /\ versions'[job'[r].next] = v
        BY <2>5, <3>2
      <4>2. ~overlapped' /\ j.kind = "update" => v.content = Merge(j.given, context'.content)
        BY <2>1, <2>3, <2>4
      <4>3. j.kind = "rollback" => v.content = j.seen
        BY <2>3
      <4> HIDE DEF j, n
      <4> QED
        BY <3>2, <4>1, <4>2, <4>3 DEF Fresh
    <3> QED
      BY <2>6, <3>1, <3>2
  <2>10. \A q \in Req : Fresh(q)'
    <3> SUFFICES ASSUME NEW q \in Req, q # r PROVE Fresh(q)'
      BY <2>9
    <3> QED
      BY <2>1, <2>5, <2>7, OthersFresh DEF SInv, Local
  <2>11. ActiveIsShown'
    <3> SUFFICES ASSUME Copied', ~overlapped
                 PROVE  versions'[context.active].content = context.content
      BY <2>1 DEF ActiveIsShown
    <3>1. PICK k \in Nat : DOMAIN versions = 1..k
      BY DEF SInv, Local, Contiguous
    <3>2. CASE k = 0
      <4>1. DOMAIN versions = {}
        BY <3>1, <3>2
      <4>2. n = 1
        BY <2>2, <4>1 DEF Stored
      <4>3. context.active = 1
        BY <2>2, <4>1 DEF SInv, Local, ContextOK
      <4>4. v.origin = "template"
        BY <2>5, <4>2 DEF Copied
      <4> QED
        BY <2>3, <2>4, <2>5, <4>1, <4>2, <4>3, <4>4
    <3>3. CASE k # 0
      <4>1. 1 \in DOMAIN versions
        BY <3>1, <3>3
      <4>2. Copied
        BY <2>5, <4>1 DEF Copied, Kept
      <4>3. /\ context.active \in DOMAIN versions
            /\ versions[context.active].content = context.content
        BY <4>2 DEF SInv, Local, ContextOK, CandidateNotActive, ActiveIsShown
      <4> QED
        BY <2>5, <4>3 DEF Kept
    <3> QED
      BY <3>2, <3>3
  <2> QED
    BY <2>8, <2>10, <2>11 DEF SInv
<1> QED
  BY <1>2, <1>3

LEMMA MarkSInv ==
  ASSUME SInv, Local', NEW r \in Req, MarkAdopted(r) \/ MarkRejected(r)
  PROVE  SInv'
<1>1. TypeOK /\ Alone /\ JobOK(r)
  BY DEF SInv, Local
<1>2. CASE MarkAdopted(r)
  <2>1. job[r].target \in DOMAIN versions
    BY <1>1, <1>2 DEF MarkAdopted, JobOK, Stored
  <2>2. Kept /\ DOMAIN versions' = DOMAIN versions
    BY <1>1, <1>2, <2>1, MarkKept DEF MarkAdopted
  <2>3. /\ pc'[r] = "set" /\ job' = job /\ job[r].kind = "adopt"
        /\ UNCHANGED <<context, overlapped>>
        /\ \A q \in Req \ {r} : pc'[q] = pc[q]
    BY <1>1, <1>2 DEF MarkAdopted, Goto, TypeOK
  <2>4. Fresh(r)'
    BY <2>3 DEF Fresh
  <2>5. Alone'
    BY <1>1, <2>3, StillAlone
  <2> QED
    BY <2>2, <2>3, <2>4, <2>5, CalmSInv
<1>3. CASE MarkRejected(r)
  <2>1. Kept /\ DOMAIN versions' = DOMAIN versions
    <3>1. CASE job[r].target \in DOMAIN versions
      BY <1>1, <1>3, <3>1, MarkKept DEF MarkRejected
    <3>2. CASE job[r].target \notin DOMAIN versions
      BY <1>3, <3>2 DEF MarkRejected, Kept
    <3> QED
      BY <3>1, <3>2
  <2> QED
    BY <1>3, <2>1, EndSInv DEF MarkRejected
<1> QED
  BY <1>2, <1>3

LEMMA SetSInv == ASSUME SInv, Local', NEW r \in Req, Set(r) PROVE SInv'
<1> DEFINE c == IF job[r].kind = "update" THEN Merge(job[r].given, context.content)
                ELSE job[r].seen
           n == IF job[r].kind = "adopt" THEN job[r].target ELSE job[r].next
<1>1. /\ pc[r] = "set" /\ context' = [content |-> c, active |-> n]
      /\ End(r) /\ UNCHANGED <<versions, overlapped>>
  BY DEF Set
<1>2. TypeOK /\ Alone /\ JobOK(r) /\ Fresh(r) /\ Kept
  BY <1>1 DEF SInv, Local, Kept
<1>3. job[r].kind \in Setters /\ DOMAIN versions # {}
  BY <1>1, <1>2 DEF JobOK, Decided, Stored
<1>4. ~overlapped => versions[n].content = c
  BY <1>1, <1>2, <1>3 DEF JobOK, Fresh, Setters
<1>5. \A q \in Req \ {r} : pc'[q] = pc[q] /\ job'[q] = job[q]
  BY <1>1, <1>2, EndOK
<1>6. pc'[r] = "over" /\ job'[r].kind = "list"
  BY <1>1, <1>2, NoJobType DEF End, Goto, TypeOK
<1>7. Alone'
  BY <1>1, <1>2, <1>3, <1>5, StillAlone
<1>8. \A q \in Req : Fresh(q)'
  <2> SUFFICES ASSUME NEW q \in Req, q # r PROVE Fresh(q)'
    BY <1>6, IdleFresh
  <2>1. ~overlapped => job[q].kind # "update"
    BY <1>2, <1>3 DEF Alone, Setters
  <2> QED
    BY <1>1, <1>2, <1>3, <1>5, <2>1, OthersFresh DEF SInv, Local
<1>9. ActiveIsShown'
  <2> HIDE DEF c, n
  <2> QED
    BY <1>1, <1>4 DEF ActiveIsShown
<1> QED
  BY <1>7, <1>8, <1>9 DEF SInv

LEMMA NextSInv == SInv /\ [Next]_vars => SInv'
<1> SUFFICES ASSUME SInv, [Next]_vars PROVE SInv'
  OBVIOUS
<1>1. Local'
  BY NextLocal DEF SInv
<1>2. CASE UNCHANGED vars
  BY <1>1, <1>2 DEF vars, SInv, Alone, Fresh, ActiveIsShown, Copied
<1>3. ASSUME NEW r \in Req, Arrive(r) PROVE SInv'
  BY <1>1, <1>3, SendSInv DEF Arrive, SendList, SendUpdate, SendCandidate, SendForVersion
<1>4. ASSUME NEW r \in Req, Step(r) PROVE SInv'
  <2>1. CASE Abort(r)
    <3>1. Kept
      BY <2>1 DEF Abort, Kept
    <3> QED
      BY <1>1, <2>1, <3>1, EndSInv DEF Abort
  <2> QED
    BY <1>1, <1>4, <2>1, ReadSInv, CopySInv, InsertSInv, MarkSInv, SetSInv DEF Step
<1> QED
  BY <1>2, <1>3, <1>4 DEF Next

\* While updates, rollbacks and adoptions do not overlap each other, the active
\* version is what the context holds, whatever fails half way and whatever the
\* batch, rejections and first accesses do in between.
THEOREM ActiveVersionIsShown == Spec => []ActiveIsShown
<1>1. SInv => ActiveIsShown
  BY DEF SInv
<1> QED
  BY InitSInv, NextSInv, <1>1, PTL DEF Spec

\* Both at once: what is active has been decided on and is what is shown.
THEOREM ActiveVersionIsSound == Spec => []ActiveIsSound
<1>1. CandidateNotActive /\ ActiveIsShown => ActiveIsSound
  BY DEF ActiveIsSound
<1> QED
  BY CandidatesWait, ActiveVersionIsShown, <1>1, PTL
=============================================================================

--------------------------- MODULE NoteIndex_proofs ---------------------------
(***************************************************************************)
(* For any number of contents, texts, edits and indexers: the type         *)
(* invariant of NoteIndex, that a search finds no deleted content, that it *)
(* finds a content once while indexers do not overlap, and that an indexed *)
(* note is indexed with what its readers see.                              *)
(***************************************************************************)
EXTENDS NoteIndex, TLAPS

LEMMA InitType == Init => TypeOK
<1> SUFFICES ASSUME Init PROVE TypeOK
  OBVIOUS
<1>1. job \in [Edit -> Job]
  <2>1. NoJob \in Job
    BY DEF NoJob, Job, Row
  <2> QED
    BY <2>1 DEF Init
<1> QED
  BY <1>1 DEF Init, TypeOK, Status, Calls, InFlight

\* A request is sent for a content.
LEMMA SendType ==
  ASSUME TypeOK, NEW e \in Edit, NEW k \in {"create", "update", "delete"},
         NEW c \in Content, NEW t \in Text \cup {None}, NEW p \in Calls,
         Send(e, k, c, t, p)
  PROVE  TypeOK'
<1> USE DEF TypeOK, Send, contentVars, indexVars
<1> DEFINE new == [NoJob EXCEPT !.kind = k, !.content = c, !.text = t]
<1>1. new \in Job /\ new.content = c
  BY DEF NoJob, Job, Row
<1>2. job' = [job EXCEPT ![e] = new] /\ pc' = [pc EXCEPT ![e] = p]
  BY DEF Goto
<1>3. job' \in [Edit -> Job] /\ pc' \in [Edit -> Calls \cup {"unused", "over"}]
  BY <1>1, <1>2
<1>4. \A d \in Edit : InFlight(d)' => job'[d].content \in Content
  <2> HIDE DEF new
  <2> QED
    BY <1>1, <1>2 DEF InFlight
<1> QED
  BY <1>3, <1>4

\* A job that has gone on is a job with the same content.
LEMMA JobChanges ==
  ASSUME NEW j \in Job
  PROVE  /\ \E k \in Job : k = [j EXCEPT !.moved = TRUE] /\ k.content = j.content
         /\ \A s \in Row : \E k \in Job : k = [j EXCEPT !.seen = s] /\ k.content = j.content
<1>1. [j EXCEPT !.moved = TRUE] \in Job /\ [j EXCEPT !.moved = TRUE].content = j.content
  BY DEF Job
<1>2. ASSUME NEW s \in Row
      PROVE  [j EXCEPT !.seen = s] \in Job /\ [j EXCEPT !.seen = s].content = j.content
  <2> HIDE DEF Row
  <2> QED
    BY DEF Job
<1> QED
  BY <1>1, <1>2

\* What an edit does to its own place and locals.
LEMMA EditType ==
  ASSUME TypeOK, NEW e \in Edit,
         \/ End(e)
         \/ \E p \in Calls :
              /\ InFlight(e) /\ Goto(e, p)
              /\ \/ UNCHANGED job
                 \/ job' = [job EXCEPT ![e].moved = TRUE]
                 \/ \E s \in Row : job' = [job EXCEPT ![e].seen = s]
  PROVE  /\ pc' \in [Edit -> Calls \cup {"unused", "over"}]
         /\ job' \in [Edit -> Job]
         /\ \A d \in Edit : InFlight(d)' => job'[d].content \in Content
<1>1. NoJob \in Job
  BY DEF NoJob, Job, Row
<1>2. pc \in [Edit -> Calls \cup {"unused", "over"}] /\ job \in [Edit -> Job]
  BY DEF TypeOK
<1>3. \A d \in Edit : InFlight(d) => job[d].content \in Content
  BY DEF TypeOK
<1>4. CASE End(e)
  <2>1. pc' = [pc EXCEPT ![e] = "over"] /\ job' = [job EXCEPT ![e] = NoJob]
    BY <1>4 DEF End, Goto
  <2> QED
    BY <1>1, <1>2, <1>3, <2>1 DEF InFlight, Calls
<1>5. ASSUME NEW p \in Calls, InFlight(e), Goto(e, p),
             \/ UNCHANGED job
             \/ job' = [job EXCEPT ![e].moved = TRUE]
             \/ \E s \in Row : job' = [job EXCEPT ![e].seen = s]
      PROVE  /\ pc' \in [Edit -> Calls \cup {"unused", "over"}]
             /\ job' \in [Edit -> Job]
             /\ \A d \in Edit : InFlight(d)' => job'[d].content \in Content
  <2>1. pc' = [pc EXCEPT ![e] = p]
    BY <1>5 DEF Goto
  <2>2. job' \in [Edit -> Job] /\ \A d \in Edit : job'[d].content = job[d].content
    <3>1. CASE UNCHANGED job
      BY <1>2, <3>1
    <3>2. CASE job' = [job EXCEPT ![e].moved = TRUE]
      <4>1. job[e] \in Job
        BY <1>2
      <4>2. PICK j \in Job : j = [job[e] EXCEPT !.moved = TRUE] /\ j.content = job[e].content
        BY <4>1, JobChanges
      <4> QED
        BY <1>2, <3>2, <4>2
    <3>3. ASSUME NEW s \in Row, job' = [job EXCEPT ![e].seen = s]
          PROVE  job' \in [Edit -> Job] /\ \A d \in Edit : job'[d].content = job[d].content
      <4>1. job[e] \in Job
        BY <1>2
      <4>2. PICK j \in Job : j = [job[e] EXCEPT !.seen = s] /\ j.content = job[e].content
        BY <4>1, JobChanges
      <4> QED
        BY <1>2, <3>3, <4>2
    <3> QED
      BY <1>5, <3>1, <3>2, <3>3
  <2> QED
    BY <1>2, <1>3, <1>5, <2>1, <2>2 DEF InFlight
<1> QED
  BY <1>4, <1>5

\* UpdateContent changes one row, which still exists.
LEMMA WriteRow ==
  ASSUME TypeOK, NEW e \in Edit, Write(e), row[job[e].content] # None
  PROVE  /\ row' \in [Content -> Row \cup {None}]
         /\ \A c \in Content : (row'[c] = None) <=> (row[c] = None)
<1> DEFINE c == job[e].content
           t == IF job[e].moved THEN None
                ELSE IF job[e].text = None THEN job[e].seen.inline ELSE job[e].text
<1>1. c \in Content /\ row[c] \in Row
  BY DEF TypeOK, Write, InFlight, Calls
<1>2. t \in Text \cup {None}
  BY DEF TypeOK, Job, Row
<1>3. row' = [row EXCEPT ![c].inline = t]
  BY DEF Write
<1> HIDE DEF c, t
<1>4. [row[c] EXCEPT !.inline = t] \in Row
  BY <1>1, <1>2 DEF Row
<1>5. row' = [row EXCEPT ![c] = [row[c] EXCEPT !.inline = t]]
  BY <1>3
<1> QED
  BY <1>1, <1>4, <1>5, NoneAssumption DEF TypeOK

LEMMA NextType == TypeOK /\ [Next]_vars => TypeOK'
<1> SUFFICES ASSUME TypeOK, [Next]_vars PROVE TypeOK'
  OBVIOUS
<1> USE NoneAssumption, LargeAssumption
<1> DEFINE EditOK == /\ pc' \in [Edit -> Calls \cup {"unused", "over"}]
                     /\ job' \in [Edit -> Job]
                     /\ \A d \in Edit : InFlight(d)' => job'[d].content \in Content
           JobOK(e) == /\ job[e] \in Job
                       /\ pc[e] \in Calls => job[e].content \in Content
<1>0. \A e \in Edit : JobOK(e)
  BY DEF TypeOK, InFlight
<1>1. ASSUME NEW e \in Edit, SendCreate(e) PROVE TypeOK'
  BY <1>1, SendType DEF SendCreate, Calls
<1>2. ASSUME NEW e \in Edit, SendUpdate(e) PROVE TypeOK'
  BY <1>2, SendType DEF SendUpdate, Calls
<1>3. ASSUME NEW e \in Edit, SendDelete(e) PROVE TypeOK'
  BY <1>3, SendType DEF SendDelete, Calls
<1>4. ASSUME NEW e \in Edit, Get(e) PROVE TypeOK'
  <2> DEFINE c == job[e].content
  <2>1. pc[e] = "get" /\ c \in Content /\ row[c] \in Row \cup {None} /\ InFlight(e)
    BY <1>0, <1>4 DEF Get, Calls, TypeOK, InFlight
  <2>2. CASE row[c] = None
    <3>1. EditOK
      BY <1>4, <2>2, EditType DEF Get
    <3> QED
      BY <1>4, <3>1 DEF Get, TypeOK, contentVars, indexVars
  <2>3. CASE row[c] # None
    <3>1. row[c] \in Row
      BY <2>1, <2>3
    <3>2. AfterGet(job[e], row[c]) \in Calls
      BY DEF AfterGet, Calls
    <3>3. Goto(e, AfterGet(job[e], row[c])) /\ job' = [job EXCEPT ![e].seen = row[c]]
      BY <1>4, <2>3 DEF Get
    <3>4. EditOK
      BY <2>1, <3>1, <3>2, <3>3, EditType
    <3> QED
      BY <1>4, <3>4 DEF Get, TypeOK, contentVars, indexVars
  <2> QED
    BY <2>2, <2>3
<1>5. ASSUME NEW e \in Edit, Upload(e) PROVE TypeOK'
  <2>1. EditOK
    <3>1. InFlight(e) /\ "insert" \in Calls /\ "write" \in Calls
      BY <1>5 DEF Upload, InFlight, Calls
    <3> QED
      BY <1>5, <3>1, EditType DEF Upload
  <2>2. object' \in [Content -> Text \cup {None}]
    BY <1>0, <1>5 DEF Upload, TypeOK, Job
  <2> QED
    BY <1>5, <2>1, <2>2 DEF Upload, TypeOK, indexVars
<1>6. ASSUME NEW e \in Edit, Insert(e) PROVE TypeOK'
  <2>1. EditOK
    <3>1. InFlight(e) /\ "mark" \in Calls
      BY <1>6 DEF Insert, InFlight, Calls
    <3> QED
      BY <1>6, <3>1, EditType DEF Insert
  <2>2. row' \in [Content -> Row \cup {None}]
    <3> DEFINE new == IF job[e].moved THEN [inline |-> None, stored |-> TRUE]
                      ELSE [inline |-> job[e].text, stored |-> FALSE]
    <3>1. new \in Row
      BY <1>0 DEF Job, Row
    <3>2. row' = [row EXCEPT ![job[e].content] = new]
      BY <1>6 DEF Insert
    <3> QED
      BY <3>1, <3>2 DEF TypeOK
  <2> QED
    BY <1>6, <2>1, <2>2 DEF Insert, TypeOK, indexVars
<1>7. ASSUME NEW e \in Edit, Write(e) PROVE TypeOK'
  <2> DEFINE c == job[e].content
  <2>1. pc[e] = "write" /\ c \in Content /\ InFlight(e) /\ "mark" \in Calls
    BY <1>0, <1>7 DEF Write, InFlight, Calls
  <2>2. EditOK
    BY <1>7, <2>1, EditType DEF Write
  <2>3. row' \in [Content -> Row \cup {None}]
    <3>1. CASE row[c] = None
      BY <1>7, <3>1 DEF Write, TypeOK
    <3>2. CASE row[c] # None
      BY <1>0, <1>7, <2>1, <3>2, WriteRow
    <3> QED
      BY <3>1, <3>2
  <2> QED
    BY <1>7, <2>2, <2>3 DEF Write, TypeOK, indexVars
<1>8. ASSUME NEW e \in Edit, Unlink(e) PROVE TypeOK'
  <2>1. EditOK
    <3>1. InFlight(e) /\ "remove" \in Calls
      BY <1>8 DEF Unlink, InFlight, Calls
    <3> QED
      BY <1>8, <3>1, EditType DEF Unlink
  <2>2. object' \in [Content -> Text \cup {None}]
    BY <1>8 DEF Unlink, TypeOK
  <2> QED
    BY <1>8, <2>1, <2>2 DEF Unlink, TypeOK, indexVars
<1>9. ASSUME NEW e \in Edit, Remove(e) PROVE TypeOK'
  <2>1. EditOK
    <3>1. InFlight(e) /\ "mark" \in Calls
      BY <1>9 DEF Remove, InFlight, Calls
    <3> QED
      BY <1>9, <3>1, EditType DEF Remove
  <2>2. row' \in [Content -> Row \cup {None}] /\ chunks' \subseteq Chunk
    BY <1>9 DEF Remove, TypeOK
  <2> QED
    BY <1>9, <2>1, <2>2 DEF Remove, TypeOK, indexVars
<1>10. ASSUME NEW e \in Edit, Mark(e) \/ Abort(e) PROVE TypeOK'
  <2>1. EditOK
    BY <1>10, EditType DEF Mark, Abort
  <2>2. missed' \in BOOLEAN
    <3>1. missed' = (missed \/ Applied(e)) \/ missed' = (missed \/ \E i \in Indexer : Fetched(i))
      BY <1>10 DEF Mark, Abort
    <3>2. Applied(e) \in BOOLEAN
      BY DEF Applied
    <3> QED
      BY <3>1, <3>2 DEF TypeOK
  <2>3. status' \in Status
    BY <1>10 DEF Mark, Abort, TypeOK, Status
  <2> QED
    BY <1>10, <2>1, <2>2, <2>3 DEF Mark, Abort, TypeOK, contentVars, indexVars
<1> DEFINE IndexOK == /\ stage' \in [Indexer -> {"idle", "claim", "fetch", "collect", "insert"}]
                      /\ todo' \in [Indexer -> SUBSET Content]
                      /\ got' \in [Indexer -> SUBSET (Content \X Text)]
<1>11. UNCHANGED editVars => EditOK
  BY DEF editVars, TypeOK, InFlight
<1>12. ASSUME NEW i \in Indexer, Select(i) PROVE TypeOK'
  <2>1. IndexOK
    BY <1>12 DEF Select, Stage, TypeOK
  <2>2. overlapped' \in BOOLEAN
    BY <1>12 DEF Select, TypeOK
  <2> QED
    BY <1>11, <1>12, <2>1, <2>2 DEF Select, TypeOK, contentVars, editVars
<1>13. ASSUME NEW i \in Indexer, Claim(i) PROVE TypeOK'
  <2>1. IndexOK /\ status' \in Status
    BY <1>13 DEF Claim, Stage, TypeOK, Status
  <2> QED
    BY <1>11, <1>13, <2>1 DEF Claim, TypeOK, contentVars, editVars
<1>14. ASSUME NEW i \in Indexer, Fetch(i) PROVE TypeOK'
  <2> DEFINE rows == {c \in Content : row[c] # None}
             inlined == {<<c, row[c].inline>> : c \in {c \in rows : row[c].inline # None}}
             rest == {c \in rows : row[c].inline = None /\ row[c].stored}
  <2>1. inlined \in SUBSET (Content \X Text)
    <3> SUFFICES ASSUME NEW c \in rows, row[c].inline # None
                 PROVE  <<c, row[c].inline>> \in Content \X Text
      OBVIOUS
    <3>1. row[c] \in Row
      BY DEF TypeOK
    <3> QED
      BY <3>1 DEF Row
  <2>2. got' = [got EXCEPT ![i] = inlined] /\ todo' = [todo EXCEPT ![i] = rest]
    BY <1>14 DEF Fetch
  <2>3. rest \in SUBSET Content
    OBVIOUS
  <2>4. stage' = [stage EXCEPT ![i] = "collect"]
    BY <1>14 DEF Fetch, Stage
  <2> HIDE DEF inlined, rest
  <2>5. IndexOK
    BY <2>1, <2>2, <2>3, <2>4 DEF TypeOK
  <2> QED
    BY <1>11, <1>14, <2>5 DEF Fetch, TypeOK, contentVars, editVars
<1>15. ASSUME NEW i \in Indexer, NEW c \in Content, Download(i, c) PROVE TypeOK'
  <2>1. todo' \in [Indexer -> SUBSET Content]
    BY <1>15 DEF Download, TypeOK
  <2>2. got' \in [Indexer -> SUBSET (Content \X Text)] /\ missed' \in BOOLEAN
    <3>1. CASE UNCHANGED got /\ missed' = (missed \/ object[c] # None)
      BY <3>1 DEF TypeOK
    <3>2. CASE /\ object[c] # None /\ UNCHANGED missed
               /\ got' = [got EXCEPT ![i] = @ \cup {<<c, object[c]>>}]
      <4>1. <<c, object[c]>> \in Content \X Text
        BY <3>2 DEF TypeOK
      <4> QED
        BY <3>2, <4>1 DEF TypeOK
    <3> QED
      BY <1>15, <3>1, <3>2 DEF Download
  <2> QED
    BY <1>11, <1>15, <2>1, <2>2 DEF Download, TypeOK, contentVars, editVars
<1>16. ASSUME NEW i \in Indexer, Clear(i) PROVE TypeOK'
  <2>1. IndexOK /\ chunks' \subseteq Chunk
    BY <1>16 DEF Clear, Stage, TypeOK
  <2> QED
    BY <1>11, <1>16, <2>1 DEF Clear, TypeOK, contentVars, editVars
<1>17. ASSUME NEW i \in Indexer, NEW x \in got[i], InsertChunk(i, x) PROVE TypeOK'
  <2>1. x \in Content \X Text
    BY DEF TypeOK
  <2>2. chunks' \subseteq Chunk
    BY <1>17, <2>1 DEF InsertChunk, TypeOK, Chunk
  <2>3. IndexOK
    BY <1>17 DEF InsertChunk, TypeOK
  <2> QED
    BY <1>11, <1>17, <2>2, <2>3 DEF InsertChunk, TypeOK, contentVars, editVars
<1>18. ASSUME NEW i \in Indexer, Finish(i) \/ Fail(i) \/ Crash(i) PROVE TypeOK'
  <2>1. IndexOK /\ status' \in Status
    BY <1>18 DEF Finish, Fail, Crash, Stop, Stage, TypeOK, Status
  <2>2. crashed' \in BOOLEAN
    BY <1>18 DEF Finish, Fail, Crash, TypeOK
  <2> QED
    BY <1>11, <1>18, <2>1, <2>2 DEF Finish, Fail, Crash, TypeOK, contentVars, editVars
<1>19. CASE UNCHANGED vars
  BY <1>19 DEF vars, contentVars, editVars, indexVars, TypeOK, InFlight
<1> QED
  BY <1>1, <1>2, <1>3, <1>4, <1>5, <1>6, <1>7, <1>8, <1>9, <1>10, <1>12, <1>13,
     <1>14, <1>15, <1>16, <1>17, <1>18, <1>19
  DEF Next, Call, Reindex

\* Every variable of the model keeps its type.
THEOREM TypeCorrect == Spec => []TypeOK
BY InitType, NextType, PTL DEF Spec

-----------------------------------------------------------------------------
\* Everything but the deletion of a content keeps the contents that exist.
LEMMA RowsStay ==
  ASSUME TypeOK, NEW e \in Edit,
         \/ SendCreate(e) \/ SendUpdate(e) \/ SendDelete(e) \/ Get(e) \/ Upload(e)
         \/ Insert(e) \/ Write(e) \/ Unlink(e) \/ Mark(e) \/ Abort(e)
  PROVE  UNCHANGED chunks /\ \A c \in Content : row'[c] = None => row[c] = None
<1>1. CASE Insert(e)
  <2> DEFINE new == IF job[e].moved THEN [inline |-> None, stored |-> TRUE]
                    ELSE [inline |-> job[e].text, stored |-> FALSE]
  <2>1. new # None
    <3>1. job[e].text \in Text \cup {None}
      BY DEF TypeOK, Job
    <3>2. new \in Row
      BY <3>1 DEF Row
    <3> QED
      BY <3>2, NoneAssumption
  <2>2. UNCHANGED chunks /\ row' = [row EXCEPT ![job[e].content] = new]
    BY <1>1 DEF Insert
  <2> QED
    BY <2>1, <2>2 DEF TypeOK
<1>2. CASE Write(e)
  BY <1>2, WriteRow DEF Write
<1>3. CASE ~(Insert(e) \/ Write(e))
  BY <1>3
  DEF SendCreate, SendUpdate, SendDelete, Send, Get, Upload, Unlink, Mark, Abort, contentVars
<1> QED
  BY <1>1, <1>2, <1>3

LEMMA NextFound == TypeOK /\ FoundExists /\ [Next]_vars => FoundExists'
<1> SUFFICES ASSUME TypeOK, FoundExists, [Next]_vars PROVE FoundExists'
  OBVIOUS
<1>0. \A k \in chunks : k.content \in Content /\ row[k.content] # None
  BY DEF TypeOK, Chunk, FoundExists
<1>1. ASSUME NEW e \in Edit,
             \/ SendCreate(e) \/ SendUpdate(e) \/ SendDelete(e) \/ Get(e) \/ Upload(e)
             \/ Insert(e) \/ Write(e) \/ Unlink(e) \/ Mark(e) \/ Abort(e)
      PROVE  FoundExists'
  BY <1>0, <1>1, RowsStay DEF FoundExists
<1>2. ASSUME NEW e \in Edit, Remove(e) PROVE FoundExists'
  BY <1>0, <1>2 DEF Remove, FoundExists, TypeOK
<1>3. ASSUME NEW i \in Indexer,
             \/ Select(i) \/ Claim(i) \/ Fetch(i) \/ Clear(i) \/ Finish(i) \/ Fail(i)
             \/ Crash(i) \/ \E c \in Content : Download(i, c)
      PROVE  FoundExists'
  BY <1>0, <1>3
  DEF FoundExists, Select, Claim, Fetch, Clear, Finish, Fail, Crash, Download, contentVars
<1>4. ASSUME NEW i \in Indexer, NEW x \in got[i], InsertChunk(i, x) PROVE FoundExists'
  BY <1>0, <1>4 DEF FoundExists, InsertChunk, contentVars
<1>5. CASE UNCHANGED vars
  BY <1>5 DEF FoundExists, vars, contentVars
<1> QED
  BY <1>1, <1>2, <1>3, <1>4, <1>5 DEF Next, Call, Reindex

\* No interleaving of edits and indexers, and no error or crash of theirs,
\* makes a search find a content that was deleted.
THEOREM DeletedIsNotFound == Spec => []FoundExists
<1>1. Init => FoundExists
  BY DEF Init, FoundExists
<1> QED
  BY <1>1, TypeCorrect, NextFound, PTL DEF Spec

-----------------------------------------------------------------------------
(***************************************************************************)
(* The inductive invariant.                                                *)
(***************************************************************************)
Busy(i) == stage[i] # "idle"

\* No two indexers are at work.
OneAtATime == \A i, j \in Indexer : Busy(i) /\ Busy(j) => i = j

\* What an indexer holds: one text of each content, and nothing before it has
\* read the contents.
Holding(i) ==
  /\ \A x, y \in got[i] : x[1] = y[1] => x = y
  /\ \A x \in got[i] : x[1] \notin todo[i]
  /\ stage[i] # "collect" => todo[i] = {}
  /\ ~Fetched(i) => got[i] = {}

\* The chunks have one text of each content, and none of what is to be
\* inserted yet.
ChunksApart ==
  /\ \A k, l \in chunks : k.content = l.content => k = l
  /\ \A i \in Indexer : stage[i] = "insert" =>
       \A x \in got[i], k \in chunks : k.content # x[1]

\* The two-stage bookkeeping of an indexer agrees with what readers see.
Faithful(i) ==
  /\ \A x \in got[i] : Shown(x[1]) = x[2]
  /\ \A c \in todo[i] : row[c] # None /\ row[c].inline = None /\ row[c].stored
  /\ stage[i] = "insert" => \A k \in chunks : Shown(k.content) = k.text
  /\ \A c \in Content : Shown(c) # None =>
       \/ c \in todo[i] \/ <<c, Shown(c)>> \in got[i]
       \/ stage[i] = "insert" /\ \E k \in chunks : k.content = c /\ k.text = Shown(c)

\* The chunks are those of the texts that readers see.
Current ==
  /\ \A k \in chunks : Shown(k.content) = k.text
  /\ \A c \in Content : Shown(c) # None =>
       \E k \in chunks : k.content = c /\ k.text = Shown(c)

Still == \A e \in Edit : ~Applied(e)

OnceInv ==
  ~overlapped => OneAtATime /\ ChunksApart /\ \A i \in Indexer : Holding(i)

CurrentInv ==
  ~overlapped /\ ~missed =>
    /\ (\E i \in Indexer : Busy(i)) => status \in {"pending", "processing"}
    /\ Still => /\ \A i \in Indexer : Fetched(i) => Faithful(i)
                /\ status = "indexed" => Current

-----------------------------------------------------------------------------
LEMMA InitOnce == Init => OnceInv
BY DEF Init, OnceInv, OneAtATime, ChunksApart, Holding, Busy, Fetched

\* Edits only take chunks away.
LEMMA EditsOnce ==
  ASSUME OnceInv, UNCHANGED <<indexVars, overlapped>>, chunks' \subseteq chunks
  PROVE  OnceInv'
BY DEF OnceInv, OneAtATime, ChunksApart, Holding, Busy, Fetched, indexVars

\* A step of indexer i, while the others are idle.
LEMMA IndexerOnce ==
  ASSUME TypeOK, OnceInv, ~overlapped, NEW i \in Indexer,
         \A j \in Indexer \ {i} : /\ ~Busy(j) /\ stage'[j] = stage[j]
                                  /\ todo'[j] = todo[j] /\ got'[j] = got[j],
         Holding(i)',
         \A k, l \in chunks' : k.content = l.content => k = l,
         stage'[i] = "insert" => \A x \in got'[i], k \in chunks' : k.content # x[1]
  PROVE  OnceInv'
<1>1. OneAtATime'
  BY DEF OneAtATime, Busy
<1>2. ChunksApart'
  BY DEF ChunksApart, Busy
<1>3. \A j \in Indexer : Holding(j)'
  BY DEF OnceInv, Holding, Fetched
<1> QED
  BY <1>1, <1>2, <1>3 DEF OnceInv

LEMMA NextOnce == TypeOK /\ OnceInv /\ [Next]_vars => OnceInv'
<1> SUFFICES ASSUME TypeOK, OnceInv, [Next]_vars PROVE OnceInv'
  OBVIOUS
<1>1. ASSUME NEW e \in Edit,
             \/ SendCreate(e) \/ SendUpdate(e) \/ SendDelete(e) \/ Call(e) \/ Abort(e)
      PROVE  OnceInv'
  <2>1. UNCHANGED <<indexVars, overlapped>> /\ chunks' \subseteq chunks
    BY <1>1
    DEF SendCreate, SendUpdate, SendDelete, Send, Call, Get, Upload, Insert, Write,
        Unlink, Remove, Mark, Abort
  <2> QED
    BY <2>1, EditsOnce
<1>2. CASE UNCHANGED vars
  BY <1>2, EditsOnce DEF vars
<1>3. ASSUME NEW i \in Indexer, Reindex(i) \/ Crash(i) PROVE OnceInv'
  <2>1. CASE overlapped
    <3>1. overlapped'
      BY <1>3, <2>1
      DEF Reindex, Select, Claim, Fetch, Download, Clear, InsertChunk, Finish, Fail, Crash
    <3> QED
      BY <3>1 DEF OnceInv
  <2>2. CASE overlapped'
    BY <2>2 DEF OnceInv
  <2>3. CASE ~overlapped /\ ~overlapped'
    <3> USE <2>3
    <3>0. OneAtATime /\ ChunksApart /\ Holding(i)
      BY DEF OnceInv
    <3>1. \A j \in Indexer \ {i} : ~Busy(j)
      <4>1. CASE Select(i)
        BY <4>1 DEF Select, Busy
      <4>2. CASE ~Select(i)
        <5>1. Busy(i)
          <6>1. CASE \E c \in Content : Download(i, c)
            BY <3>0, <6>1 DEF Download, Holding, Busy
          <6>2. CASE ~ \E c \in Content : Download(i, c)
            BY <1>3, <4>2, <6>2
            DEF Reindex, Claim, Fetch, Clear, InsertChunk, Finish, Fail, Crash, Busy
          <6> QED
            BY <6>1, <6>2
        <5> QED
          BY <3>0, <5>1 DEF OneAtATime
      <4> QED
        BY <4>1, <4>2
    <3>2. \A j \in Indexer \ {i} : /\ stage'[j] = stage[j] /\ todo'[j] = todo[j]
                                    /\ got'[j] = got[j]
      BY <1>3
      DEF Reindex, Select, Claim, Fetch, Download, Clear, InsertChunk, Finish, Fail, Crash,
          Stop, Stage, TypeOK
    <3>3. CASE Select(i) \/ Claim(i)
      <4>1. stage'[i] \in {"claim", "fetch"} /\ todo'[i] = {} /\ got'[i] = {}
            /\ UNCHANGED chunks
        BY <3>0, <3>3 DEF Select, Claim, Stage, TypeOK, Holding, Fetched
      <4> QED
        BY <3>0, <3>1, <3>2, <4>1, IndexerOnce DEF Holding, Fetched, ChunksApart
    <3>4. CASE Fetch(i)
      <4> DEFINE rows == {c \in Content : row[c] # None}
      <4>1. /\ stage'[i] = "collect" /\ UNCHANGED chunks
            /\ got'[i] = {<<c, row[c].inline>> : c \in {c \in rows : row[c].inline # None}}
            /\ todo'[i] = {c \in rows : row[c].inline = None /\ row[c].stored}
        BY <3>4 DEF Fetch, Stage, TypeOK
      <4>2. Holding(i)'
        <5>1. \A x, y \in got'[i] : x[1] = y[1] => x = y
          BY <4>1
        <5>2. \A x \in got'[i] : x[1] \notin todo'[i]
          BY <4>1
        <5> QED
          BY <4>1, <5>1, <5>2 DEF Holding, Fetched
      <4> QED
        BY <3>0, <3>1, <3>2, <4>1, <4>2, IndexerOnce DEF ChunksApart
    <3>5. ASSUME NEW c \in Content, Download(i, c) PROVE OnceInv'
      <4>1. /\ c \in todo[i] /\ todo'[i] = todo[i] \ {c} /\ UNCHANGED <<stage, chunks>>
            /\ got'[i] = got[i] \/ got'[i] = got[i] \cup {<<c, object[c]>>}
        BY <3>5 DEF Download, TypeOK
      <4>2. stage[i] = "collect"
        BY <3>0, <4>1 DEF Holding
      <4>3. Holding(i)'
        BY <3>0, <4>1, <4>2 DEF Holding, Fetched
      <4> QED
        BY <3>0, <3>1, <3>2, <4>1, <4>2, <4>3, IndexerOnce DEF ChunksApart
    <3>6. CASE Clear(i)
      <4>1. /\ stage[i] = "collect" /\ stage'[i] = "insert" /\ todo'[i] = {}
            /\ chunks' = {} /\ got' = got
        BY <3>6 DEF Clear, Stage, TypeOK
      <4>2. Holding(i)'
        BY <3>0, <4>1 DEF Holding, Fetched
      <4> QED
        BY <3>1, <3>2, <4>1, <4>2, IndexerOnce
    <3>7. ASSUME NEW x \in got[i], InsertChunk(i, x) PROVE OnceInv'
      <4> DEFINE new == [by |-> i, content |-> x[1], text |-> x[2]]
      <4>1. /\ stage[i] = "insert" /\ UNCHANGED <<stage, todo>>
            /\ got'[i] = got[i] \ {x} /\ chunks' = chunks \cup {new}
        BY <3>7 DEF InsertChunk, TypeOK
      <4>2. Holding(i)'
        BY <3>0, <4>1 DEF Holding, Fetched
      <4>3. \A k, l \in chunks' : k.content = l.content => k = l
        <5>1. \A k \in chunks : k.content # new.content
          BY <3>0, <4>1 DEF ChunksApart
        <5> HIDE DEF new
        <5> QED
          BY <3>0, <4>1, <5>1 DEF ChunksApart
      <4>4. \A y \in got'[i], k \in chunks' : k.content # y[1]
        <5>1. \A y \in got'[i] : y \in got[i] /\ y[1] # new.content
          BY <3>0, <4>1 DEF Holding
        <5> HIDE DEF new
        <5> QED
          BY <3>0, <4>1, <5>1 DEF ChunksApart
      <4> QED
        BY <3>1, <3>2, <4>2, <4>3, <4>4, IndexerOnce
    <3>8. CASE Finish(i) \/ Fail(i) \/ Crash(i)
      <4>1. /\ stage'[i] = "idle" /\ todo'[i] = {} /\ got'[i] = {} /\ UNCHANGED chunks
        BY <3>8 DEF Finish, Fail, Crash, Stop, Stage, TypeOK
      <4>2. Holding(i)'
        BY <4>1 DEF Holding
      <4> QED
        BY <3>0, <3>1, <3>2, <4>1, <4>2, IndexerOnce DEF ChunksApart
    <3> QED
      BY <1>3, <3>3, <3>4, <3>5, <3>6, <3>7, <3>8 DEF Reindex
  <2> QED
    BY <2>1, <2>2, <2>3
<1> QED
  BY <1>1, <1>2, <1>3 DEF Next

\* While no two indexers work on the note, a search finds each content at most
\* once, whatever edits, errors and crashes come in between.
THEOREM NothingFoundTwice == Spec => []FoundOnce
<1>1. OnceInv => FoundOnce
  BY DEF OnceInv, ChunksApart, FoundOnce
<1> QED
  BY <1>1, InitOnce, TypeCorrect, NextOnce, PTL DEF Spec

\* Both at once: what a search finds exists and is found once.
THEOREM SearchIsSound == Spec => []FoundIsThereOnce
<1>1. FoundExists /\ FoundOnce => FoundIsThereOnce
  BY DEF FoundIsThereOnce
<1> QED
  BY DeletedIsNotFound, NothingFoundTwice, <1>1, PTL

-----------------------------------------------------------------------------
LEMMA InitCurrent == Init => CurrentInv
BY DEF Init, CurrentInv, Busy, Fetched, Applied, NoJob

\* What readers see depends on the row and, when it says so, on the object.
LEMMA ShownKept ==
  ASSUME NEW c, row'[c] = row[c], row[c] = None \/ object'[c] = object[c]
  PROVE  Shown(c)' = Shown(c)
BY DEF Shown

\* A step of an edit that leaves something applied, or changes nothing that
\* readers see.
LEMMA EditCurrent ==
  ASSUME TypeOK, CurrentInv, UNCHANGED <<status, indexVars, overlapped, missed>>,
         ~Still' \/ (/\ Still /\ UNCHANGED <<row, chunks>>
                     /\ \A c \in Content : Shown(c)' = Shown(c))
  PROVE  CurrentInv'
<1> SUFFICES ASSUME ~overlapped, ~missed
             PROVE  /\ (\E i \in Indexer : Busy(i)') => status' \in {"pending", "processing"}
                    /\ Still' => /\ \A i \in Indexer : Fetched(i)' => Faithful(i)'
                                 /\ status' = "indexed" => Current'
  BY DEF CurrentInv
<1>1. (\E i \in Indexer : Busy(i)') => status' \in {"pending", "processing"}
  BY DEF CurrentInv, Busy, indexVars
<1>2. ASSUME Still' PROVE /\ \A i \in Indexer : Fetched(i)' => Faithful(i)'
                          /\ status' = "indexed" => Current'
  <2>1. /\ Still /\ UNCHANGED <<row, chunks>>
        /\ \A c \in Content : Shown(c)' = Shown(c)
    BY <1>2
  <2>2. /\ \A i \in Indexer : Fetched(i) => Faithful(i)
        /\ status = "indexed" => Current
    BY <2>1 DEF CurrentInv
  <2>3. /\ \A k \in chunks : k.content \in Content
        /\ \A i \in Indexer : \A x \in got[i] : x[1] \in Content
    BY DEF TypeOK, Chunk
  <2>4. ASSUME NEW i \in Indexer, Fetched(i)' PROVE Faithful(i)'
    <3>1. Faithful(i)
      BY <2>2, <2>4 DEF Fetched, indexVars
    <3> QED
      BY <2>1, <2>3, <3>1 DEF Faithful, indexVars
  <2>5. ASSUME status' = "indexed" PROVE Current'
    BY <2>1, <2>2, <2>3, <2>5 DEF Current
  <2> QED
    BY <2>4, <2>5
<1> QED
  BY <1>1, <1>2

\* A step of edit e that had not applied anything, and what it sees stays.
LEMMA StillBefore ==
  ASSUME NEW e \in Edit, Still', UNCHANGED row,
         \A d \in Edit \ {e} : pc'[d] = pc[d] /\ job'[d] = job[d],
         Applied(e) => Applied(e)'
  PROVE  Still
BY DEF Still, Applied, InFlight

LEMMA EditsNextCurrent ==
  ASSUME TypeOK, CurrentInv, NEW e \in Edit,
         \/ SendCreate(e) \/ SendUpdate(e) \/ SendDelete(e) \/ Call(e) \/ Abort(e)
  PROVE  CurrentInv'
<1> DEFINE c == job[e].content
           Same == /\ UNCHANGED <<row, chunks>>
                   /\ \A b \in Content : Shown(b)' = Shown(b)
           Frame == UNCHANGED <<status, indexVars, overlapped, missed>>
<1>0. /\ InFlight(e) => c \in Content
      /\ \A d \in Edit \ {e} : pc'[d] = pc[d] /\ job'[d] = job[d]
  <2>1. InFlight(e) => c \in Content
    BY DEF TypeOK
  <2>2. \A d \in Edit \ {e} : pc'[d] = pc[d]
    BY DEF SendCreate, SendUpdate, SendDelete, Send, Call, Get, Upload, Insert, Write,
           Unlink, Remove, Mark, Abort, Goto, End, TypeOK
  <2>3. \A d \in Edit \ {e} : job'[d] = job[d]
    BY DEF SendCreate, SendUpdate, SendDelete, Send, Call, Get, Upload, Insert, Write,
           Unlink, Remove, Mark, Abort, Goto, End, TypeOK
  <2> QED
    BY <2>1, <2>2, <2>3
<1>1. ASSUME Frame, Same, Applied(e) => Applied(e)' PROVE CurrentInv'
  <2>1. Still' => Still
    BY <1>0, <1>1, StillBefore
  <2> QED
    BY <1>1, <2>1, EditCurrent
<1>2. ASSUME Frame, Applied(e)' PROVE CurrentInv'
  <2>1. ~Still'
    BY <1>2 DEF Still
  <2> QED
    BY <1>2, <2>1, EditCurrent
<1>3. UNCHANGED <<contentVars, chunks>> => Same
  BY ShownKept DEF contentVars
<1>4. CASE SendCreate(e) \/ SendUpdate(e) \/ SendDelete(e)
  <2>1. PICK k, b, t, p : Send(e, k, b, t, p)
    BY <1>4 DEF SendCreate, SendUpdate, SendDelete
  <2>2. Frame /\ UNCHANGED <<contentVars, chunks>> /\ ~Applied(e)
    BY <2>1 DEF Send, Applied, InFlight, Calls
  <2> QED
    BY <1>1, <1>3, <2>2
<1>5. CASE Get(e)
  <2>1. Frame /\ UNCHANGED <<contentVars, chunks>> /\ pc[e] = "get"
    BY <1>5 DEF Get
  <2>2. CASE row[c] = None
    <3>1. ~Applied(e)
      BY <2>1, <2>2 DEF Applied
    <3> QED
      BY <1>1, <1>3, <2>1, <3>1
  <2>3. CASE row[c] # None
    <3>1. pc'[e] \in Calls /\ job'[e].moved = job[e].moved /\ job'[e].content = c
      <4>1. Goto(e, AfterGet(job[e], row[c])) /\ job' = [job EXCEPT ![e].seen = row[c]]
        BY <1>5, <2>3 DEF Get
      <4>2. AfterGet(job[e], row[c]) \in Calls
        BY DEF AfterGet, Calls
      <4> QED
        BY <4>1, <4>2 DEF Goto, TypeOK, Job
    <3>2. Applied(e) => Applied(e)'
      BY <2>1, <3>1 DEF Applied, InFlight, contentVars
    <3> QED
      BY <1>1, <1>3, <2>1, <3>2
  <2> QED
    BY <2>2, <2>3
<1>6. CASE Upload(e) \/ Unlink(e)
  <2>1. /\ Frame /\ UNCHANGED <<row, chunks>> /\ InFlight(e) /\ pc[e] # "mark"
        /\ pc'[e] \in Calls
        /\ \A b \in Content \ {c} : object'[b] = object[b]
    BY <1>6 DEF Upload, Unlink, InFlight, Calls, Goto, TypeOK
  <2>2. job'[e].moved /\ job'[e].content = c
    BY <1>6 DEF Upload, Unlink, TypeOK, Job
  <2>3. CASE row[c] = None
    <3>1. Same
      BY <2>1, <2>3, ShownKept
    <3>2. ~Applied(e)
      BY <2>1, <2>3 DEF Applied
    <3> QED
      BY <1>1, <2>1, <3>1, <3>2
  <2>4. CASE row[c] # None
    <3>1. Applied(e)'
      BY <2>1, <2>2, <2>4 DEF Applied, InFlight
    <3> QED
      BY <1>2, <2>1, <3>1
  <2> QED
    BY <2>3, <2>4
<1>7. CASE Insert(e)
  BY <1>2, <1>7 DEF Insert, Goto, Applied, TypeOK
<1>8. CASE Write(e) \/ Remove(e)
  <2>1. CASE row[c] = None
    <3>1. Frame /\ UNCHANGED <<contentVars, chunks>> /\ ~Applied(e)
      BY <1>8, <2>1 DEF Write, Remove, Applied, contentVars
    <3> QED
      BY <1>1, <1>3, <3>1
  <2>2. CASE row[c] # None
    <3>1. Frame /\ pc'[e] = "mark"
      BY <1>8, <2>2 DEF Write, Remove, Goto, TypeOK
    <3> QED
      BY <1>2, <3>1 DEF Applied
  <2> QED
    BY <2>1, <2>2
<1>9. CASE Mark(e)
  <2>1. CASE \E i \in Indexer : Fetched(i)
    BY <1>9, <2>1 DEF Mark, CurrentInv
  <2>2. CASE \A i \in Indexer : ~Fetched(i)
    BY <1>9, <2>2 DEF Mark, CurrentInv, Fetched, indexVars
  <2> QED
    BY <2>1, <2>2
<1>10. CASE Abort(e)
  <2>1. CASE Applied(e)
    BY <1>10, <2>1 DEF Abort, CurrentInv
  <2>2. CASE ~Applied(e)
    <3>1. missed' = missed
      BY <1>10, <2>2 DEF Abort, TypeOK
    <3>2. Frame /\ UNCHANGED <<contentVars, chunks>>
      BY <1>10, <3>1 DEF Abort
    <3> QED
      BY <1>1, <1>3, <2>2, <3>2
  <2> QED
    BY <2>1, <2>2
<1> QED
  BY <1>4, <1>5, <1>6, <1>7, <1>8, <1>9, <1>10 DEF Call

\* While indexers do not overlap, the others are idle before and after a step
\* of one of them.
LEMMA OthersIdle ==
  ASSUME TypeOK, OnceInv, ~overlapped', NEW i \in Indexer, Reindex(i) \/ Crash(i)
  PROVE  /\ ~overlapped
         /\ \A j \in Indexer \ {i} : ~Busy(j) /\ ~Busy(j)'
         /\ ~Select(i) => Busy(i)
<1>1. ~overlapped
  BY DEF Reindex, Select, Claim, Fetch, Download, Clear, InsertChunk, Finish, Fail, Crash
<1>2. OneAtATime /\ Holding(i)
  BY <1>1 DEF OnceInv
<1>3. ~Select(i) => Busy(i)
  <2>1. CASE \E c \in Content : Download(i, c)
    BY <1>2, <2>1 DEF Download, Holding, Busy
  <2>2. CASE ~ \E c \in Content : Download(i, c)
    BY <2>2 DEF Reindex, Claim, Fetch, Clear, InsertChunk, Finish, Fail, Crash, Busy
  <2> QED
    BY <2>1, <2>2
<1>4. \A j \in Indexer \ {i} : ~Busy(j)
  BY <1>2, <1>3 DEF OneAtATime, Select, Busy
<1>5. \A j \in Indexer \ {i} : stage'[j] = stage[j]
  BY DEF Reindex, Select, Claim, Fetch, Download, Clear, InsertChunk, Finish, Fail, Crash,
         Stop, Stage, TypeOK
<1> QED
  BY <1>1, <1>3, <1>4, <1>5 DEF Busy

LEMMA IndexersNextCurrent ==
  ASSUME TypeOK, TypeOK', OnceInv, CurrentInv, NEW i \in Indexer, Reindex(i) \/ Crash(i)
  PROVE  CurrentInv'
<1> SUFFICES ASSUME ~overlapped', ~missed'
             PROVE  /\ (\E j \in Indexer : Busy(j)') => status' \in {"pending", "processing"}
                    /\ Still' => /\ \A j \in Indexer : Fetched(j)' => Faithful(j)'
                                 /\ status' = "indexed" => Current'
  BY DEF CurrentInv
<1>1. /\ ~overlapped /\ \A j \in Indexer \ {i} : ~Busy(j) /\ ~Busy(j)'
      /\ ~Select(i) => Busy(i)
  BY OthersIdle
<1>2. ~missed /\ UNCHANGED <<contentVars, editVars>>
  <2>1. UNCHANGED <<contentVars, editVars>>
    BY DEF Reindex, Select, Claim, Fetch, Download, Clear, InsertChunk, Finish, Fail, Crash
  <2>2. ASSUME NEW c \in Content, Download(i, c) PROVE ~missed
    <3>1. missed' = missed \/ missed' = (missed \/ object[c] # None)
      BY <2>2 DEF Download
    <3> QED
      BY <3>1 DEF TypeOK
  <2>3. CASE ~ \E c \in Content : Download(i, c)
    BY <2>3 DEF Reindex, Select, Claim, Fetch, Clear, InsertChunk, Finish, Fail, Crash
  <2> QED
    BY <2>1, <2>2, <2>3
<1>3. /\ Still' => Still
      /\ \A c : Shown(c)' = Shown(c)
  BY <1>2 DEF Still, Applied, InFlight, Shown, contentVars, editVars
<1>4. /\ (\E j \in Indexer : Busy(j)) => status \in {"pending", "processing"}
      /\ Still => /\ \A j \in Indexer : Fetched(j) => Faithful(j)
                  /\ status = "indexed" => Current
  BY <1>1, <1>2 DEF CurrentInv
<1>5. Holding(i)
  BY <1>1 DEF OnceInv
<1>6. \A j \in Indexer : Fetched(j)' => j = i
  BY <1>1 DEF Fetched, Busy
<1>7. \A c \in Content : row[c] # None => row[c] \in Row
  BY DEF TypeOK
\* A step that leaves indexer i at work, with its note not indexed.
<1>8. ASSUME status' \in {"pending", "processing"},
             Still /\ Fetched(i)' => Faithful(i)'
      PROVE  /\ (\E j \in Indexer : Busy(j)') => status' \in {"pending", "processing"}
             /\ Still' => /\ \A j \in Indexer : Fetched(j)' => Faithful(j)'
                          /\ status' = "indexed" => Current'
  BY <1>3, <1>6, <1>8
\* A step after which no indexer is at work.
<1>9. ASSUME ~Busy(i)', Still /\ status' = "indexed" => Current'
      PROVE  /\ (\E j \in Indexer : Busy(j)') => status' \in {"pending", "processing"}
             /\ Still' => /\ \A j \in Indexer : Fetched(j)' => Faithful(j)'
                          /\ status' = "indexed" => Current'
  BY <1>1, <1>3, <1>6, <1>9 DEF Busy, Fetched
<1> DEFINE Goal == /\ (\E j \in Indexer : Busy(j)') => status' \in {"pending", "processing"}
                   /\ Still' => /\ \A j \in Indexer : Fetched(j)' => Faithful(j)'
                                /\ status' = "indexed" => Current'
<1>10. CASE Select(i) \/ Claim(i)
  <2>1. status' \in {"pending", "processing"} /\ ~Fetched(i)'
    BY <1>10 DEF Select, Claim, Stage, Fetched, TypeOK
  <2> QED
    BY <1>8, <2>1
<1>11. CASE Fetch(i)
  <2> DEFINE rows == {c \in Content : row[c] # None}
  <2>1. /\ stage'[i] = "collect" /\ status' \in {"pending", "processing"}
        /\ got'[i] = {<<c, row[c].inline>> : c \in {c \in rows : row[c].inline # None}}
        /\ todo'[i] = {c \in rows : row[c].inline = None /\ row[c].stored}
    BY <1>1, <1>4, <1>11 DEF Fetch, Stage, TypeOK, Select
  <2>2. \A x \in got'[i] : Shown(x[1])' = x[2]
    BY <1>3, <2>1 DEF Shown
  <2>3. \A c \in todo'[i] : row'[c] # None /\ row'[c].inline = None /\ row'[c].stored
    BY <1>2, <2>1 DEF contentVars
  <2>4. ASSUME NEW c \in Content, Shown(c) # None
        PROVE  c \in todo'[i] \/ <<c, Shown(c)>> \in got'[i]
    <3>1. row[c] # None /\ c \in rows
      BY <2>4 DEF Shown
    <3>2. CASE row[c].inline # None
      BY <2>1, <3>1, <3>2 DEF Shown
    <3>3. CASE row[c].inline = None
      BY <2>1, <2>4, <3>1, <3>3 DEF Shown
    <3> QED
      BY <3>2, <3>3
  <2>5. Faithful(i)'
    BY <1>3, <2>1, <2>2, <2>3, <2>4 DEF Faithful
  <2> QED
    BY <1>8, <2>1, <2>5
<1>12. ASSUME NEW c \in Content, Download(i, c) PROVE Goal
  <2>1. /\ c \in todo[i] /\ todo'[i] = todo[i] \ {c} /\ UNCHANGED <<stage, chunks, status>>
        /\ \/ object[c] # None /\ got'[i] = got[i] \cup {<<c, object[c]>>}
           \/ got'[i] = got[i] /\ (missed' = (missed \/ object[c] # None))
    BY <1>12 DEF Download, TypeOK
  <2>2. stage[i] = "collect" /\ Busy(i) /\ Fetched(i)
    BY <1>5, <2>1 DEF Holding, Busy, Fetched
  <2>3. ASSUME Still PROVE Faithful(i)'
    <3>1. Faithful(i)
      BY <1>4, <2>2, <2>3
    <3>2. row[c] # None /\ row[c].inline = None /\ row[c].stored /\ Shown(c) = object[c]
      BY <2>1, <3>1 DEF Faithful, Shown
    <3>3. \A x \in got'[i] : Shown(x[1]) = x[2]
      BY <2>1, <3>1, <3>2 DEF Faithful
    <3>4. \A b \in todo'[i] : row'[b] # None /\ row'[b].inline = None /\ row'[b].stored
      BY <1>2, <2>1, <3>1 DEF Faithful, contentVars
    <3>5. ASSUME NEW b \in Content, Shown(b) # None
          PROVE  b \in todo'[i] \/ <<b, Shown(b)>> \in got'[i]
      <4>1. b \in todo[i] \/ <<b, Shown(b)>> \in got[i]
        BY <2>2, <3>1, <3>5 DEF Faithful
      <4> QED
        BY <1>2, <2>1, <3>2, <3>5, <4>1
    <3> QED
      BY <1>3, <2>1, <2>2, <3>3, <3>4, <3>5 DEF Faithful
  <2>4. status' \in {"pending", "processing"}
    BY <1>4, <2>1, <2>2
  <2> QED
    BY <1>8, <2>3, <2>4
<1>13. CASE Clear(i)
  <2>1. /\ stage[i] = "collect" /\ stage'[i] = "insert" /\ todo[i] = {} /\ chunks' = {}
        /\ UNCHANGED <<got, todo, status>>
    BY <1>13 DEF Clear, Stage, TypeOK
  <2>2. Busy(i) /\ Fetched(i)
    BY <2>1 DEF Busy, Fetched
  <2>3. ASSUME Still PROVE Faithful(i)'
    <3>1. Faithful(i)
      BY <1>4, <2>2, <2>3
    <3> QED
      BY <1>3, <2>1, <3>1 DEF Faithful
  <2>4. status' \in {"pending", "processing"}
    BY <1>4, <2>1, <2>2
  <2> QED
    BY <1>8, <2>3, <2>4
<1>14. ASSUME NEW x \in got[i], InsertChunk(i, x) PROVE Goal
  <2> DEFINE new == [by |-> i, content |-> x[1], text |-> x[2]]
  <2>1. /\ stage[i] = "insert" /\ UNCHANGED <<stage, todo, status>>
        /\ got'[i] = got[i] \ {x} /\ chunks' = chunks \cup {new}
    BY <1>14 DEF InsertChunk, TypeOK
  <2>2. Busy(i) /\ Fetched(i) /\ todo[i] = {}
    BY <1>5, <2>1 DEF Busy, Fetched, Holding
  <2>3. ASSUME Still PROVE Faithful(i)'
    <3>1. Faithful(i)
      BY <1>4, <2>2, <2>3
    <3>2. \A y \in got'[i] : Shown(y[1]) = y[2]
      BY <2>1, <3>1 DEF Faithful
    <3>3. \A k \in chunks' : Shown(k.content) = k.text
      BY <2>1, <3>1 DEF Faithful
    <3>4. ASSUME NEW c \in Content, Shown(c) # None
          PROVE  <<c, Shown(c)>> \in got'[i] \/ \E k \in chunks' : k.content = c /\ k.text = Shown(c)
      <4>1. CASE <<c, Shown(c)>> = x
        <5>1. new.content = c /\ new.text = Shown(c) /\ new \in chunks'
          BY <2>1, <4>1
        <5> QED
          BY <5>1
      <4>2. CASE <<c, Shown(c)>> # x
        BY <2>1, <2>2, <3>1, <3>4, <4>2 DEF Faithful
      <4> QED
        BY <4>1, <4>2
    <3> HIDE DEF new
    <3> QED
      BY <1>3, <2>1, <2>2, <3>2, <3>3, <3>4 DEF Faithful
  <2>4. status' \in {"pending", "processing"}
    BY <1>4, <2>1, <2>2
  <2> QED
    BY <1>8, <2>3, <2>4
<1>15. CASE Finish(i)
  <2>1. /\ stage[i] = "insert" /\ got[i] = {} /\ stage'[i] = "idle" /\ UNCHANGED chunks
    BY <1>15 DEF Finish, Stop, Stage, TypeOK
  <2>2. Fetched(i) /\ todo[i] = {}
    BY <1>5, <2>1 DEF Fetched, Holding
  <2>3. ASSUME Still PROVE Current'
    <3>1. Faithful(i)
      BY <1>4, <2>2, <2>3
    <3> QED
      BY <1>3, <2>1, <2>2, <3>1 DEF Faithful, Current
  <2>4. ~Busy(i)'
    BY <2>1 DEF Busy
  <2> QED
    BY <1>9, <2>3, <2>4
<1>16. CASE Fail(i) \/ Crash(i)
  <2>1. ~Busy(i)'
    BY <1>16 DEF Fail, Crash, Stop, Stage, Busy, TypeOK
  <2>2. status' # "indexed"
    BY <1>1, <1>4, <1>16 DEF Fail, Crash, Select
  <2> QED
    BY <1>9, <2>1, <2>2
<1> QED
  BY <1>10, <1>11, <1>12, <1>13, <1>14, <1>15, <1>16 DEF Reindex

\* What the invariant says of an indexed note, in the words of the property.
LEMMA CurrentIsIndexed ==
  ASSUME TypeOK, CurrentInv
  PROVE  IndexedIsCurrent
<1> SUFFICES ASSUME ~overlapped, ~missed, status = "indexed", \A e \in Edit : ~Applied(e)
             PROVE  {<<k.content, k.text>> : k \in chunks}
                      = {<<c, Shown(c)>> : c \in {c \in Content : Shown(c) # None}}
  BY DEF IndexedIsCurrent
<1>1. Current
  BY DEF CurrentInv, Still
<1>2. \A k \in chunks : k.content \in Content /\ Shown(k.content) = k.text /\ k.text # None
  BY <1>1, NoneAssumption DEF Current, TypeOK, Chunk
<1>3. \A c \in Content : Shown(c) # None =>
        \E k \in chunks : k.content = c /\ k.text = Shown(c)
  BY <1>1 DEF Current
<1> QED
  BY <1>2, <1>3

LEMMA NextCurrent == TypeOK /\ OnceInv /\ CurrentInv /\ [Next]_vars => CurrentInv'
<1> SUFFICES ASSUME TypeOK, OnceInv, CurrentInv, [Next]_vars PROVE CurrentInv'
  OBVIOUS
<1>1. TypeOK'
  BY NextType
<1>2. CASE UNCHANGED vars
  BY <1>2
  DEF vars, CurrentInv, Still, Applied, InFlight, Busy, Fetched, Faithful, Current, Shown,
      contentVars, editVars, indexVars
<1>3. CASE Next
  BY <1>1, <1>3, EditsNextCurrent, IndexersNextCurrent DEF Next
<1> QED
  BY <1>2, <1>3

\* A note that counts as indexed, and that no edit is changing, is indexed with
\* exactly the texts its readers see, as long as indexers do not overlap each
\* other or the marking of an edit, no applied edit fails before its mark, and
\* no download fails.
THEOREM IndexTellsTheTruth == Spec => []IndexedIsCurrent
<1>1. Spec => []OnceInv
  BY InitOnce, TypeCorrect, NextOnce, PTL DEF Spec
<1>2. Spec => []CurrentInv
  BY <1>1, InitCurrent, TypeCorrect, NextCurrent, PTL DEF Spec
<1> QED
  BY <1>2, TypeCorrect, CurrentIsIndexed, PTL

\* What a search finds exists, is found once, and outside the named windows is
\* everything the readers of the note see.
THEOREM SearchTellsTheTruth == Spec => []SearchIsTrue
<1>1. FoundIsThereOnce /\ IndexedIsCurrent => SearchIsTrue
  BY DEF SearchIsTrue
<1> QED
  BY SearchIsSound, IndexTellsTheTruth, <1>1, PTL
=============================================================================

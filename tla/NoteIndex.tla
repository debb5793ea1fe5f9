------------------------------ MODULE NoteIndex ------------------------------
(***************************************************************************)
(* One note's contents and their search index: the content endpoints of    *)
(* the note service, which keep small texts in note_contents and large     *)
(* ones in the object store, and reindex_pending_notes of the AI service,  *)
(* which turns them into the rows of note_content_chunks that every search *)
(* reads.  notes.index_status is all that connects the two services.       *)
(*                                                                         *)
(* Both commit each statement on its own, so one action here is one        *)
(* statement or one call of the object store.  The object store is         *)
(* configured; a content's object is named by the content.  The chunks of  *)
(* one text are one record.                                                *)
(***************************************************************************)
EXTENDS Naturals

CONSTANTS
  Content,   \* ids of note_contents rows
  Text,      \* what a content can hold
  Large,     \* the texts beyond storageThreshold
  Edit,      \* the requests that change contents
  Indexer,   \* the calls of reindex_pending_notes that may run at a time
  None       \* no row, no text, no object

\* A row of note_contents; stored: storage_key is not NULL.
Row == [inline: Text \cup {None}, stored: BOOLEAN]

ASSUME LargeAssumption == Large \subseteq Text
ASSUME NoneAssumption == None \notin Text \cup Row

VARIABLES
  row,         \* note_contents
  object,      \* the object store
  status,      \* notes.index_status
  chunks,      \* note_content_chunks
  pc,          \* the next call of each edit
  job,         \* its parameters and locals, while it is handled
  stage,       \* the next statement of each indexer
  todo,        \* the contents it still has to download
  got,         \* all_chunks: what it has collected, then still has to insert
  overlapped,  \* history: two indexers were at work on the note
  missed,      \* history: a change was not, or too early, marked as pending,
               \* or a text could not be downloaded
  crashed      \* history: an indexer stopped half way

contentVars == <<row, object>>
editVars == <<pc, job>>
indexVars == <<stage, todo, got>>
vars == <<contentVars, status, chunks, editVars, indexVars, overlapped, missed, crashed>>

Chunk == [by: Indexer, content: Content, text: Text]

Status == {"pending", "processing", "indexed", "failed"}

Calls == {"get", "upload", "insert", "write", "unlink", "remove", "mark"}

\* moved: the object of the content has been written or deleted.
Job == [kind: {"create", "update", "delete"}, content: Content \cup {None},
        text: Text \cup {None}, seen: Row, moved: BOOLEAN]

NoJob == [kind |-> "create", content |-> None, text |-> None,
          seen |-> [inline |-> None, stored |-> FALSE], moved |-> FALSE]

Init ==
  /\ row = [c \in Content |-> None]
  /\ object = [c \in Content |-> None]
  /\ status = "pending" /\ chunks = {}
  /\ pc = [e \in Edit |-> "unused"]
  /\ job = [e \in Edit |-> NoJob]
  /\ stage = [i \in Indexer |-> "idle"]
  /\ todo = [i \in Indexer |-> {}]
  /\ got = [i \in Indexer |-> {}]
  /\ overlapped = FALSE /\ missed = FALSE /\ crashed = FALSE

-----------------------------------------------------------------------------
(***************************************************************************)
(* The content endpoints of the note service.                              *)
(***************************************************************************)
InFlight(e) == pc[e] \in Calls

Goto(e, p) == pc' = [pc EXCEPT ![e] = p]

End(e) == Goto(e, "over") /\ job' = [job EXCEPT ![e] = NoJob]

Send(e, kind, c, t, first) ==
  /\ pc[e] = "unused"
  /\ Goto(e, first)
  /\ job' = [job EXCEPT ![e] = [NoJob EXCEPT !.kind = kind, !.content = c, !.text = t]]
  /\ UNCHANGED <<contentVars, status, chunks, indexVars, overlapped, missed, crashed>>

\* A created content has a new id: one that nobody has, or still remembers.
SendCreate(e) ==
  \E c \in Content, t \in Text :
    /\ row[c] = None /\ object[c] = None
    /\ \A d \in Edit : job[d].content # c
    /\ \A i \in Indexer : c \notin todo[i] /\ \A x \in got[i] : x[1] # c
    /\ Send(e, "create", c, t, IF t \in Large THEN "upload" ELSE "insert")

\* An update may leave the text alone (metadata, order, thumbnail).
SendUpdate(e) ==
  \E c \in Content, t \in Text \cup {None} : Send(e, "update", c, t, "get")

SendDelete(e) == \E c \in Content : Send(e, "delete", c, None, "get")

\* What follows GetContent when it returned row s.
AfterGet(j, s) ==
  IF j.kind = "delete" THEN IF s.stored THEN "unlink" ELSE "remove"
  ELSE IF j.text # None /\ (s.stored \/ j.text \in Large) THEN "upload"
  ELSE "write"

\* GetContent; a content that does not exist ends the request.
Get(e) ==
  LET c == job[e].content IN
  /\ pc[e] = "get"
  /\ IF row[c] = None
       THEN End(e)
       ELSE /\ Goto(e, AfterGet(job[e], row[c]))
            /\ job' = [job EXCEPT ![e].seen = row[c]]
  /\ UNCHANGED <<contentVars, status, chunks, indexVars, overlapped, missed, crashed>>

\* storage.Upload, under the stored key or the one derived from the content.
Upload(e) ==
  /\ pc[e] = "upload"
  /\ object' = [object EXCEPT ![job[e].content] = job[e].text]
  /\ Goto(e, IF job[e].kind = "create" THEN "insert" ELSE "write")
  /\ job' = [job EXCEPT ![e].moved = TRUE]
  /\ UNCHANGED <<row, status, chunks, indexVars, overlapped, missed, crashed>>

\* repository.CreateContent.
Insert(e) ==
  LET j == job[e] IN
  /\ pc[e] = "insert"
  /\ row' = [row EXCEPT ![j.content] =
               IF j.moved THEN [inline |-> None, stored |-> TRUE]
               ELSE [inline |-> j.text, stored |-> FALSE]]
  /\ Goto(e, "mark")
  /\ UNCHANGED <<object, status, chunks, job, indexVars, overlapped, missed, crashed>>

\* repository.UpdateContent writes back the whole row it read, without the
\* storage_key; it fails when the row is gone.
Write(e) ==
  LET j == job[e] IN
  /\ pc[e] = "write"
  /\ IF row[j.content] = None
       THEN End(e) /\ UNCHANGED row
       ELSE /\ row' = [row EXCEPT ![j.content].inline =
                         IF j.moved THEN None
                         ELSE IF j.text = None THEN j.seen.inline ELSE j.text]
            /\ Goto(e, "mark")
            /\ UNCHANGED job
  /\ UNCHANGED <<object, status, chunks, indexVars, overlapped, missed, crashed>>

\* storage.Delete; that it fails is only logged.
Unlink(e) ==
  /\ pc[e] = "unlink"
  /\ \/ object' = [object EXCEPT ![job[e].content] = None]
     \/ UNCHANGED object
  /\ Goto(e, "remove")
  /\ job' = [job EXCEPT ![e].moved = TRUE]
  /\ UNCHANGED <<row, status, chunks, indexVars, overlapped, missed, crashed>>

\* repository.DeleteContent, with ON DELETE CASCADE to the chunks; it fails
\* when the row is gone.
Remove(e) ==
  LET c == job[e].content IN
  /\ pc[e] = "remove"
  /\ IF row[c] = None
       THEN End(e) /\ UNCHANGED <<row, chunks>>
       ELSE /\ row' = [row EXCEPT ![c] = None]
            /\ chunks' = {k \in chunks : k.content # c}
            /\ Goto(e, "mark")
            /\ UNCHANGED job
  /\ UNCHANGED <<object, status, indexVars, overlapped, missed, crashed>>

\* An indexer that has read the contents.
Fetched(i) == stage[i] \in {"collect", "insert"}

\* UpdateIndexStatus(pending); its error is ignored (see Abort).
Mark(e) ==
  /\ pc[e] = "mark"
  /\ status' = "pending"
  /\ End(e)
  /\ missed' = (missed \/ \E i \in Indexer : Fetched(i))
  /\ UNCHANGED <<contentVars, chunks, indexVars, overlapped, crashed>>

\* The edit has changed something that a reader of the contents can see.
Applied(e) ==
  \/ pc[e] = "mark"
  \/ InFlight(e) /\ job[e].moved /\ row[job[e].content] # None

\* The request ends with an error before its next call.
Abort(e) ==
  /\ InFlight(e)
  /\ End(e)
  /\ missed' = (missed \/ Applied(e))
  /\ UNCHANGED <<contentVars, status, chunks, indexVars, overlapped, crashed>>

-----------------------------------------------------------------------------
(***************************************************************************)
(* reindex_pending_notes, for this note.                                   *)
(***************************************************************************)
Stage(i, s) == stage' = [stage EXCEPT ![i] = s]

Stop(i) ==
  /\ Stage(i, "idle")
  /\ todo' = [todo EXCEPT ![i] = {}]
  /\ got' = [got EXCEPT ![i] = {}]

\* SELECT ... WHERE index_status = 'pending', by the schedule or the user.
Select(i) ==
  /\ stage[i] = "idle" /\ status = "pending"
  /\ Stage(i, "claim")
  /\ overlapped' = (overlapped \/ \E k \in Indexer : stage[k] # "idle")
  /\ UNCHANGED <<contentVars, status, chunks, editVars, todo, got, missed, crashed>>

\* UPDATE notes SET index_status = 'processing', whatever it is by now.
Claim(i) ==
  /\ stage[i] = "claim"
  /\ status' = "processing"
  /\ Stage(i, "fetch")
  /\ UNCHANGED <<contentVars, chunks, editVars, todo, got, overlapped, missed, crashed>>

\* SELECT from note_contents: the inline texts are there, the others have to
\* be downloaded.
Fetch(i) ==
  LET rows == {c \in Content : row[c] # None} IN
  /\ stage[i] = "fetch"
  /\ got' = [got EXCEPT ![i] =
       {<<c, row[c].inline>> : c \in {c \in rows : row[c].inline # None}}]
  /\ todo' = [todo EXCEPT ![i] = {c \in rows : row[c].inline = None /\ row[c].stored}]
  /\ Stage(i, "collect")
  /\ UNCHANGED <<contentVars, status, chunks, editVars, overlapped, missed, crashed>>

\* minio_client.download_text; a content whose download fails is skipped.
Download(i, c) ==
  /\ c \in todo[i]
  /\ todo' = [todo EXCEPT ![i] = @ \ {c}]
  /\ \/ /\ object[c] # None
        /\ got' = [got EXCEPT ![i] = @ \cup {<<c, object[c]>>}]
        /\ UNCHANGED missed
     \/ /\ missed' = (missed \/ object[c] # None)
        /\ UNCHANGED got
  /\ UNCHANGED <<contentVars, status, chunks, editVars, stage, overlapped, crashed>>

Clear_Nothing(i) ==
  /\ stage[i] = "collect" /\ todo[i] = {}
  /\ Stage(i, "insert")
  /\ UNCHANGED <<contentVars, status, chunks, editVars, todo, got, overlapped, missed, crashed>>

\* DELETE FROM note_content_chunks WHERE note_id, after the embeddings were
\* generated or when there is no text at all.
Clear(i) ==
  /\ stage[i] = "collect" /\ todo[i] = {}
  /\ chunks' = {}
  /\ Stage(i, "insert")
  /\ UNCHANGED <<contentVars, status, editVars, todo, got, overlapped, missed, crashed>>

\* INSERT INTO note_content_chunks, which needs the content's row.
InsertChunk(i, x) ==
  /\ stage[i] = "insert" /\ x \in got[i] /\ row[x[1]] # None
  /\ chunks' = chunks \cup {[by |-> i, content |-> x[1], text |-> x[2]]}
  /\ got' = [got EXCEPT ![i] = @ \ {x}]
  /\ UNCHANGED <<contentVars, status, editVars, stage, todo, overlapped, missed, crashed>>

\* UPDATE notes SET index_status = 'indexed', whatever it is by now.
Finish(i) ==
  /\ stage[i] = "insert" /\ got[i] = {}
  /\ status' = "indexed"
  /\ Stop(i)
  /\ UNCHANGED <<contentVars, chunks, editVars, overlapped, missed, crashed>>

Fail_NotHandled(i) ==
  /\ stage[i] # "idle"
  /\ Stop(i)
  /\ UNCHANGED <<contentVars, status, chunks, editVars, overlapped, missed, crashed>>

\* A statement or the embedding service raises, as does the INSERT of a chunk
\* whose content is gone: UPDATE notes SET index_status = 'failed'.
Fail(i) ==
  /\ stage[i] # "idle"
  /\ status' = "failed"
  /\ Stop(i)
  /\ UNCHANGED <<contentVars, chunks, editVars, overlapped, missed, crashed>>

\* The service stops, or cannot even record the failure.
Crash(i) ==
  /\ stage[i] # "idle"
  /\ Stop(i)
  /\ crashed' = TRUE
  /\ UNCHANGED <<contentVars, status, chunks, editVars, overlapped, missed>>

Call(e) ==
  Get(e) \/ Upload(e) \/ Insert(e) \/ Write(e) \/ Unlink(e) \/ Remove(e) \/ Mark(e)

Reindex(i) ==
  \/ Select(i) \/ Claim(i) \/ Fetch(i) \/ Clear(i) \/ Finish(i) \/ Fail(i)
  \/ \E c \in Content : Download(i, c)
  \/ \E x \in got[i] : InsertChunk(i, x)

Next ==
  \/ \E e \in Edit : \/ SendCreate(e) \/ SendUpdate(e) \/ SendDelete(e)
                     \/ Call(e) \/ Abort(e)
  \/ \E i \in Indexer : Reindex(i) \/ Crash(i)

Spec == Init /\ [][Next]_vars

\* The services go on with what they started, and the reindex job of the
\* lakehouse calls the indexer every ten minutes.
FairSpec ==
  /\ Spec
  /\ \A e \in Edit : WF_vars(Call(e))
  /\ \A i \in Indexer : WF_vars(Reindex(i))

-----------------------------------------------------------------------------
(***************************************************************************)
(* Properties.                                                             *)
(***************************************************************************)
TypeOK ==
  /\ row \in [Content -> Row \cup {None}]
  /\ object \in [Content -> Text \cup {None}]
  /\ status \in Status
  /\ chunks \subseteq Chunk
  /\ pc \in [Edit -> Calls \cup {"unused", "over"}]
  /\ job \in [Edit -> Job]
  /\ \A e \in Edit : InFlight(e) => job[e].content \in Content
  /\ stage \in [Indexer -> {"idle", "claim", "fetch", "collect", "insert"}]
  /\ todo \in [Indexer -> SUBSET Content]
  /\ got \in [Indexer -> SUBSET (Content \X Text)]
  /\ overlapped \in BOOLEAN /\ missed \in BOOLEAN /\ crashed \in BOOLEAN

\* What a reader of content c finds: GetContent, or the download URL.
Shown(c) ==
  IF row[c] = None THEN None
  ELSE IF row[c].inline # None THEN row[c].inline
  ELSE IF row[c].stored THEN object[c] ELSE None

\* A search never finds a deleted content, not even one that was deleted
\* after the indexer had read it.
FoundExists == \A k \in chunks : row[k.content] # None

\* As long as no two indexers work on the note at a time, a search finds each
\* of its contents at most once, whatever edits, errors and crashes come
\* between the statements of the indexer.
FoundOnce ==
  ~overlapped => \A k, l \in chunks : k.content = l.content => k = l

\* A search result leads to a content that is there, and to each one once.
FoundIsThereOnce == FoundExists /\ FoundOnce

\* "Mark note as needing reindexing": a note that counts as indexed, and that
\* no edit is changing, is indexed with the texts its readers see; unless an
\* edit failed half way or was marked while an indexer was at work with what
\* it had read before, two indexers overlapped, or a download failed.
IndexedIsCurrent ==
  /\ ~overlapped /\ ~missed /\ status = "indexed"
  /\ \A e \in Edit : ~Applied(e)
  => {<<k.content, k.text>> : k \in chunks}
       = {<<c, Shown(c)>> : c \in {c \in Content : Shown(c) # None}}

\* What a search may rely on: every result exists, once, and outside the named
\* windows the index of the note is complete and current.
SearchIsTrue == FoundIsThereOnce /\ IndexedIsCurrent

\* "pending -> processing -> indexed (or failed)": when the edits stop, the
\* note ends up indexed or failed, unless an indexer was stopped half way.
EventuallyIndexed == <>[](crashed \/ status \in {"indexed", "failed"})

\* The comment on UpdateContent: inline content that outgrows the threshold
\* is uploaded to external storage.  When the update is through, and its
\* upload is in place, the readers of the content find the new text.
LargeUpdateShown ==
  \A e \in Edit :
    /\ pc[e] = "mark" /\ job[e].kind = "update" /\ job[e].moved
    /\ object[job[e].content] = job[e].text
    /\ \A d \in Edit \ {e} : ~InFlight(d)
    => Shown(job[e].content) = job[e].text
=============================================================================

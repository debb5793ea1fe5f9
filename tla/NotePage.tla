------------------------------ MODULE NotePage ------------------------------
(***************************************************************************)
(* The note pages: the list (N01) with its filters and its search, and the *)
(* editor (N02), where a note, its text and its two diagrams are saved one *)
(* request after the other, while images are uploaded, tags are made, the  *)
(* note is archived or deleted, and the user goes on typing or leaves.     *)
(* Every request may fail, and its answer may be lost.  The service writes *)
(* a note in up to three statements that commit one by one: its row, its   *)
(* tags and its fields; one that fails leaves the ones before it written.  *)
(* The order of the list, what the names of things say and the pencil that *)
(* renames a tag are left out.                                             *)
(***************************************************************************)
EXTENDS Integers, Sequences, FiniteSets, SequencesExt

CONSTANTS
    Notes, ContentIds, Goals, TagIds, NoId,     \* identities of rows
    Milestones, GoalOf,                         \* and the goal of each
    Tasks, MilestoneOf,
    Types, FirstType,       \* note types, and the first of them
    DateTypes,              \* those that need a date, one note for each
    UntitledTypes,          \* those that need no title
    FieldTypes,             \* those with a field that must be filled in
    All,                    \* no filter on the type
    Texts, Empty, Draft,    \* what is typed; the title of a draft
    Large,                  \* what the service puts into the object store
    Dates, Today,
    OldRows, OldContents,   \* tables when the page is opened
    MaxEdits,       \* changes in the form and of the filters
    MaxRequests,    \* saves, deletions, uploads... started
    MaxInFlight,    \* and at once, when something is started
    MaxVisits       \* times the editor is opened

VARIABLES
    rows,       \* notes
    contents,   \* note_contents, in the order of their creation
    items, cache, results, cur,     \* useNoteStore
    f,          \* the filters and the search field of the list
    page,
    ed,         \* what the open editor shows
    insts,      \* refs of every editor that was opened
    jobs,       \* functions that wait for an answer
    sent, edits, visits,
    saved,      \* history: the note of the last save and what was shown
    unsure,     \* history: an answer was lost, or two changes overlapped
    stale,      \* history: the same of the list
    half        \* history: notes whose creation (made) or update (changed,
                \* until the cache has them anew) failed after its row

table == <<rows, contents>>
store == <<items, cache, results, cur>>
bounds == <<sent, edits, visits>>
history == <<saved, unsure, stale, half>>
vars == <<table, store, f, page, ed, insts, jobs, bounds, history>>

Part == {"drawio", "mindmap"}
Kind == Part \cup {"markdown"}

(* A text, and the image that was pasted into it.                          *)
Body(t) == [t |-> t, img |-> "none"]
Blank == Body(Empty)

Value(type) ==
    [type |-> type, title |-> Empty, text |-> Blank,
     date |-> IF type \in DateTypes THEN Today ELSE Empty,
     goal |-> NoId, ms |-> NoId, task |-> NoId, tags |-> {}, meta |-> Empty,
     on |-> [p \in Part |-> FALSE], body |-> [p \in Part |-> Blank]]

Row(id, type) ==
    [id |-> id, type |-> type, title |-> Empty, text |-> Blank, date |-> Empty,
     goal |-> NoId, ms |-> NoId, task |-> NoId, tags |-> {}, meta |-> Empty,
     archived |-> FALSE, by |-> 0]

Content(id, note, kind, body) ==
    [id |-> id, note |-> note, kind |-> kind, body |-> body]

Filter == [type |-> All, goal |-> NoId, tags |-> {}, archived |-> FALSE, q |-> Empty]

NoRefs == [cur |-> NoId, ref |-> [k \in Kind |-> NoId],
           note |-> {}, contents |-> <<>>]

NoEditor == [n |-> 0, id |-> NoId, loading |-> FALSE, saving |-> FALSE, known |-> "none",
             v |-> Value(FirstType)]

Job(fn, inst, note) ==
    [fn |-> fn, step |-> "note", inst |-> inst, note |-> note, cid |-> NoId,
     v |-> Value(FirstType), f |-> Filter, flag |-> FALSE, stage |-> "sent", answer |-> <<>>]

Changing == {"save", "delete", "archive", "paste"}
InFlight(fns) == \E i \in DOMAIN jobs : jobs[i].fn \in fns

Live == page = "edit"

(* Nothing is begun after the last request is answered, or once an answer  *)
(* was lost or two changes overlapped: the properties say nothing then.    *)
More == ~unsure /\ (sent < MaxRequests \/ jobs # <<>>)
CanStart == ~unsure /\ sent < MaxRequests /\ Len(jobs) < MaxInFlight

----------------------------------------------------------------------------
(* The note service.                                                       *)

Known ==
    {r.id : r \in rows \cup cache \cup items \cup results}
    \cup {insts[n].cur : n \in DOMAIN insts} \cup {ed.id, saved.note}
    \cup {jobs[i].note : i \in DOMAIN jobs}
    \cup UNION {{x.id : x \in ToSet(jobs[i].answer)} : i \in DOMAIN jobs}
KnownContents ==
    {contents[i].id : i \in DOMAIN contents} \cup {jobs[i].cid : i \in DOMAIN jobs}
    \cup UNION {{insts[n].ref[k] : k \in Kind} : n \in DOMAIN insts}
    \cup UNION {{x.id : x \in ToSet(jobs[i].answer)} : i \in DOMAIN jobs}
    \cup UNION {{x.id : x \in UNION {ToSet(y.list) : y \in ToSet(insts[n].contents)}} : n \in DOMAIN insts}

(* Any identity that nobody has seen.                                      *)
Unseen(ids, seen) == IF ids \subseteq seen THEN {} ELSE {CHOOSE id \in ids : id \notin seen}

Exists(note) == \E r \in rows : r.id = note
TheRow(note) == CHOOSE r \in rows : r.id = note

(* The goal that is sent: the milestone's when none is chosen.             *)
SentGoal(v) == IF v.goal = NoId /\ v.ms # NoId THEN GoalOf[v.ms] ELSE v.goal

(* The draft that images are uploaded to: what there was before the image. *)
DraftOf(v) ==
    [Value(v.type) EXCEPT !.title = IF v.title = Empty THEN Draft ELSE v.title,
                          !.text = Body(v.text.t), !.date = v.date]

(* What is not filled in is not sent, and what is not sent stays, but for  *)
(* the text and the tags.                                                  *)
Written(old, v) ==
    LET Kept(new, nothing, was) == IF new = nothing THEN was ELSE new
    IN  [old EXCEPT !.title = Kept(v.title, Empty, @), !.text = v.text,
                    !.date = Kept(v.date, Empty, @), !.goal = Kept(SentGoal(v), NoId, @),
                    !.ms = Kept(v.ms, NoId, @), !.task = Kept(v.task, NoId, @),
                    !.tags = v.tags, !.meta = Kept(v.meta, Empty, @)]

(* One diary and one learning record a day.                                *)
DayFree(r) ==
    ~\E x \in rows : x.id # r.id /\ x.type \in DateTypes /\ x.type = r.type /\ x.date = r.date

Valid(r) ==
    /\ r.type \in UntitledTypes \/ r.title # Empty
    /\ r.type \in FieldTypes => r.meta # Empty

Done(i, newRows, newContents, answer) ==
    /\ jobs[i].stage = "sent"
    /\ rows' = newRows /\ contents' = newContents
    /\ jobs' = [jobs EXCEPT ![i].stage = "ok", ![i].answer = answer]

(* One statement of several: r is the note as the service will answer it.  *)
Wrote(i, newRows, stage, r) ==
    /\ rows' = newRows /\ UNCHANGED contents
    /\ jobs' = [jobs EXCEPT ![i].stage = stage, ![i].answer = <<r>>]

RowsWith(r) == {IF x.id = r.id THEN r ELSE x : x \in rows}

(* What follows: an update always writes the tags anew.                    *)
AfterTags(r) == IF r.meta # Empty THEN "meta" ELSE "ok"
AfterRow(j, r) == IF j.note # NoId \/ r.tags # {} THEN "tags" ELSE AfterTags(r)

ServeCreate(j, i) ==
    /\ j.fn \in {"save", "paste"} /\ j.step = "note" /\ j.note = NoId /\ j.stage = "sent"
    /\ \E id \in Unseen(Notes, Known) :
          LET v == IF j.fn = "paste" THEN DraftOf(j.v) ELSE j.v
              r == [Written(Row(id, v.type), v) EXCEPT !.by = j.inst]
          IN  /\ Valid(r) /\ DayFree(r)
              /\ Wrote(i, rows \cup {[r EXCEPT !.tags = {}, !.meta = Empty]}, AfterRow(j, r), r)

(* The note as it is, with what was sent; nothing is written yet.          *)
ServeLookUp(j, i) ==
    /\ j.fn \in {"save", "archive"} /\ j.step = "note" /\ j.stage = "sent" /\ Exists(j.note)
    /\ LET old == TheRow(j.note)
           r == IF j.fn = "archive" THEN [old EXCEPT !.archived = j.flag] ELSE Written(old, j.v)
       IN  Wrote(i, rows, "row", r)

ServeUpdate(j, i) ==
    /\ j.stage = "row" /\ Exists(j.note)
    /\ LET r == j.answer[1]
           old == TheRow(j.note)
       IN  /\ DayFree(r)
           /\ Wrote(i, RowsWith([r EXCEPT !.tags = old.tags, !.meta = old.meta]), "tags", r)

(* The row that goes with the tags and the fields may be gone by now.      *)
WithTags(r, tags) == {IF x.id = r.id THEN [x EXCEPT !.tags = tags] ELSE x : x \in rows}

ServeTags(j, i) ==
    /\ j.stage = "tags"
    /\ LET r == j.answer[1]
       IN  (r.tags # {} => Exists(r.id)) /\ Wrote(i, WithTags(r, r.tags), AfterTags(r), r)

ServeMeta(j, i) ==
    /\ j.stage = "meta"
    /\ LET r == j.answer[1]
       IN  Exists(r.id) /\ Wrote(i, RowsWith([TheRow(r.id) EXCEPT !.meta = r.meta]), "ok", r)

(* A statement fails: what came before it stays, and nothing came before   *)
(* the row of an update.  The tags are first deleted and then inserted one *)
(* by one, the fields replaced as a whole.                                 *)
ServeFail(j, i) ==
    \/ j.stage = "row" /\ Wrote(i, rows, "refused", j.answer[1])
    \/ j.stage = "meta" /\ Wrote(i, rows, "error", j.answer[1])
    \/ /\ j.stage = "tags"
       /\ LET r == j.answer[1]
          IN  \/ Wrote(i, rows, "error", r)
              \/ \E tags \in SUBSET r.tags : Wrote(i, WithTags(r, tags), "error", r)

(* Mutant: the contents of a deleted note stay.                            *)
ServeDeleteRow(j, i) ==
    j.fn = "delete" /\ Exists(j.note) /\ Done(i, rows \ {TheRow(j.note)}, contents, <<>>)

ServeDelete(j, i) ==
    /\ j.fn = "delete" /\ Exists(j.note)
    /\ Done(i, rows \ {TheRow(j.note)}, SelectSeq(contents, LAMBDA c : c.note # j.note), <<>>)

NewBody(j) == IF j.step = "markdown" THEN j.v.text ELSE j.v.body[j.step]
Wanted(j) == j.step # "markdown" => j.v.on[j.step]

(* A content of the note: created, updated or deleted.                     *)
ServeContent(j, i) ==
    /\ j.fn = "save" /\ j.step \in Kind /\ Exists(j.note)
    /\ \/ /\ j.cid = NoId
          /\ \E id \in Unseen(ContentIds, KnownContents) :
                LET c == Content(id, j.note, j.step, NewBody(j))
                IN  Done(i, rows, Append(contents, c), <<c>>)
       \/ \E k \in DOMAIN contents :
             /\ contents[k].id = j.cid
             /\ \/ Wanted(j) /\ Done(i, rows, [contents EXCEPT ![k].body = NewBody(j)], <<>>)
                \/ ~Wanted(j) /\ Done(i, rows, RemoveAt(contents, k), <<>>)

(* An image: its record, and then its address.                             *)
ServeImage(j, i) ==
    /\ j.fn = "paste" /\ j.step = "image" /\ Exists(j.note)
    /\ \E id \in Unseen(ContentIds, KnownContents) :
          LET c == Content(id, j.note, "image", Blank)
          IN  Done(i, rows, Append(contents, c), <<c>>)
ServeLink(j, i) == j.fn = "paste" /\ j.step = "link" /\ Done(i, rows, contents, <<>>)

ServeTag(j, i) ==
    /\ j.fn = "tag"
    /\ \E t \in TagIds \ (j.v.tags \cup ed.v.tags) : Done(i, rows, contents, <<[id |-> t]>>)

Matches(r, x) ==
    /\ x.type \in {All, r.type} /\ x.goal \in {NoId, r.goal}
    /\ x.tags \subseteq r.tags /\ r.archived = x.archived

Found(r, x) == Matches(r, [x EXCEPT !.goal = NoId, !.tags = {}]) /\ x.q \in {r.title, r.text.t}

Item(r) == [r EXCEPT !.text = Blank]

(* A text that was put into the object store is not in the list.           *)
Inline(c) == IF c.body.t \in Large THEN [c EXCEPT !.body = Blank] ELSE c

ServeRead(j, i) ==
    \/ j.fn = "get" /\ Exists(j.note) /\ Done(i, rows, contents, <<TheRow(j.note)>>)
    \/ /\ j.fn = "contents" /\ Exists(j.note)
       /\ LET mine == SelectSeq(contents, LAMBDA c : c.note = j.note)
          IN  Done(i, rows, contents, [k \in DOMAIN mine |-> Inline(mine[k])])
    \/ j.fn = "list" /\ Done(i, rows, contents, SetToSeq({Item(r) : r \in {x \in rows : Matches(x, j.f)}}))
    \/ j.fn = "search" /\ Done(i, rows, contents, SetToSeq({Item(r) : r \in {x \in rows : Found(x, j.f)}}))

Serve ==
    /\ \E i \in DOMAIN jobs :
          \/ ServeCreate(jobs[i], i) \/ ServeLookUp(jobs[i], i) \/ ServeUpdate(jobs[i], i)
          \/ ServeTags(jobs[i], i) \/ ServeMeta(jobs[i], i) \/ ServeFail(jobs[i], i)
          \/ ServeDelete(jobs[i], i) \/ ServeContent(jobs[i], i) \/ ServeImage(jobs[i], i)
          \/ ServeLink(jobs[i], i) \/ ServeTag(jobs[i], i) \/ ServeRead(jobs[i], i)
    /\ UNCHANGED <<store, f, page, ed, insts, bounds, history>>

----------------------------------------------------------------------------
(* The list page.                                                          *)

(* fetchNotes: keys the page does not set stay as they were.               *)
Merged(new) ==
    [new EXCEPT !.type = IF @ = All THEN cur.type ELSE @,
                !.goal = IF @ = NoId THEN cur.goal ELSE @,
                !.tags = IF @ = {} THEN cur.tags ELSE @]

FetchJob(new) == [Job("list", 0, NoId) EXCEPT !.f = Merged(new)]
SearchJob(new) == [Job("search", 0, NoId) EXCEPT !.f = new]

(* The list page opens: its filters and its search are at their defaults.  *)
(* For who is there already, nothing happens.                              *)
ToList(rest) ==
    /\ page' = "list"
    /\ IF page = "list" THEN jobs' = rest /\ UNCHANGED <<f, results, ed, stale>>
       ELSE /\ jobs' = Append(rest, FetchJob(Filter))
            /\ f' = Filter /\ results' = {} /\ ed' = NoEditor
            /\ stale' = (rest # <<>>)

OnList == page = "list" /\ CanStart

(* The effects of the filters: fetch, and search again or clear.           *)
RefilterFreely(new) ==
    /\ OnList /\ new # f /\ f' = new
    /\ LET fetch == IF [new EXCEPT !.q = Empty] # [f EXCEPT !.q = Empty] THEN <<FetchJob(new)>> ELSE <<>>
           again == <<new.q, new.type, new.archived>> # <<f.q, f.type, f.archived>>
           search == IF again /\ new.q # Empty THEN <<SearchJob(new)>> ELSE <<>>
       IN  /\ jobs' = jobs \o fetch \o search
           /\ results' = IF again /\ new.q = Empty THEN {} ELSE results
           /\ stale' = (stale \/ jobs # <<>>)
    /\ UNCHANGED <<table, items, cache, cur, page, ed, insts, sent, visits, saved, unsure, half>>

Refilter(new) == RefilterFreely(new) /\ edits < MaxEdits /\ edits' = edits + 1

PickType == \E t \in Types \cup {All} : Refilter([f EXCEPT !.type = t])
PickFilterGoal == \E g \in Goals \cup {NoId} : Refilter([f EXCEPT !.goal = g])
ToggledTag(t) == IF t \in f.tags THEN f.tags \ {t} ELSE f.tags \cup {t}
NoTags == {}
PickFilterTags ==
    \E ts \in {ToggledTag(t) : t \in TagIds} \cup {NoTags} : Refilter([f EXCEPT !.tags = ts])
\* taking a filter back is no edit of its own
DropFilterTag ==
    /\ \E t \in f.tags : RefilterFreely([f EXCEPT !.tags = @ \ {t}])
    /\ UNCHANGED edits
ToggleArchived == Refilter([f EXCEPT !.archived = ~@])
TypeQuery == \E q \in Texts \cup {Empty} : Refilter([f EXCEPT !.q = q])

Displayed == IF f.q # Empty THEN results ELSE items

----------------------------------------------------------------------------
(* The editor opens.                                                       *)

Cached(id) == {r \in cache : r.id = id}

(* The effect that loads a note: its row, unless it is cached, and its     *)
(* contents.                                                               *)
LoadJobs(n, id) ==
    (IF Cached(id) = {} THEN <<Job("get", n, id)>> ELSE <<>>) \o <<Job("contents", n, id)>>

Fresh == visits + 1

(* Only the list page opens an editor, and so does a draft that is there   *)
(* when its editor is not.                                                 *)
Open(editor, refs, load, rest) ==
    /\ Fresh <= MaxVisits /\ visits' = Fresh
    /\ page' = "edit" /\ ed' = [editor EXCEPT !.n = Fresh]
    /\ insts' = Append(insts, refs)
    /\ jobs' = rest \o load
    /\ unsure' = (unsure \/ (load # <<>> /\ InFlight({"save", "delete", "archive"})))

(* (No editor is opened while a draft is being created: a bound.)          *)
OnItem ==
    /\ OnList /\ ~InFlight({"list"})
    /\ \A i \in DOMAIN jobs : jobs[i].fn = "paste" => jobs[i].step # "note"
    /\ UNCHANGED <<table, store, f, sent, edits, saved, stale, half>>

AtNote(id) == [NoEditor EXCEPT !.id = id, !.loading = TRUE]

OpenNote ==
    /\ OnItem
    /\ \E r \in Displayed :
          Open(AtNote(r.id), [NoRefs EXCEPT !.cur = r.id, !.note = Cached(r.id)],
               LoadJobs(Fresh, r.id), jobs)

OpenNew ==
    /\ OnItem
    /\ LET type == IF f.type = All THEN FirstType ELSE f.type
       IN  Open([NoEditor EXCEPT !.v = Value(type)], NoRefs, <<>>, jobs)

(* The first content of a kind; an empty one is as none.                   *)
FirstOf(seq, kind) == SelectSeq(seq, LAMBDA c : c.kind = kind)
IdIn(seq, kind) == IF FirstOf(seq, kind) = <<>> THEN NoId ELSE FirstOf(seq, kind)[1].id
BodyIn(seq, kind) == IF FirstOf(seq, kind) = <<>> THEN Blank ELSE FirstOf(seq, kind)[1].body

Loaded(r, seq) ==
    [Value(r.type) EXCEPT
       !.title = r.title, !.date = r.date, !.goal = r.goal, !.ms = r.ms, !.task = r.task,
       !.tags = r.tags, !.meta = r.meta,
       !.text = IF BodyIn(seq, "markdown") # Blank THEN BodyIn(seq, "markdown") ELSE r.text,
       !.on = [p \in Part |-> BodyIn(seq, p) # Blank],
       !.body = [p \in Part |-> BodyIn(seq, p)]]

KnownAs(r) == IF r.archived THEN "archived" ELSE "active"

(* Both answers are there: Promise.all.  (note holds the rows that came,   *)
(* contents the list that did.)                                            *)
Arrived(n, refs) ==
    LET ready == {r \in refs.note : refs.contents # <<>> /\ r.id = refs.contents[1].note}
        list == refs.contents[1].list
    IN  IF ready = {} THEN insts' = [insts EXCEPT ![n] = refs] /\ UNCHANGED ed
        ELSE \E r \in ready :
               /\ insts' = [insts EXCEPT ![n] = [refs EXCEPT !.ref = [k \in Kind |-> IdIn(list, k)],
                                                              !.contents = <<>>]]
               /\ ed' = IF Live /\ ed.n = n
                        THEN [ed EXCEPT !.loading = FALSE, !.known = KnownAs(r), !.v = Loaded(r, list)]
                        ELSE ed

----------------------------------------------------------------------------
(* The form.                                                               *)

Editing == Live /\ ~ed.loading

Edit(v) ==
    /\ Editing /\ More /\ edits < MaxEdits /\ edits' = edits + 1 /\ v # ed.v
    /\ ed' = [ed EXCEPT !.v = v]
    /\ UNCHANGED <<table, store, f, page, insts, jobs, sent, visits, history>>

PickNoteType ==
    /\ ed.id = NoId
    /\ \E t \in Types : Edit([ed.v EXCEPT !.type = t, !.meta = Empty])
TypeTitle == \E t \in Texts \cup {Empty} : Edit([ed.v EXCEPT !.title = t])
TypeText == \E t \in Texts \cup {Empty} : Edit([ed.v EXCEPT !.text.t = t])
PickDate == ed.v.type \in DateTypes /\ \E d \in Dates : Edit([ed.v EXCEPT !.date = d])
TogglePart == \E p \in Part : Edit([ed.v EXCEPT !.on[p] = ~@])
DrawDrawio ==
    ed.v.on["drawio"] /\ \E t \in Texts \cup Large : Edit([ed.v EXCEPT !.body["drawio"] = Body(t)])
DrawMindmap ==
    ed.v.on["mindmap"] /\ \E t \in Texts : Edit([ed.v EXCEPT !.body["mindmap"] = Body(t)])
Offered == TagIds \ ed.v.tags
AddTag == \E t \in Offered : Edit([ed.v EXCEPT !.tags = @ \cup {t}])
RemoveTag == \E t \in ed.v.tags : Edit([ed.v EXCEPT !.tags = @ \ {t}])
TypeField ==
    /\ ed.v.type \in FieldTypes
    /\ \E t \in Texts \cup {Empty} : Edit([ed.v EXCEPT !.meta = t])
PickGoal ==
    \E g \in Goals \cup {NoId} : Edit([ed.v EXCEPT !.goal = g, !.ms = NoId, !.task = NoId])
PickMilestone ==
    \E m \in {x \in Milestones : ed.v.goal \in {NoId, GoalOf[x]}} \cup {NoId} :
        Edit([ed.v EXCEPT !.ms = m, !.task = NoId])
PickTask ==
    \E t \in Tasks \cup {NoId} :
        /\ t # NoId => /\ ed.v.ms \in {NoId, MilestoneOf[t]}
                       /\ ed.v.goal \in {NoId, GoalOf[MilestoneOf[t]]} \/ ed.v.ms # NoId
        /\ Edit([ed.v EXCEPT !.task = t])

----------------------------------------------------------------------------
(* What the editor asks for.                                               *)

(* (What an image or a tag adds counts as a change of the form.)           *)
Start(j, editor) ==
    /\ IF j.fn \in {"paste", "tag"} THEN edits < MaxEdits /\ edits' = edits + 1
       ELSE UNCHANGED edits
    /\ CanStart /\ sent' = sent + 1
    /\ jobs' = Append(jobs, j) /\ ed' = editor
    /\ unsure' = (unsure \/ (j.fn \in Changing /\ InFlight(Changing \cup {"get", "contents"})))
    /\ stale' = (stale \/ InFlight({"list", "search"}))
    /\ saved' = IF j.fn \in Changing THEN [saved EXCEPT !.note = NoId] ELSE saved
    /\ UNCHANGED <<table, store, f, page, insts, visits, half>>

Filled(v) == v.type \in FieldTypes => v.meta # Empty
CanSave(v) ==
    /\ v.text # Blank /\ (v.type \in UntitledTypes \/ v.title # Empty)
    /\ v.type \in DateTypes => v.date # Empty
    /\ Filled(v)

(* handleSave: the note of the address, or the one created earlier.        *)
Save ==
    /\ Editing /\ CanSave(ed.v) /\ ~ed.saving
    /\ LET note == IF ed.id # NoId THEN ed.id ELSE insts[ed.n].cur
       IN  Start([Job("save", ed.n, note) EXCEPT !.v = ed.v], [ed EXCEPT !.saving = TRUE])

HasButtons == Editing /\ ed.id # NoId /\ ed.known # "none"
Delete == HasButtons /\ Start(Job("delete", ed.n, ed.id), ed)
Archive ==
    /\ HasButtons
    /\ Start([Job("archive", ed.n, ed.id) EXCEPT !.flag = ed.known # "archived"], ed)

(* handlePaste: the image is shown, and uploaded to the note, which is     *)
(* created first when there is none.                                       *)
PasteImage ==
    /\ Editing /\ ed.v.text.img = "none"
    /\ LET note == insts[ed.n].cur
           shown == [ed.v EXCEPT !.text.img = "data"]
       IN  Start([Job("paste", ed.n, note) EXCEPT
                    !.step = IF note = NoId THEN "note" ELSE "image", !.v = shown],
                 [ed EXCEPT !.v = shown])

CreateTag == Editing /\ Start([Job("tag", ed.n, NoId) EXCEPT !.v = ed.v], ed)

Close ==
    /\ Editing /\ More
    /\ ToList(jobs)
    /\ UNCHANGED <<table, items, cache, cur, insts, bounds, saved, unsure, half>>

----------------------------------------------------------------------------
(* Answers.                                                                *)

Rest(i) == RemoveAt(jobs, i)

Replace(set, r) == {IF x.id = r.id THEN r ELSE x : x \in set}

(* Mutant: the cache keeps the note as it was.                             *)
PutListed(r, new) ==
    /\ items' = IF new THEN items \cup {Item(r)} ELSE Replace(items, Item(r))
    /\ UNCHANGED cache
    /\ half' = [half EXCEPT !.changed = @ \ {r.id}]

(* createNote, updateNote and archiveNote of the store.                    *)
Put(r, new) ==
    /\ items' = IF new THEN items \cup {Item(r)} ELSE Replace(items, Item(r))
    /\ cache' = {x \in cache : x.id # r.id} \cup {r}
    /\ half' = [half EXCEPT !.changed = @ \ {r.id}]

CurAfter(refs, j) == IF j.note = NoId THEN [refs EXCEPT !.cur = j.answer[1].id] ELSE refs

RefAfter(refs, j) ==
    CASE j.cid = NoId -> [refs EXCEPT !.ref[j.step] = j.answer[1].id]
      [] j.cid # NoId /\ ~Wanted(j) -> [refs EXCEPT !.ref[j.step] = NoId]
      [] OTHER -> refs

(* The requests of a save that are still to be made.                       *)
After(step) ==
    CASE step = "note" -> <<"markdown", "drawio", "mindmap">>
      [] step = "markdown" -> <<"drawio", "mindmap">>
      [] step = "drawio" -> <<"mindmap">>
      [] OTHER -> <<>>

(* Mutant: nothing is done about a diagram that is switched off.           *)
ToDoOn(j, refs) == SelectSeq(After(j.step), LAMBDA k : k = "markdown" \/ j.v.on[k])

ToDo(j, refs) ==
    SelectSeq(After(j.step), LAMBDA k : k = "markdown" \/ j.v.on[k] \/ refs.ref[k] # NoId)

SaveStep(i) ==
    LET j == jobs[i]
        refs == IF j.step = "note" THEN CurAfter(insts[j.inst], j) ELSE RefAfter(insts[j.inst], j)
        note == IF j.note = NoId THEN j.answer[1].id ELSE j.note
        todo == ToDo(j, refs)
    IN  /\ j.fn = "save" /\ j.stage = "ok"
        /\ insts' = [insts EXCEPT ![j.inst] = refs]
        /\ IF j.step = "note" THEN Put(j.answer[1], j.note = NoId) ELSE UNCHANGED <<items, cache, half>>
        /\ IF todo # <<>>
           THEN /\ jobs' = [jobs EXCEPT ![i] = [j EXCEPT !.step = todo[1], !.note = note,
                                                         !.cid = refs.ref[todo[1]],
                                                         !.stage = "sent", !.answer = <<>>]]
                /\ UNCHANGED <<results, f, page, ed, saved, stale>>
           ELSE ToList(Rest(i)) /\ saved' = [note |-> note, v |-> j.v]
    /\ UNCHANGED <<table, cur, bounds, unsure>>

DeleteDone(i) ==
    LET j == jobs[i]
    IN  /\ j.fn = "delete" /\ j.stage = "ok"
        /\ items' = {r \in items : r.id # j.note}
        /\ cache' = {r \in cache : r.id # j.note}
        /\ ToList(Rest(i))
        /\ UNCHANGED <<table, cur, insts, bounds, saved, unsure, half>>

IsOpen(j) == Live /\ ed.n = j.inst

ArchiveDone(i) ==
    LET j == jobs[i]
    IN  /\ j.fn = "archive" /\ j.stage = "ok" /\ jobs' = Rest(i)
        /\ Put(j.answer[1], FALSE)
        /\ ed' = IF IsOpen(j) THEN [ed EXCEPT !.known = KnownAs(j.answer[1])] ELSE ed
        /\ UNCHANGED <<table, results, cur, f, page, insts, bounds, saved, unsure, stale>>

(* ensureNoteId: the editor goes to the address of the draft and loads it, *)
(* the text of the old one is what the upload will go on with.             *)
DraftDone(i) ==
    LET j == jobs[i]
        id == j.answer[1].id
        next == [j EXCEPT !.step = "image", !.note = id, !.stage = "sent", !.answer = <<>>,
                          !.flag = TRUE, !.v.text = IF IsOpen(j) THEN ed.v.text ELSE @]
        going == [jobs EXCEPT ![i] = next]
        kept == [insts EXCEPT ![j.inst].cur = id]
    IN  /\ j.fn = "paste" /\ j.step = "note" /\ j.stage = "ok"
        /\ items' = items \cup {Item(j.answer[1])} /\ cache' = cache \cup {j.answer[1]}
        /\ IF IsOpen(j)
           THEN /\ ed' = [ed EXCEPT !.id = id, !.loading = TRUE, !.known = "active"]
                /\ insts' = [kept EXCEPT ![j.inst].note = @ \cup ToSet(j.answer)]
                /\ jobs' = going \o <<Job("contents", j.inst, id)>>
                /\ unsure' = (unsure \/ InFlight({"save"}))
                /\ UNCHANGED <<page, visits>>
           ELSE /\ Fresh <= MaxVisits /\ visits' = Fresh
                /\ page' = "edit" /\ ed' = [AtNote(id) EXCEPT !.n = Fresh]
                /\ insts' = Append(kept, [NoRefs EXCEPT !.cur = id, !.note = ToSet(j.answer)])
                /\ jobs' = going \o <<Job("contents", Fresh, id)>>
                /\ unsure' = (unsure \/ InFlight({"save", "delete", "archive"}))
        /\ UNCHANGED <<table, results, cur, f, sent, edits, saved, stale, half>>

ImageDone(i) ==
    LET j == jobs[i]
    IN  /\ j.fn = "paste" /\ j.step = "image" /\ j.stage = "ok"
        /\ jobs' = [jobs EXCEPT ![i] = [j EXCEPT !.step = "link", !.stage = "sent", !.answer = <<>>]]
        /\ UNCHANGED <<table, store, f, page, ed, insts, bounds, history>>

(* The address takes the place of the image; the rest of the form becomes  *)
(* what it was when the image was pasted.                                  *)
LinkDone(i) ==
    LET j == jobs[i]
        doc == IF j.flag THEN j.v.text ELSE ed.v.text
    IN  /\ j.fn = "paste" /\ j.step = "link" /\ j.stage = "ok" /\ jobs' = Rest(i)
        /\ ed' = IF IsOpen(j)
                 THEN [ed EXCEPT !.v = [j.v EXCEPT !.text = [doc EXCEPT !.img = IF @ = "data" THEN "url" ELSE @]]]
                 ELSE ed
        /\ UNCHANGED <<table, store, f, page, insts, bounds, history>>

(* So it is when a tag was made for the note.                              *)
TagDone(i) ==
    LET j == jobs[i]
    IN  /\ j.fn = "tag" /\ j.stage = "ok" /\ jobs' = Rest(i)
        /\ ed' = IF IsOpen(j) THEN [ed EXCEPT !.v = [j.v EXCEPT !.tags = @ \cup {j.answer[1].id}]] ELSE ed
        /\ UNCHANGED <<table, store, f, page, insts, bounds, history>>

GetDone(i) ==
    LET j == jobs[i]
    IN  /\ j.fn = "get" /\ j.stage = "ok" /\ jobs' = Rest(i)
        /\ cache' = {x \in cache : x.id # j.note} \cup {j.answer[1]}
        /\ Arrived(j.inst, [insts[j.inst] EXCEPT !.note = @ \cup ToSet(j.answer)])
        /\ half' = [half EXCEPT !.changed = @ \ {j.note}]
        /\ UNCHANGED <<table, items, results, cur, f, page, bounds, saved, unsure, stale>>

(* fetchContents: without an answer the note has no contents.              *)
ContentsDone(i, ok) ==
    LET j == jobs[i]
    IN  /\ j.fn = "contents" /\ (ok => j.stage = "ok") /\ jobs' = Rest(i)
        /\ Arrived(j.inst, [insts[j.inst] EXCEPT !.contents =
                               <<[note |-> j.note, list |-> IF ok THEN j.answer ELSE <<>>]>>])
        /\ unsure' = (unsure \/ ~ok)
        /\ UNCHANGED <<table, store, f, page, bounds, saved, stale, half>>

ListDone(i) ==
    LET j == jobs[i]
    IN  /\ j.fn = "list" /\ j.stage = "ok" /\ jobs' = Rest(i)
        /\ items' = ToSet(j.answer) /\ cur' = [j.f EXCEPT !.q = Empty]
        /\ UNCHANGED <<table, cache, results, f, page, ed, insts, bounds, history>>

SearchDone(i) ==
    LET j == jobs[i]
    IN  /\ j.fn = "search" /\ j.stage = "ok" /\ jobs' = Rest(i)
        /\ results' = ToSet(j.answer)
        /\ UNCHANGED <<table, items, cache, cur, f, page, ed, insts, bounds, history>>

(* A request fails, or its answer is lost: what was shown stays, and a     *)
(* note that cannot be loaded is given up.                                 *)
Failed(i) ==
    LET j == jobs[i]
    IN  /\ j.fn # "contents"
        /\ IF j.fn = "get" THEN ToList(Rest(i))
           ELSE /\ jobs' = Rest(i)
                /\ ed' = IF j.fn = "save" /\ IsOpen(j) THEN [ed EXCEPT !.saving = FALSE] ELSE ed
                /\ stale' = (stale \/ j.fn \in {"list", "search"})
                /\ UNCHANGED <<results, f, page>>
        /\ unsure' = (unsure \/ (j.fn \in Changing /\ j.stage \notin {"sent", "refused", "error"}))
        /\ half' = IF j.stage # "error" THEN half
                   ELSE IF j.note = NoId THEN [half EXCEPT !.made = @ \cup {j.answer[1].id}]
                   ELSE [half EXCEPT !.changed = @ \cup {j.note}]
        /\ UNCHANGED <<table, items, cache, cur, insts, bounds, saved>>

Answer ==
    \E i \in DOMAIN jobs :
        \/ SaveStep(i) \/ DeleteDone(i) \/ ArchiveDone(i)
        \/ DraftDone(i) \/ ImageDone(i) \/ LinkDone(i) \/ TagDone(i)
        \/ GetDone(i) \/ ContentsDone(i, TRUE) \/ ContentsDone(i, FALSE)
        \/ ListDone(i) \/ SearchDone(i) \/ Failed(i)

----------------------------------------------------------------------------
Init ==
    /\ rows = OldRows /\ contents = OldContents
    /\ f = Filter /\ cur = Filter
    /\ items = {Item(r) : r \in {x \in OldRows : Matches(x, Filter)}}
    /\ cache = {} /\ results = {}
    /\ page = "list" /\ ed = NoEditor /\ insts = <<>> /\ jobs = <<>>
    /\ sent = 0 /\ edits = 0 /\ visits = 0
    /\ saved = [note |-> NoId, v |-> Value(FirstType)] /\ unsure = FALSE /\ stale = FALSE
    /\ half = [made |-> {}, changed |-> {}]

Filters ==
    PickType \/ PickFilterGoal \/ PickFilterTags \/ DropFilterTag \/ ToggleArchived \/ TypeQuery

Form ==
    \/ PickNoteType \/ TypeTitle \/ TypeText \/ PickDate \/ TogglePart \/ DrawDrawio \/ DrawMindmap
    \/ AddTag \/ RemoveTag \/ TypeField \/ PickGoal \/ PickMilestone \/ PickTask

Buttons == Save \/ Delete \/ Archive \/ PasteImage \/ CreateTag \/ Close

Next == Filters \/ OpenNote \/ OpenNew \/ Form \/ Buttons \/ Serve \/ Answer

Spec == Init /\ [][Next]_vars

----------------------------------------------------------------------------
BeingMade(r) == \E i \in DOMAIN jobs : jobs[i].stage \in {"tags", "meta", "error"} /\ jobs[i].answer[1].id = r.id

TypeOK ==
    /\ page \in {"list", "edit"} /\ (page = "list") = (ed = NoEditor)
    /\ \A r \in rows : /\ r.type \in Types /\ DayFree(r)
                       /\ Valid(r) \/ r.id \in half.made \/ BeingMade(r)
    /\ \A i \in DOMAIN contents : Exists(contents[i].note) /\ contents[i].kind \in Kind \cup {"image"}
    /\ \A i \in DOMAIN jobs :
          /\ jobs[i].stage \in {"sent", "row", "tags", "meta", "ok", "refused", "error"}
          /\ jobs[i].inst \in 0..visits
    /\ Live => ed.n = visits /\ (ed.saving => \E i \in DOMAIN jobs : jobs[i].fn = "save" /\ jobs[i].inst = ed.n)
    /\ sent \in 0..MaxRequests /\ edits \in 0..MaxEdits /\ visits = Len(insts)

Of(note, kind) == SelectSeq(contents, LAMBDA c : c.note = note /\ c.kind = kind)

(* When the page says that a note was saved, the note and its contents are *)
(* what the form showed, also when the save was tried before and stopped   *)
(* after some of its requests (handleSave); but what was emptied is not,   *)
(* and nothing is said once an answer was lost or two changes overlapped.  *)
SavedIsShown ==
    saved.note # NoId /\ ~unsure =>
        LET r == TheRow(saved.note)
            v == saved.v
        IN  /\ r.text = v.text /\ r.tags = v.tags
            /\ v.title \in {r.title, Empty} /\ v.date \in {r.date, Empty} /\ v.meta \in {r.meta, Empty}
            /\ v.goal \in {r.goal, NoId} /\ v.ms \in {r.ms, NoId} /\ v.task \in {r.task, NoId}
            /\ \A k \in Kind :
                  LET c == Of(saved.note, k)
                  IN  IF k = "markdown" \/ v.on[k]
                      THEN Len(c) = 1 /\ c[1].body = (IF k = "markdown" THEN v.text ELSE v.body[k])
                      ELSE c = <<>>

(* One editor makes one note, and a note has one text and one diagram of a *)
(* kind, however often its save fails and is tried again (the refs of      *)
(* N02NoteEdit), unless an answer was lost or two changes overlapped; only *)
(* a note whose creation failed after its row is left behind by the next.  *)
OneOfAKind == \A r \in rows : \A k \in Kind : Len(Of(r.id, k)) <= 1
MadeOnce(made) == \A r, s \in made : r.by = s.by /\ r.by # 0 => r = s

NoTwins ==
    ~unsure => OneOfAKind /\ MadeOnce({r \in rows : r.id \notin half.made /\ ~BeingMade(r)})

(* A note that was saved is stored as it was shown, and stored once.       *)
SavedOnce == SavedIsShown /\ NoTwins

(* The cached notes, which are never fetched again, are as they are        *)
(* stored, and the list and the search show the notes that match what was  *)
(* asked for, where the filters on the page say the same or nothing        *)
(* (useNoteStore), unless answers were lost or could have been overtaken.  *)
(* A note whose last update failed after its row is cached as it was.      *)
StoreTrue ==
    ~unsure /\ ~InFlight(Changing) =>
        /\ {r \in cache : r.id \notin half.changed} \subseteq rows
        /\ page = "list" /\ ~stale /\ ~InFlight({"list", "search"}) =>
              /\ items = {Item(r) : r \in {x \in rows : Matches(x, cur)}}
              /\ f.type \in {All, cur.type} /\ f.goal \in {NoId, cur.goal}
              /\ f.tags \in {{}, cur.tags} /\ f.archived = cur.archived
              /\ f.q # Empty => results = {Item(r) : r \in {x \in rows : Found(x, f)}}

(* With no filter chosen, all notes are listed: "すべて" and               *)
(* "すべての目標" of the list page (N01NoteList).                          *)
AllListed ==
    page = "list" /\ ~stale /\ ~unsure /\ jobs = <<>> /\ f = Filter =>
        {r.id : r \in {x \in rows : ~x.archived}} \subseteq {r.id : r \in items}

(* A save that failed and was tried again makes one note: what the comment *)
(* of the refs asks for, without the exception of NoTwins.                 *)
RetriedMakesOne == ~unsure => MadeOnce(rows)

(* The same for the cache, without the exception of StoreTrue.             *)
CacheTrue == ~unsure /\ ~InFlight(Changing) => cache \subseteq rows

(* Nothing that was drawn is deleted from a note that stays before         *)
(* anything was changed in a form (handleSave deletes what was switched    *)
(* off).                                                                   *)
UntouchedStays ==
    [][\A i \in DOMAIN contents :
         edits = 0 /\ contents[i].kind \in Part /\ contents[i].body # Blank
         /\ contents[i].note \in {r.id : r \in rows'}
            => contents[i] \in ToSet(contents')]_vars
=============================================================================

------------------------- MODULE TimerService_proofs -------------------------
(***************************************************************************)
(* For any number of requests and renames: the types of TimerService, that *)
(* requests which do not overlap lose no tracked time and keep the task    *)
(* names in sync, that they record no time twice unless one of them fails, *)
(* and that only a recorded stop ends a running timer.                     *)
(***************************************************************************)
EXTENDS TimerService, TLAPS

\* A request is at a call of its own kind, and one about to make an entry
\* has read a timer.
CallOK ==
  \A r \in Req :
    /\ pc[r] = "insert" => kind[r] = "start"
    /\ pc[r] \in {"read", "entry", "delete"} => kind[r] = "stop"
    /\ pc[r] = "entry" => seen[r] # None

\* A request about to delete has made its entry.
EntryBeforeDelete ==
  \A r \in Req : pc[r] = "delete" => \E e \in entries : e.stop = r

\* What holds under any overlap.
Local == TypeOK /\ CallOK /\ EntryBeforeDelete

\* Without overlaps one request is in flight, what it read still holds, and
\* the timer it is about to delete is recorded.
Alone ==
  ~overlapped =>
    /\ \A q, r \in Req : InFlight(q) /\ InFlight(r) => q = r
    /\ \A r \in Req :
         /\ InFlight(r) /\ kind[r] = "start" => input[r] = taskName
         /\ pc[r] = "entry" => seen[r] = timer /\ seenName[r] = taskName
         /\ pc[r] = "delete" => Recorded(timer)

LEMMA InitLocal == Init => Local
<1> SUFFICES ASSUME Init PROVE Local
  OBVIOUS
<1> USE NoneAssumption, RenameAssumption DEF Init
<1>1. TypeOK
  <2>1. 0 \in Name /\ None \in Req \cup {None}
    BY DEF Name
  <2>2. "unused" \in Ended \cup Calls \cup {"unused"} /\ FALSE \in BOOLEAN
    OBVIOUS
  <2> QED
    BY <2>1, <2>2 DEF TypeOK
<1>2. CallOK /\ EntryBeforeDelete
  BY DEF CallOK, EntryBeforeDelete
<1> QED
  BY <1>1, <1>2 DEF Local

\* Every step keeps the types, the calls and the order of entry and delete.
LEMMA NextLocal == Local /\ [Next]_vars => Local'
<1> SUFFICES ASSUME Local, [Next]_vars PROVE Local'
  OBVIOUS
<1> USE NoneAssumption, RenameAssumption
<1> USE DEF Local, TypeOK, CallOK, EntryBeforeDelete, Ended, Calls, Name, Goto, InFlight,
            requestVars, dbVars
<1>1. ASSUME NEW r \in Req, NEW k \in {"start", "stop"}, Send(r, k) PROVE Local'
  BY <1>1 DEF Send
<1>2. ASSUME NEW r \in Req, StartCheck(r) PROVE Local'
  BY <1>2 DEF StartCheck
<1>3. ASSUME NEW r \in Req, StartInsert(r) PROVE Local'
  BY <1>3 DEF StartInsert
<1>4. ASSUME NEW r \in Req, StopCheck(r) PROVE Local'
  BY <1>4 DEF StopCheck
<1>5. ASSUME NEW r \in Req, StopRead(r) PROVE Local'
  BY <1>5 DEF StopRead
<1>6. ASSUME NEW r \in Req, StopEntry(r) PROVE Local'
  <2> DEFINE x == [stop |-> r, timer |-> seen[r], name |-> seenName[r]]
  <2>0. seen[r] \in Req /\ seenName[r] \in Name
    <3>1. pc[r] = "entry"
      BY <1>6 DEF StopEntry
    <3>2. seen[r] # None
      BY <3>1
    <3> QED
      BY <3>2
  <2>1. x \in Entry /\ x.stop = r
    BY <2>0 DEF Entry
  <2>2. entries' = entries \cup {x}
    BY <1>6 DEF StopEntry
  <2>3. TypeOK'
    BY <1>6, <2>1, <2>2 DEF StopEntry
  <2>4. CallOK'
    BY <1>6 DEF StopEntry
  <2>5. EntryBeforeDelete'
    BY <1>6, <2>1, <2>2 DEF StopEntry
  <2> QED
    BY <2>3, <2>4, <2>5
<1>7. ASSUME NEW r \in Req, StopDelete(r) PROVE Local'
  BY <1>7 DEF StopDelete
<1>8. ASSUME NEW r \in Req, Abort(r) PROVE Local'
  BY <1>8 DEF Abort
<1>9. CASE Rename
  <2>1. taskName' \in Name /\ timerName' \in Name
    BY <1>9 DEF Rename
  <2>2. entries' = {[e EXCEPT !.name = taskName'] : e \in entries}
    BY <1>9 DEF Rename
  <2>3. entries' \subseteq Entry
    BY <2>1, <2>2 DEF Entry
  <2>4. TypeOK' /\ CallOK'
    BY <1>9, <2>1, <2>3 DEF Rename
  <2>5. EntryBeforeDelete'
    <3> SUFFICES ASSUME NEW r \in Req, pc[r] = "delete"
                 PROVE  \E e \in entries' : e.stop = r
      BY <1>9 DEF Rename
    <3>1. PICK e \in entries : e.stop = r
      OBVIOUS
    <3>2. e \in Entry /\ [e EXCEPT !.name = taskName'].stop = r
      BY <3>1 DEF Entry
    <3> QED
      BY <2>2, <3>2
  <2> QED
    BY <2>4, <2>5
<1>10. CASE UNCHANGED vars
  BY <1>10 DEF vars
<1> QED
  BY <1>1, <1>2, <1>3, <1>4, <1>5, <1>6, <1>7, <1>8, <1>9, <1>10
  DEF Next, StartTimer, StopTimer

\* Every variable of the model keeps its type.
THEOREM TypeCorrect == Spec => []TypeOK
<1>1. Local => TypeOK
  BY DEF Local
<1> QED
  BY InitLocal, NextLocal, <1>1, PTL DEF Spec

\* Under any overlap only a stop request that has made its entry ends the
\* running timer, and nothing replaces it.
THEOREM TimersEndByStop == Spec => OnlyStopEnds
<1> DEFINE Ends == timer # None /\ timer' # timer =>
             timer' = None /\ \E e \in entries : pc[e.stop] = "delete" /\ pc'[e.stop] = "ok"
<1>1. Local /\ [Next]_vars => Ends
  <2> SUFFICES ASSUME Local, [Next]_vars, timer # None, timer' # timer
               PROVE  timer' = None /\ \E e \in entries : pc[e.stop] = "delete" /\ pc'[e.stop] = "ok"
    OBVIOUS
  <2>1. PICK r \in Req : StartInsert(r) \/ StopDelete(r)
    BY DEF Next, StartTimer, StopTimer, Send, StartCheck, StopCheck, StopRead, StopEntry,
           Abort, Rename, vars, dbVars
  <2>2. StopDelete(r)
    BY <2>1 DEF StartInsert
  <2>3. PICK e \in entries : e.stop = r
    BY <2>2 DEF Local, EntryBeforeDelete, StopDelete
  <2> QED
    BY <2>2, <2>3 DEF StopDelete, Goto, Local, TypeOK
<1> QED
  BY InitLocal, NextLocal, <1>1, PTL DEF Spec, OnlyStopEnds

-----------------------------------------------------------------------------
\* The inductive invariant behind NothingLost and NamesInSync.
IInv == Local /\ Alone /\ NothingLost /\ NamesInSync

LEMMA InitIInv == Init => IInv
<1>1. Init => Alone /\ NothingLost /\ NamesInSync
  BY DEF Init, Alone, NothingLost, NamesInSync, Started, InFlight, Calls
<1> QED
  BY <1>1, InitLocal DEF IInv

\* A step that leaves the database and the names alone, and moves one request
\* in flight to a call or an end that claims nothing new, keeps IInv.
LEMMA NextIInv == IInv /\ [Next]_vars => IInv'
<1> SUFFICES ASSUME IInv, [Next]_vars PROVE Alone' /\ NothingLost' /\ NamesInSync'
  BY NextLocal DEF IInv
<1> USE NoneAssumption, RenameAssumption
<1> USE DEF IInv, Local, TypeOK, CallOK, Alone, NothingLost, NamesInSync, Started, Recorded,
            Ended, Calls, Goto, InFlight, requestVars, dbVars
<1>1. ASSUME NEW r \in Req, NEW k \in {"start", "stop"}, Send(r, k)
      PROVE  Alone' /\ NothingLost' /\ NamesInSync'
  <2>1. UNCHANGED <<timer, timerName, entries, taskName>>
    BY <1>1 DEF Send
  <2>2. NothingLost' /\ NamesInSync'
    BY <1>1, <2>1 DEF Send
  <2>3. /\ pc' = [pc EXCEPT ![r] = "check"] /\ input'[r] = taskName
        /\ ~overlapped' => \A q \in Req : ~InFlight(q)
    BY <1>1 DEF Send
  <2>4. Alone'
    BY <2>1, <2>3
  <2> QED
    BY <2>2, <2>4
<1>2. ASSUME NEW r \in Req, StartCheck(r) PROVE Alone' /\ NothingLost' /\ NamesInSync'
  BY <1>2 DEF StartCheck
<1>3. ASSUME NEW r \in Req, StartInsert(r) PROVE Alone' /\ NothingLost' /\ NamesInSync'
  <2>1. CASE timer = None
    <3>1. Alone'
      BY <1>3, <2>1 DEF StartInsert
    <3>2. NothingLost'
      BY <1>3, <2>1 DEF StartInsert
    <3>3. NamesInSync'
      <4>1. ~overlapped => input[r] = taskName
        BY <1>3 DEF StartInsert
      <4>2. timerName' = input[r] /\ UNCHANGED <<entries, taskName, overlapped>>
        BY <1>3, <2>1 DEF StartInsert
      <4> QED
        BY <4>1, <4>2
    <3> QED
      BY <3>1, <3>2, <3>3
  <2>2. CASE timer # None
    BY <1>3, <2>2 DEF StartInsert
  <2> QED
    BY <2>1, <2>2
<1>4. ASSUME NEW r \in Req, StopCheck(r) PROVE Alone' /\ NothingLost' /\ NamesInSync'
  BY <1>4 DEF StopCheck
<1>5. ASSUME NEW r \in Req, StopRead(r) PROVE Alone' /\ NothingLost' /\ NamesInSync'
  BY <1>5 DEF StopRead
<1>6. ASSUME NEW r \in Req, StopEntry(r) PROVE Alone' /\ NothingLost' /\ NamesInSync'
  <2> DEFINE x == [stop |-> r, timer |-> seen[r], name |-> seenName[r]]
  <2>1. entries' = entries \cup {x} /\ x.timer = seen[r] /\ x.name = seenName[r]
    BY <1>6 DEF StopEntry
  <2>2. \A t \in Req \cup {None} : Recorded(t) => Recorded(t)'
    BY <2>1
  <2>3. Recorded(seen[r])'
    BY <1>6, <2>1 DEF StopEntry
  <2> HIDE DEF Recorded
  <2>4. Alone'
    BY <1>6, <2>2, <2>3 DEF StopEntry
  <2>5. NothingLost'
    BY <1>6, <2>2 DEF StopEntry
  <2>6. NamesInSync'
    BY <1>6, <2>1 DEF StopEntry
  <2> QED
    BY <2>4, <2>5, <2>6
<1>7. ASSUME NEW r \in Req, StopDelete(r) PROVE Alone' /\ NothingLost' /\ NamesInSync'
  <2>1. Alone'
    BY <1>7 DEF StopDelete
  <2>2. NothingLost'
    <3>1. ~overlapped => Recorded(timer)
      BY <1>7 DEF StopDelete
    <3>2. UNCHANGED <<entries, overlapped, kind>> /\ Started' \subseteq Started
      BY <1>7 DEF StopDelete
    <3> QED
      BY <3>1, <3>2
  <2>3. NamesInSync'
    BY <1>7 DEF StopDelete
  <2> QED
    BY <2>1, <2>2, <2>3
<1>8. ASSUME NEW r \in Req, Abort(r) PROVE Alone' /\ NothingLost' /\ NamesInSync'
  BY <1>8 DEF Abort
<1>9. CASE Rename
  <2>1. entries' = {[e EXCEPT !.name = taskName'] : e \in entries}
    BY <1>9 DEF Rename
  <2>2. \A e \in entries' : e.name = taskName'
    BY <2>1 DEF Entry
  <2>3. \A t \in Req \cup {None} : Recorded(t) => Recorded(t)'
    <3> SUFFICES ASSUME NEW t \in Req \cup {None}, NEW e \in entries, e.timer = t
                 PROVE  \E d \in entries' : d.timer = t
      OBVIOUS
    <3>1. [e EXCEPT !.name = taskName'] \in entries'
      BY <2>1
    <3>2. [e EXCEPT !.name = taskName'].timer = t
      BY DEF Entry
    <3> QED
      BY <3>1, <3>2
  <2> HIDE DEF Recorded
  <2>4. Alone'
    BY <1>9 DEF Rename
  <2>5. NothingLost'
    BY <1>9, <2>3 DEF Rename
  <2>6. NamesInSync'
    BY <1>9, <2>2 DEF Rename
  <2> QED
    BY <2>4, <2>5, <2>6
<1>10. CASE UNCHANGED vars
  BY <1>10 DEF vars
<1> QED
  BY <1>1, <1>2, <1>3, <1>4, <1>5, <1>6, <1>7, <1>8, <1>9, <1>10
  DEF Next, StartTimer, StopTimer

-----------------------------------------------------------------------------
\* The inductive invariant behind OneEntry: until a request fails, only timers
\* that were started have entries, and the running one only has the entry of
\* the stop request that is about to delete it.
Calm == ~overlapped /\ \A r \in Req : pc[r] # "failed"

OnceInv ==
  Calm =>
    /\ \A d, e \in entries : d.timer = e.timer => d = e
    /\ \A e \in entries : pc[e.timer] = "ok"
    /\ \A e \in entries : e.timer = timer => pc[e.stop] = "delete"
    /\ timer # None => pc[timer] = "ok"

LEMMA InitOnce == Init => OnceInv
BY DEF Init, OnceInv

\* A step that adds no entry and keeps the timer and the deletes that are due.
LEMMA QuietOnce ==
  ASSUME TypeOK, OnceInv, UNCHANGED <<entries, timer>>, Calm' => Calm,
         \A r \in Req : pc[r] \in {"ok", "delete"} => pc'[r] = pc[r]
  PROVE  OnceInv'
BY NoneAssumption DEF OnceInv, TypeOK, Entry

LEMMA NextOnce == IInv /\ OnceInv /\ [Next]_vars => OnceInv'
<1> SUFFICES ASSUME IInv, OnceInv, [Next]_vars PROVE OnceInv'
  OBVIOUS
<1> USE NoneAssumption, RenameAssumption
<1> USE DEF IInv, Local, TypeOK, CallOK, Ended, Calls, Goto, InFlight, requestVars, dbVars
<1>1. ASSUME NEW r \in Req, NEW k \in {"start", "stop"}, Send(r, k) PROVE OnceInv'
  BY <1>1, QuietOnce DEF Send, Calm
<1>2. ASSUME NEW r \in Req, StartCheck(r) PROVE OnceInv'
  BY <1>2, QuietOnce DEF StartCheck, Calm
<1>3. ASSUME NEW r \in Req, StartInsert(r) PROVE OnceInv'
  <2>1. CASE timer = None
    <3>1. SUFFICES ASSUME Calm' PROVE OnceInv'
      BY DEF OnceInv
    <3>2. Calm
      BY <1>3, <2>1, <3>1 DEF StartInsert, Calm
    <3>3. UNCHANGED entries /\ timer' = r /\ pc' = [pc EXCEPT ![r] = "ok"] /\ pc[r] = "insert"
      BY <1>3, <2>1 DEF StartInsert
    <3>4. \A e \in entries : e.timer # r /\ e.timer \in Req /\ pc'[e.timer] = "ok"
      BY <3>2, <3>3 DEF OnceInv, Entry
    <3> QED
      BY <3>2, <3>3, <3>4 DEF OnceInv
  <2>2. CASE timer # None
    BY <1>3, <2>2, QuietOnce DEF StartInsert, Calm
  <2> QED
    BY <2>1, <2>2
<1>4. ASSUME NEW r \in Req, StopCheck(r) PROVE OnceInv'
  BY <1>4, QuietOnce DEF StopCheck, Calm
<1>5. ASSUME NEW r \in Req, StopRead(r) PROVE OnceInv'
  BY <1>5, QuietOnce DEF StopRead, Calm
<1>6. ASSUME NEW r \in Req, StopEntry(r) PROVE OnceInv'
  <2> DEFINE x == [stop |-> r, timer |-> seen[r], name |-> seenName[r]]
  <2>1. SUFFICES ASSUME Calm' PROVE OnceInv'
    BY DEF OnceInv
  <2>2. Calm
    BY <1>6, <2>1 DEF StopEntry, Calm
  <2>3. pc[r] = "entry" /\ seen[r] = timer /\ timer # None
    BY <1>6, <2>2 DEF StopEntry, Alone, Calm
  <2>4. entries' = entries \cup {x} /\ timer' = timer /\ pc' = [pc EXCEPT ![r] = "delete"]
    BY <1>6 DEF StopEntry
  <2>5. \A q \in Req : pc[q] # "delete"
    BY <2>2, <2>3 DEF Alone, Calm
  <2>6. \A e \in entries : e.timer # timer /\ e.timer \in Req /\ e.stop \in Req
    BY <2>2, <2>5 DEF OnceInv, Entry
  <2>7. x.timer = timer /\ x.stop = r
    BY <2>3
  <2> HIDE DEF x
  <2> QED
    BY <2>2, <2>3, <2>4, <2>6, <2>7 DEF OnceInv
<1>7. ASSUME NEW r \in Req, StopDelete(r) PROVE OnceInv'
  <2>1. SUFFICES ASSUME Calm' PROVE OnceInv'
    BY DEF OnceInv
  <2>2. Calm
    BY <1>7, <2>1 DEF StopDelete, Calm
  <2>3. UNCHANGED entries /\ timer' = None /\ pc' = [pc EXCEPT ![r] = "ok"]
    BY <1>7 DEF StopDelete
  <2>4. \A e \in entries : e.timer \in Req
    BY DEF Entry
  <2> QED
    BY <2>2, <2>3, <2>4 DEF OnceInv
<1>8. ASSUME NEW r \in Req, Abort(r) PROVE OnceInv'
  <2>1. ~Calm'
    BY <1>8 DEF Abort, Calm
  <2> QED
    BY <2>1 DEF OnceInv
<1>9. CASE Rename
  <2>1. SUFFICES ASSUME Calm' PROVE OnceInv'
    BY DEF OnceInv
  <2>2. Calm
    BY <1>9, <2>1 DEF Rename, Calm
  <2>3. UNCHANGED <<pc, timer>>
    BY <1>9 DEF Rename
  <2>4. entries' = {[e EXCEPT !.name = taskName'] : e \in entries}
    BY <1>9 DEF Rename
  <2>5. ASSUME NEW d \in entries'
        PROVE  \E e \in entries : /\ d = [e EXCEPT !.name = taskName']
                                  /\ d.timer = e.timer /\ d.stop = e.stop
    BY <2>4, <2>5 DEF Entry
  <2> QED
    BY <2>2, <2>3, <2>5 DEF OnceInv
<1>10. CASE UNCHANGED vars
  BY <1>10, QuietOnce DEF vars, Calm
<1> QED
  BY <1>1, <1>2, <1>3, <1>4, <1>5, <1>6, <1>7, <1>8, <1>9, <1>10
  DEF Next, StartTimer, StopTimer

\* Requests that do not overlap lose no tracked time, whichever of them fails
\* half way, and leave every copy of the task's name current; and as long as
\* none of them fails, no time is recorded twice.
THEOREM NoTimeLost == Spec => []TimeKept
<1>1. IInv /\ OnceInv => TimeKept
  BY DEF IInv, OnceInv, Calm, TimeKept, OneEntry
<1> QED
  BY InitIInv, NextIInv, InitOnce, NextOnce, <1>1, PTL DEF Spec
=============================================================================

----------------------- MODULE AgentConversation_proofs -----------------------
(***************************************************************************)
(* For every set of requests and actions and every fault allowed: the type *)
(* invariant of AgentConversation, that only approved actions of a         *)
(* proposal of the same conversation are ever applied, and that what was   *)
(* decided stays decided.  For a tab that waits for its answers: that the  *)
(* history tells the truth, and that ApprovalFlow is implemented.          *)
(***************************************************************************)
EXTENDS AgentConversation, TLAPS

\* A record of verdicts on known actions is a set of verdicts.
LEMMA VerdictsType ==
  ASSUME NEW S \in SUBSET Action,
         NEW v \in {"discarded", "rejected", "executed", "failed"}
  PROVE  Verdicts(S, v) \in SUBSET Verdict
BY DEF Verdicts, Verdict

\* ConversationStore.get and set keep the types of the store.
LEMMA StoreType ==
  ASSUME TypeOK, NEW k \in Req \cup {None}
  PROVE  /\ Lookup(k) \in Req \cup {None}
         /\ Lookup(k) # None => k \in Req /\ Lookup(k) = store[k]
         /\ AfterGet(k) \in [Req -> Req \cup {None}]
         /\ AfterGetLapsed(k) \in [Req -> BOOLEAN]
         /\ \A o \in Req \cup {None} :
              Put(k, o) => store' \in [Req -> Req \cup {None}] /\ lapsed' \in [Req -> BOOLEAN]
<1> USE NoneAssumption DEF TypeOK
<1>1. /\ Lookup(k) \in Req \cup {None}
      /\ Lookup(k) # None => k \in Req /\ Lookup(k) = store[k]
  BY DEF Lookup
<1>2. AfterGet(k) \in [Req -> Req \cup {None}]
  BY DEF AfterGet
<1>3. AfterGetLapsed(k) \in [Req -> BOOLEAN]
  BY DEF AfterGetLapsed
<1>4. ASSUME NEW o \in Req \cup {None}, Put(k, o)
      PROVE  store' \in [Req -> Req \cup {None}] /\ lapsed' \in [Req -> BOOLEAN]
  BY <1>4 DEF Put
<1> QED
  BY <1>1, <1>2, <1>3, <1>4

LEMMA InitType == Init => TypeOK
<1> SUFFICES ASSUME Init PROVE TypeOK
  OBVIOUS
<1> USE DEF Init
<1>1. conv \in Req \cup {None} /\ current \in Req \cup {None}
  OBVIOUS
<1>2. busy \in BOOLEAN /\ shown \in BOOLEAN /\ cards \subseteq SUBSET Action
  OBVIOUS
<1>3. pc \in [Req -> Place] /\ kind \in [Req -> Kind]
  BY DEF Place, Kind
<1>4. /\ key \in [Req -> Req \cup {None}] /\ obj \in [Req -> Req \cup {None}]
      /\ store \in [Req -> Req \cup {None}] /\ lapsed \in [Req -> BOOLEAN]
  OBVIOUS
<1>5. /\ ids \in [Req -> SUBSET Action] /\ found \in [Req -> SUBSET Action]
      /\ approved \in [Req -> SUBSET Action] /\ todo \in [Req -> SUBSET Action]
      /\ refused \in [Req -> SUBSET Action] /\ succeeded \in [Req -> SUBSET Action]
      /\ pending \in [Req -> SUBSET Action]
  OBVIOUS
<1>6. history \in [Req -> SUBSET Verdict]
  OBVIOUS
<1>7. /\ listening \subseteq Req /\ minted \subseteq Action
      /\ ran \subseteq Req \X Action /\ faults \in 0..MaxFaults
  BY FaultAssumption
<1> QED
  BY <1>1, <1>2, <1>3, <1>4, <1>5, <1>6, <1>7 DEF TypeOK

LEMMA NextType == TypeOK /\ [Next]_vars => TypeOK'
<1> SUFFICES ASSUME TypeOK, [Next]_vars PROVE TypeOK'
  OBVIOUS
<1> USE NoneAssumption, FaultAssumption
<1> USE DEF TypeOK, Place, Kind, Fault, Serving, StopReading,
            clientVars, requestVars, serverVars
<1>1. ASSUME NEW r \in Req, SendMessage(r) PROVE TypeOK'
  BY <1>1 DEF SendMessage, Send
<1>2. ASSUME NEW r \in Req, HandleApprove(r) PROVE TypeOK'
  <2>1. PICK card \in cards : \E S \in (SUBSET card) \ {{}} : Send(r, "approve", S)
    BY <1>2 DEF HandleApprove
  <2>2. PICK S \in (SUBSET card) \ {{}} : Send(r, "approve", S)
    BY <2>1
  <2>3. S \subseteq Action
    OBVIOUS
  <2> QED BY <1>2, <2>2, <2>3 DEF HandleApprove, Send
<1>3. ASSUME NEW r \in Req, HandleReject(r) PROVE TypeOK'
  BY <1>3 DEF HandleReject, Send
<1>4. ASSUME NEW r \in Req, BeginStream(r) PROVE TypeOK'
  <2> DEFINE k == IF key[r] = None THEN r ELSE key[r]
             o == IF Lookup(k) = None THEN r ELSE Lookup(k)
  <2>1. k \in Req /\ o \in Req
    BY StoreType
  <2>2. /\ pc' \in [Req -> Place] /\ key' \in [Req -> Req \cup {None}]
        /\ obj' \in [Req -> Req \cup {None}]
    BY <1>4, <2>1 DEF BeginStream
  <2>3. /\ store' \in [Req -> Req \cup {None}] /\ lapsed' \in [Req -> BOOLEAN]
    BY <1>4, <2>1, StoreType DEF BeginStream
  <2>4. history' \in [Req -> SUBSET Verdict]
    BY <1>4, <2>1, VerdictsType DEF BeginStream
  <2>5. pending' \in [Req -> SUBSET Action]
    BY <1>4, <2>1 DEF BeginStream
  <2> QED
    BY <1>4, <2>2, <2>3, <2>4, <2>5 DEF BeginStream
<1>5. ASSUME NEW r \in Req, AgentDone(r) PROVE TypeOK'
  <2>1. PICK S \in SUBSET (Action \ minted) :
          /\ found' = [found EXCEPT ![r] = S]
          /\ minted' = minted \cup S
          /\ IF S # {} /\ r \in listening
               THEN shown' = TRUE /\ cards' = cards \cup {S}
               ELSE UNCHANGED <<shown, cards>>
    BY <1>5 DEF AgentDone
  <2>2. S \in SUBSET Action
    OBVIOUS
  <2>3. found' \in [Req -> SUBSET Action] /\ minted' \subseteq Action
    BY <2>1, <2>2
  <2>4. shown' \in BOOLEAN /\ cards' \subseteq SUBSET Action
    <3>1. CASE S # {} /\ r \in listening
      <4>1. shown' = TRUE /\ cards' = cards \cup {S}
        BY <2>1, <3>1
      <4>2. cards \cup {S} \subseteq SUBSET Action
        BY <2>2
      <4> QED
        BY <4>1, <4>2
    <3>2. CASE ~(S # {} /\ r \in listening)
      <4>1. UNCHANGED <<shown, cards>>
        BY <2>1, <3>2
      <4> QED
        BY <4>1
    <3> QED
      BY <3>1, <3>2
  <2>5. pc' \in [Req -> Place]
    BY <1>5 DEF AgentDone
  <2>6. UNCHANGED <<conv, busy, listening, current, kind, key, ids, obj, approved,
                    todo, refused, succeeded, serverVars, ran, faults>>
    BY <1>5 DEF AgentDone
  <2> QED
    BY <2>3, <2>4, <2>5, <2>6
<1>6. ASSUME NEW r \in Req, SaveProposal(r) PROVE TypeOK'
  BY <1>6, StoreType DEF SaveProposal
<1>7. ASSUME NEW r \in Req, FailRequest(r) PROVE TypeOK'
  BY <1>7 DEF FailRequest
<1>8. ASSUME NEW r \in Req, BeginApprove(r) PROVE TypeOK'
  <2> DEFINE o == Lookup(key[r])
  <2>1. /\ store' \in [Req -> Req \cup {None}] /\ lapsed' \in [Req -> BOOLEAN]
    BY <1>8, StoreType DEF BeginApprove
  <2>2. CASE o = None
    <3>1. pc' \in [Req -> Place] /\ UNCHANGED <<obj, approved, todo, refused>>
      BY <1>8, <2>2 DEF BeginApprove
    <3>2. busy' \in BOOLEAN /\ listening' \in SUBSET Req
      BY <1>8, <2>2 DEF BeginApprove
    <3>3. UNCHANGED <<conv, shown, cards, current, kind, key, ids, found,
                      succeeded, pending, history, minted, ran, faults>>
      BY <1>8 DEF BeginApprove
    <3> QED
      BY <2>1, <3>1, <3>2, <3>3
  <2>3. CASE o # None
    <3>1. o \in Req
      BY <2>3, StoreType
    <3>2. pending[o] \cap ids[r] \in SUBSET Action /\ pending[o] \ ids[r] \in SUBSET Action
      BY <3>1
    <3>3. /\ pc' \in [Req -> Place] /\ obj' \in [Req -> Req \cup {None}]
          /\ approved' \in [Req -> SUBSET Action] /\ todo' \in [Req -> SUBSET Action]
          /\ refused' \in [Req -> SUBSET Action] /\ UNCHANGED <<busy, listening>>
      BY <1>8, <2>3, <3>1, <3>2 DEF BeginApprove
    <3> QED
      BY <1>8, <2>1, <3>3 DEF BeginApprove
  <2> QED
    BY <2>2, <2>3
<1>9. ASSUME NEW r \in Req, NEW a \in Action, Execute(r, a) PROVE TypeOK'
  BY <1>9 DEF Execute
<1>10. ASSUME NEW r \in Req, EndLoop(r) PROVE TypeOK'
  BY <1>10 DEF EndLoop
<1>11. ASSUME NEW r \in Req, RecordResults(r) PROVE TypeOK'
  <2>1. /\ Verdicts(succeeded[r], "executed") \in SUBSET Verdict
        /\ Verdicts(approved[r] \ succeeded[r], "failed") \in SUBSET Verdict
        /\ Verdicts(refused[r], "rejected") \in SUBSET Verdict
    BY VerdictsType
  <2>2. history' \in [Req -> SUBSET Verdict]
    BY <1>11, <2>1 DEF RecordResults
  <2>3. pending' \in [Req -> SUBSET Action]
    BY <1>11 DEF RecordResults
  <2>4. /\ store' \in [Req -> Req \cup {None}] /\ lapsed' \in [Req -> BOOLEAN]
    BY <1>11, StoreType DEF RecordResults
  <2> QED
    BY <1>11, <2>2, <2>3, <2>4 DEF RecordResults
<1>12. ASSUME NEW r \in Req, YieldDone(r) PROVE TypeOK'
  BY <1>12 DEF YieldDone
<1>13. ASSUME NEW r \in Req, RejectAll(r) PROVE TypeOK'
  <2> DEFINE o == Lookup(key[r])
  <2>1. /\ store' \in [Req -> Req \cup {None}] /\ lapsed' \in [Req -> BOOLEAN]
    BY <1>13, StoreType DEF RejectAll
  <2>2. pc' \in [Req -> Place]
    BY <1>13 DEF RejectAll
  <2>3. history' \in [Req -> SUBSET Verdict]
    <3>1. CASE o = None
      BY <1>13, <3>1 DEF RejectAll
    <3>2. CASE o # None
      <4>1. o \in Req /\ Verdicts(pending[o], "rejected") \in SUBSET Verdict
        BY <3>2, StoreType, VerdictsType
      <4> QED
        BY <1>13, <3>2, <4>1 DEF RejectAll
    <3> QED
      BY <3>1, <3>2
  <2>4. pending' \in [Req -> SUBSET Action]
    BY <1>13 DEF RejectAll
  <2> QED
    BY <1>13, <2>1, <2>2, <2>3, <2>4 DEF RejectAll
<1>14. ASSUME NEW r \in Req, GiveUp(r) PROVE TypeOK'
  BY <1>14 DEF GiveUp
<1>15. ASSUME NEW r \in Req, Cancel(r) PROVE TypeOK'
  BY <1>15 DEF Cancel
<1>16. ASSUME NEW r \in Req, LoseReject(r) PROVE TypeOK'
  BY <1>16 DEF LoseReject
<1>17. ASSUME NEW k \in Req, Lapse(k) PROVE TypeOK'
  BY <1>17 DEF Lapse
<1>18. CASE CloseCard
  BY <1>18 DEF CloseCard
<1>19. CASE NewConversation
  <2>1. /\ conv' \in Req \cup {None} /\ busy' \in BOOLEAN /\ shown' \in BOOLEAN
        /\ cards' \subseteq SUBSET Action /\ listening' \subseteq Req
    BY <1>19 DEF NewConversation
  <2>2. faults' \in 0..MaxFaults
    BY <1>19 DEF NewConversation
  <2> QED
    BY <1>19, <2>1, <2>2 DEF NewConversation
<1>20. CASE Restart
  BY <1>20 DEF Restart
<1>21. CASE UNCHANGED vars
  BY <1>21 DEF vars
<1> QED
  BY <1>1, <1>2, <1>3, <1>4, <1>5, <1>6, <1>7, <1>8, <1>9, <1>10, <1>11,
     <1>12, <1>13, <1>14, <1>15, <1>16, <1>17, <1>18, <1>19, <1>20, <1>21
  DEF Next, Client, Server, Stream, Approve

\* Every variable of the model keeps its type, whatever the browser, the
\* network and the service do.
THEOREM TypeCorrect == Spec => []TypeOK
BY InitType, NextType, PTL DEF Spec

-----------------------------------------------------------------------------
\* A request that has an object shares it with the request that created it,
\* and their conversation ids are the same; it has one while it is served.
HolderOK(r) ==
  /\ obj[r] # None => /\ obj[obj[r]] = obj[r]
                      /\ key[obj[r]] = key[r]
                      /\ key[r] # None
  /\ pc[r] \in {"unused", "sent"} => obj[r] = None /\ todo[r] = {}
  /\ Serving(r) => obj[r] # None

\* An object is stored under its own conversation id only.
StoreOK(k) ==
  store[k] # None => obj[store[k]] = store[k] /\ key[store[k]] = k

\* What is pending in an object was proposed in its conversation.
PendingOK(o) ==
  \A a \in pending[o] : obj[o] = o /\ Proposed(key[o], a)

\* What an approve request still has to do was ticked and proposed.
TodoOK(r) ==
  \A a \in todo[r] : kind[r] = "approve" /\ a \in ids[r] /\ Proposed(key[r], a)

\* Only requests that were handled applied something.
RanOK == \A x \in ran : pc[x[1]] \notin {"unused", "sent"}

\* The inductive invariant behind RanAsApproved.
IInv ==
  /\ TypeOK
  /\ \A r \in Req : HolderOK(r) /\ StoreOK(r) /\ PendingOK(r) /\ TodoOK(r)
  /\ RanOK /\ RanAsApproved

\* A stream that ran to its end stays as it is, and so does its proposal.
Settled ==
  \A q \in Req : kind[q] = "stream" /\ pc[q] = "over" =>
    pc'[q] = "over" /\ kind'[q] = "stream" /\ key'[q] = key[q] /\ found'[q] = found[q]

LEMMA InitIInv == Init => IInv
<1> SUFFICES ASSUME Init PROVE IInv
  OBVIOUS
<1>1. TypeOK
  BY InitType
<1>2. \A r \in Req : HolderOK(r) /\ StoreOK(r) /\ PendingOK(r) /\ TodoOK(r)
  BY DEF Init, HolderOK, StoreOK, PendingOK, TodoOK, Serving
<1>3. RanOK /\ RanAsApproved
  BY DEF Init, RanOK, RanAsApproved
<1> QED
  BY <1>1, <1>2, <1>3 DEF IInv

LEMMA NextSettled == TypeOK /\ [Next]_vars => Settled
<1> SUFFICES ASSUME TypeOK, [Next]_vars, NEW q \in Req, kind[q] = "stream", pc[q] = "over"
             PROVE  pc'[q] = "over" /\ kind'[q] = "stream" /\ key'[q] = key[q]
                    /\ found'[q] = found[q]
  BY DEF Settled
<1> USE DEF TypeOK, Serving, clientVars, requestVars
<1>1. CASE UNCHANGED vars
  BY <1>1 DEF vars
<1>2. ASSUME NEW r \in Req, Client(r)
      PROVE  pc'[q] = "over" /\ kind'[q] = "stream" /\ key'[q] = key[q] /\ found'[q] = found[q]
  BY <1>2 DEF Client, SendMessage, HandleApprove, HandleReject, Send
<1>3. ASSUME NEW r \in Req, Stream(r)
      PROVE  pc'[q] = "over" /\ kind'[q] = "stream" /\ key'[q] = key[q] /\ found'[q] = found[q]
  BY <1>3 DEF Stream, BeginStream, AgentDone, SaveProposal, FailRequest
<1>4. ASSUME NEW r \in Req, Approve(r)
      PROVE  pc'[q] = "over" /\ kind'[q] = "stream" /\ key'[q] = key[q] /\ found'[q] = found[q]
  BY <1>4 DEF Approve, BeginApprove, Execute, EndLoop, RecordResults
<1>5. ASSUME NEW r \in Req, YieldDone(r) \/ RejectAll(r)
      PROVE  pc'[q] = "over" /\ kind'[q] = "stream" /\ key'[q] = key[q] /\ found'[q] = found[q]
  BY <1>5 DEF YieldDone, RejectAll
<1>6. ASSUME NEW r \in Req, GiveUp(r) \/ Cancel(r) \/ LoseReject(r) \/ Lapse(r)
      PROVE  pc'[q] = "over" /\ kind'[q] = "stream" /\ key'[q] = key[q] /\ found'[q] = found[q]
  BY <1>6 DEF GiveUp, Cancel, LoseReject, Lapse
<1>7. CASE CloseCard \/ NewConversation \/ Restart
  BY <1>7 DEF CloseCard, NewConversation, Restart
<1> QED
  BY <1>1, <1>2, <1>3, <1>4, <1>5, <1>6, <1>7 DEF Next, Server

LEMMA ProposedStays ==
  ASSUME Settled, NEW k, NEW a, Proposed(k, a)
  PROVE  \E q \in Req : /\ kind'[q] = "stream" /\ pc'[q] = "over"
                        /\ key'[q] = k /\ a \in found'[q]
BY DEF Settled, Proposed

\* What was applied stays approved and proposed.
LEMMA RanKept ==
  ASSUME IInv, Settled, UNCHANGED ran,
         \A q \in Req : pc[q] \notin {"unused", "sent"} =>
           /\ pc'[q] \notin {"unused", "sent"}
           /\ kind'[q] = kind[q] /\ key'[q] = key[q] /\ ids'[q] = ids[q]
  PROVE  RanOK' /\ RanAsApproved'
<1> SUFFICES ASSUME NEW x \in ran
             PROVE  /\ pc'[x[1]] \notin {"unused", "sent"}
                    /\ kind'[x[1]] = "approve" /\ x[2] \in ids'[x[1]]
                    /\ Proposed(key[x[1]], x[2])'
  BY DEF RanOK, RanAsApproved
<1>1. x[1] \in Req /\ pc[x[1]] \notin {"unused", "sent"}
  BY DEF IInv, TypeOK, RanOK
<1>2. kind[x[1]] = "approve" /\ x[2] \in ids[x[1]] /\ Proposed(key[x[1]], x[2])
  BY DEF IInv, RanAsApproved
<1>3. Proposed(key[x[1]], x[2])'
  BY <1>1, <1>2, ProposedStays DEF Proposed
<1> QED
  BY <1>1, <1>2, <1>3

\* The requests other than r keep what they hold, when r keeps the object and
\* the conversation id it has.
LEMMA OthersKept ==
  ASSUME IInv, Settled, NEW r \in Req,
         \A q \in Req \ {r} : /\ pc'[q] = pc[q] /\ kind'[q] = kind[q] /\ key'[q] = key[q]
                              /\ ids'[q] = ids[q] /\ obj'[q] = obj[q] /\ todo'[q] = todo[q],
         obj[r] # None => obj'[r] = obj[r] /\ key'[r] = key[r]
  PROVE  \A q \in Req \ {r} : HolderOK(q)' /\ TodoOK(q)'
<1> SUFFICES ASSUME NEW q \in Req, q # r PROVE HolderOK(q)' /\ TodoOK(q)'
  OBVIOUS
<1>1. HolderOK(q) /\ TodoOK(q) /\ obj[q] \in Req \cup {None}
  BY DEF IInv, TypeOK
<1>2. HolderOK(q)'
  <2>1. CASE obj[q] = None
    BY <1>1, <2>1 DEF HolderOK, Serving
  <2>2. CASE obj[q] # None
    <3>1. /\ obj'[obj[q]] = obj[obj[q]] /\ key'[obj[q]] = key[obj[q]]
          /\ obj'[q] = obj[q] /\ key'[q] = key[q] /\ pc'[q] = pc[q] /\ todo'[q] = todo[q]
      BY <1>1, <2>2 DEF HolderOK
    <3> QED
      BY <1>1, <2>2, <3>1 DEF HolderOK, Serving
  <2> QED
    BY <2>1, <2>2
<1>3. TodoOK(q)'
  BY <1>1, ProposedStays DEF TodoOK, Proposed
<1> QED
  BY <1>2, <1>3

\* Nothing is added to the store or to what is pending.
LEMMA StoreKept ==
  ASSUME IInv, Settled,
         \A q \in Req : obj[q] # None => obj'[q] = obj[q] /\ key'[q] = key[q],
         \A k \in Req : store'[k] \in {None, store[k]} /\ pending'[k] \in {{}, pending[k]}
  PROVE  \A k \in Req : StoreOK(k)' /\ PendingOK(k)'
<1> SUFFICES ASSUME NEW k \in Req PROVE StoreOK(k)' /\ PendingOK(k)'
  OBVIOUS
<1>1. StoreOK(k) /\ PendingOK(k) /\ store[k] \in Req \cup {None}
  BY DEF IInv, TypeOK
<1>2. StoreOK(k)'
  BY <1>1 DEF StoreOK
<1>3. PendingOK(k)'
  <2> SUFFICES ASSUME NEW a \in pending'[k] PROVE obj'[k] = k /\ Proposed(key[k], a)'
    BY DEF PendingOK
  <2>1. a \in pending[k]
    OBVIOUS
  <2>2. obj[k] = k /\ Proposed(key[k], a)
    BY <1>1, <2>1 DEF PendingOK
  <2>3. obj'[k] = obj[k] /\ key'[k] = key[k]
    BY <2>2, NoneAssumption
  <2>4. Proposed(key[k], a)'
    BY <2>2, <2>3, ProposedStays DEF Proposed
  <2> QED
    BY <2>2, <2>3, <2>4
<1> QED
  BY <1>2, <1>3

\* The requests keep what they hold in a step that gives none of them an
\* object, a conversation id or something to do.
LEMMA RequestsKept ==
  ASSUME IInv, Settled,
         \A q \in Req : /\ kind'[q] = kind[q] /\ key'[q] = key[q] /\ ids'[q] = ids[q]
                        /\ obj'[q] = obj[q] /\ todo'[q] \subseteq todo[q]
                        /\ pc'[q] \in {"unused", "sent"} => pc[q] \in {"unused", "sent"}
                        /\ Serving(q)' => Serving(q)
  PROVE  \A r \in Req : HolderOK(r)' /\ TodoOK(r)'
<1> SUFFICES ASSUME NEW r \in Req PROVE HolderOK(r)' /\ TodoOK(r)'
  OBVIOUS
<1>1. HolderOK(r) /\ TodoOK(r) /\ obj[r] \in Req \cup {None}
  BY DEF IInv, TypeOK
<1>2. HolderOK(r)'
  BY <1>1 DEF HolderOK
<1>3. TodoOK(r)'
  BY <1>1, ProposedStays DEF TodoOK, Proposed
<1> QED
  BY <1>2, <1>3

\* A step that changes where requests are, drops what is pending or stored,
\* or does neither.
LEMMA QuietStep ==
  ASSUME IInv, Settled, TypeOK', UNCHANGED <<kind, key, ids, obj, todo, ran>>,
         \A q \in Req : /\ pc'[q] \in {"unused", "sent"} => pc'[q] = pc[q]
                        /\ Serving(q)' => Serving(q),
         \A k \in Req : store'[k] \in {None, store[k]} /\ pending'[k] \in {{}, pending[k]}
  PROVE  IInv'
<1>1. \A r \in Req : HolderOK(r)' /\ TodoOK(r)'
  BY RequestsKept
<1>2. \A k \in Req : StoreOK(k)' /\ PendingOK(k)'
  BY StoreKept
<1>3. RanOK' /\ RanAsApproved'
  BY RanKept
<1> QED
  BY <1>1, <1>2, <1>3 DEF IInv

\* The tab sends a request: it is a fresh one.
LEMMA SendStep ==
  ASSUME IInv, Settled, TypeOK', NEW r \in Req, NEW k \in Kind, NEW S, Send(r, k, S)
  PROVE  IInv'
<1> USE DEF Send, serverVars
<1>1. pc[r] = "unused" /\ obj[r] = None /\ todo[r] = {}
  BY DEF IInv, HolderOK
<1>2. \A q \in Req \ {r} : /\ pc'[q] = pc[q] /\ kind'[q] = kind[q] /\ key'[q] = key[q]
                           /\ ids'[q] = ids[q] /\ obj'[q] = obj[q] /\ todo'[q] = todo[q]
  BY DEF IInv, TypeOK
<1>3. pc'[r] = "sent" /\ obj'[r] = None /\ todo'[r] = {}
  BY <1>1 DEF IInv, TypeOK
<1>4. \A q \in Req \ {r} : HolderOK(q)' /\ TodoOK(q)'
  BY <1>1, <1>2, OthersKept
<1>5. HolderOK(r)' /\ TodoOK(r)'
  BY <1>3 DEF HolderOK, TodoOK, Serving
<1>6. \A o \in Req : StoreOK(o)' /\ PendingOK(o)'
  BY <1>1, <1>2, StoreKept
<1>7. RanOK' /\ RanAsApproved'
  BY <1>1, <1>2, RanKept
<1> QED
  BY <1>4, <1>5, <1>6, <1>7 DEF IInv

\* A handler that was started holds an object, if any, of its conversation.
LEMMA BeginStreamStep ==
  ASSUME IInv, Settled, TypeOK', NEW r \in Req, BeginStream(r)
  PROVE  IInv'
<1> DEFINE k == IF key[r] = None THEN r ELSE key[r]
           o == IF Lookup(k) = None THEN r ELSE Lookup(k)
<1>1. /\ TypeOK /\ pc[r] = "sent" /\ obj[r] = None /\ todo[r] = {}
      /\ k \in Req /\ o \in Req /\ k # None
  BY StoreType, NoneAssumption DEF IInv, HolderOK, BeginStream, TypeOK
<1>2. /\ pc'[r] = "running" /\ key'[r] = k /\ obj'[r] = o /\ todo'[r] = {}
      /\ UNCHANGED <<kind, ids, todo, ran>>
      /\ \A q \in Req \ {r} : pc'[q] = pc[q] /\ key'[q] = key[q] /\ obj'[q] = obj[q]
  BY <1>1 DEF BeginStream, TypeOK
<1>3. Lookup(k) # None => o = store[k] /\ obj[o] = o /\ key[o] = k /\ o # r
  BY <1>1, StoreType, NoneAssumption DEF IInv, StoreOK
<1>4. HolderOK(r)' /\ TodoOK(r)'
  <2>1. obj'[o] = o /\ key'[o] = k
    BY <1>1, <1>2, <1>3
  <2> HIDE DEF k, o
  <2>2. HolderOK(r)'
    BY <1>1, <1>2, <2>1, NoneAssumption DEF HolderOK, Serving
  <2>3. TodoOK(r)'
    BY <1>2 DEF TodoOK
  <2> QED
    BY <2>2, <2>3
<1>5. \A q \in Req \ {r} : HolderOK(q)' /\ TodoOK(q)'
  BY <1>1, <1>2, OthersKept
<1>6. pending[o] # {} => o = store[k]
  <2> HAVE pending[o] # {}
  <2>1. obj[o] = o
    BY <1>1 DEF IInv, PendingOK
  <2>2. o # r
    BY <1>1, <2>1, NoneAssumption
  <2> QED
    BY <1>3, <2>2
<1>7. \A c \in Req : store'[c] \in {None, store[c]} /\ pending'[c] \in {{}, pending[c]}
  <2>1. CASE pending[o] # {}
    <3>1. store' = [store EXCEPT ![k] = o] /\ pending' = [pending EXCEPT ![o] = {}]
      BY <2>1 DEF BeginStream, Put
    <3> QED
      BY <1>1, <1>6, <2>1, <3>1 DEF TypeOK
  <2>2. CASE pending[o] = {}
    <3>1. store' = AfterGet(k) /\ pending' = pending
      BY <2>2 DEF BeginStream
    <3> QED
      BY <1>1, <3>1 DEF TypeOK, AfterGet
  <2> QED
    BY <2>1, <2>2
<1>8. \A c \in Req : StoreOK(c)' /\ PendingOK(c)'
  <2>1. \A q \in Req : obj[q] # None => obj'[q] = obj[q] /\ key'[q] = key[q]
    BY <1>1, <1>2
  <2> QED
    BY <1>7, <2>1, StoreKept
<1>9. RanOK' /\ RanAsApproved'
  <2>1. \A q \in Req : pc[q] \notin {"unused", "sent"} =>
          /\ pc'[q] \notin {"unused", "sent"}
          /\ kind'[q] = kind[q] /\ key'[q] = key[q] /\ ids'[q] = ids[q]
    BY <1>1, <1>2
  <2> QED
    BY <1>2, <2>1, RanKept
<1> QED
  BY <1>4, <1>5, <1>8, <1>9 DEF IInv

LEMMA BeginApproveStep ==
  ASSUME IInv, Settled, TypeOK', NEW r \in Req, BeginApprove(r)
  PROVE  IInv'
<1> DEFINE o == Lookup(key[r])
<1>1. /\ TypeOK /\ pc[r] = "sent" /\ obj[r] = None /\ todo[r] = {}
      /\ kind[r] = "approve" /\ key[r] \in Req \cup {None}
      /\ UNCHANGED <<kind, key, ids, pending, ran>>
  BY DEF IInv, HolderOK, BeginApprove, TypeOK
<1>2. \A c \in Req : store'[c] \in {None, store[c]} /\ pending'[c] \in {{}, pending[c]}
  BY <1>1, NoneAssumption DEF BeginApprove, AfterGet, TypeOK
<1>3. \A q \in Req : pc'[q] \in {"unused", "sent"} => q # r /\ pc'[q] = pc[q]
  BY <1>1 DEF BeginApprove, TypeOK
<1>4. CASE o = None
  <2>1. pc' = [pc EXCEPT ![r] = "lost"] /\ UNCHANGED <<obj, todo>>
    BY <1>4 DEF BeginApprove
  <2>2. \A q \in Req : Serving(q)' => Serving(q)
    BY <1>1, <2>1 DEF TypeOK, Serving
  <2> QED
    BY <1>1, <1>2, <1>3, <2>1, <2>2, QuietStep
<1>5. CASE o # None
  <2>1. /\ pc' = [pc EXCEPT ![r] = "running"]
        /\ obj' = [obj EXCEPT ![r] = o]
        /\ todo' = [todo EXCEPT ![r] = pending[o] \cap ids[r]]
    BY <1>5 DEF BeginApprove
  <2>2. /\ key[r] \in Req /\ o \in Req /\ o = store[key[r]]
        /\ obj[o] = o /\ key[o] = key[r] /\ o # r
    BY <1>1, <1>5, StoreType, NoneAssumption DEF IInv, StoreOK
  <2>3. /\ pc'[r] = "running" /\ obj'[r] = o /\ todo'[r] = pending[o] \cap ids[r]
        /\ \A q \in Req \ {r} : pc'[q] = pc[q] /\ obj'[q] = obj[q] /\ todo'[q] = todo[q]
    BY <1>1, <2>1 DEF TypeOK
  <2>4. \A q \in Req \ {r} : HolderOK(q)' /\ TodoOK(q)'
    BY <1>1, <2>3, OthersKept
  <2>5. HolderOK(r)'
    BY <1>1, <2>2, <2>3, NoneAssumption DEF HolderOK, Serving
  <2>6. TodoOK(r)'
    <3> SUFFICES ASSUME NEW a \in todo'[r]
                 PROVE  kind'[r] = "approve" /\ a \in ids'[r] /\ Proposed(key[r], a)'
      BY DEF TodoOK
    <3>1. a \in pending[o] /\ a \in ids[r]
      BY <2>3
    <3>2. Proposed(key[r], a)
      BY <2>2, <3>1 DEF IInv, PendingOK
    <3>3. Proposed(key[r], a)'
      BY <1>1, <3>2, ProposedStays DEF Proposed
    <3> QED
      BY <1>1, <3>1, <3>3
  <2>7. \A c \in Req : StoreOK(c)' /\ PendingOK(c)'
    <3>1. \A q \in Req : obj[q] # None => obj'[q] = obj[q] /\ key'[q] = key[q]
      BY <1>1, <2>3
    <3> QED
      BY <1>2, <3>1, StoreKept
  <2>8. RanOK' /\ RanAsApproved'
    BY <1>1, <1>3, RanKept
  <2> QED
    BY <2>4, <2>5, <2>6, <2>7, <2>8 DEF IInv
<1> QED
  BY <1>4, <1>5

\* What is applied was in the approved list of a handler.
LEMMA ExecuteStep ==
  ASSUME IInv, Settled, TypeOK', NEW r \in Req, NEW a \in Action, Execute(r, a)
  PROVE  IInv'
<1>1. /\ TypeOK /\ pc[r] = "running" /\ a \in todo[r]
      /\ UNCHANGED <<pc, kind, key, ids, obj, store, pending>>
      /\ todo' = [todo EXCEPT ![r] = @ \ {a}]
      /\ ran' \subseteq ran \cup {<<r, a>>}
  BY DEF IInv, Execute, serverVars
<1>2. \A q \in Req : HolderOK(q)' /\ TodoOK(q)'
  <2>1. \A q \in Req : todo'[q] \subseteq todo[q]
    BY <1>1 DEF TypeOK
  <2> QED
    BY <1>1, <2>1, RequestsKept DEF Serving
<1>3. \A c \in Req : StoreOK(c)' /\ PendingOK(c)'
  BY <1>1, StoreKept
<1>4. kind[r] = "approve" /\ a \in ids[r] /\ Proposed(key[r], a)
  BY <1>1 DEF IInv, TodoOK
<1>5. RanOK'
  BY <1>1 DEF IInv, RanOK
<1>6. RanAsApproved'
  <2> SUFFICES ASSUME NEW x \in ran'
               PROVE  /\ kind'[x[1]] = "approve" /\ x[2] \in ids'[x[1]]
                      /\ Proposed(key[x[1]], x[2])'
    BY DEF RanAsApproved
  <2>1. kind[x[1]] = "approve" /\ x[2] \in ids[x[1]] /\ Proposed(key[x[1]], x[2])
    BY <1>1, <1>4 DEF IInv, RanAsApproved
  <2>2. Proposed(key[x[1]], x[2])'
    BY <1>1, <2>1, ProposedStays DEF Proposed
  <2> QED
    BY <1>1, <2>1, <2>2
<1> QED
  BY <1>2, <1>3, <1>5, <1>6 DEF IInv

\* A handler that ends stores its object under its own conversation id, with
\* its own proposal or with nothing pending.
LEMMA EndStep ==
  ASSUME IInv, Settled, TypeOK', NEW r \in Req, NEW S,
         pc[r] = "tail", pc' = [pc EXCEPT ![r] = "over"],
         pending' = [pending EXCEPT ![obj[r]] = S], Put(key[r], obj[r]),
         UNCHANGED <<kind, key, ids, obj, found, todo, ran>>,
         S = {} \/ (kind[r] = "stream" /\ S = found[r])
  PROVE  IInv'
<1>1. /\ TypeOK /\ obj[r] \in Req /\ key[r] \in Req
      /\ obj[obj[r]] = obj[r] /\ key[obj[r]] = key[r]
  BY NoneAssumption DEF IInv, TypeOK, HolderOK, Serving
<1>2. \A q \in Req : /\ pc'[q] \in {"unused", "sent"} => pc'[q] = pc[q]
                     /\ Serving(q)' => Serving(q)
  BY <1>1 DEF TypeOK, Serving
<1>3. \A q \in Req : HolderOK(q)' /\ TodoOK(q)'
  BY <1>2, RequestsKept
<1>4. \A c \in Req : StoreOK(c)'
  BY <1>1 DEF IInv, StoreOK, Put, TypeOK
<1>5. \A c \in Req : PendingOK(c)'
  <2> SUFFICES ASSUME NEW c \in Req, NEW a \in pending'[c]
               PROVE  obj'[c] = c /\ Proposed(key[c], a)'
    BY DEF PendingOK
  <2>1. CASE c = obj[r]
    <3>1. kind[r] = "stream" /\ a \in found[r]
      BY <1>1, <2>1 DEF TypeOK
    <3>2. kind'[r] = "stream" /\ pc'[r] = "over" /\ key'[r] = key[c] /\ a \in found'[r]
      BY <1>1, <2>1, <3>1 DEF TypeOK
    <3>3. Proposed(key[c], a)'
      BY <3>2 DEF Proposed
    <3> QED
      BY <1>1, <2>1, <3>3
  <2>2. CASE c # obj[r]
    <3>1. a \in pending[c]
      BY <1>1, <2>2 DEF TypeOK
    <3>2. obj[c] = c /\ Proposed(key[c], a)
      BY <3>1 DEF IInv, PendingOK
    <3>3. Proposed(key[c], a)'
      BY <3>2, ProposedStays DEF Proposed
    <3> QED
      BY <3>2, <3>3
  <2> QED
    BY <2>1, <2>2
<1>6. RanOK' /\ RanAsApproved'
  BY <1>2, RanKept
<1> QED
  BY <1>3, <1>4, <1>5, <1>6 DEF IInv

LEMMA NextIInv == IInv /\ [Next]_vars => IInv'
<1> SUFFICES ASSUME IInv, [Next]_vars PROVE IInv'
  OBVIOUS
<1>1. TypeOK /\ TypeOK' /\ Settled
  BY NextType, NextSettled DEF IInv
<1>2. ASSUME NEW r \in Req, SendMessage(r) \/ HandleApprove(r) \/ HandleReject(r)
      PROVE  IInv'
  BY <1>1, <1>2, SendStep DEF SendMessage, HandleApprove, HandleReject, Kind
<1>3. ASSUME NEW r \in Req, BeginStream(r) PROVE IInv'
  BY <1>1, <1>3, BeginStreamStep
<1>4. ASSUME NEW r \in Req, BeginApprove(r) PROVE IInv'
  BY <1>1, <1>4, BeginApproveStep
<1>5. ASSUME NEW r \in Req, NEW a \in Action, Execute(r, a) PROVE IInv'
  BY <1>1, <1>5, ExecuteStep
<1>6. ASSUME NEW r \in Req, SaveProposal(r) PROVE IInv'
  BY <1>1, <1>6, EndStep DEF SaveProposal
<1>7. ASSUME NEW r \in Req, RecordResults(r) PROVE IInv'
  BY <1>1, <1>7, EndStep DEF RecordResults
<1>8. ASSUME NEW r \in Req,
             AgentDone(r) \/ FailRequest(r) \/ EndLoop(r) \/ YieldDone(r)
               \/ Cancel(r) \/ LoseReject(r)
      PROVE  IInv'
  <2>1. UNCHANGED <<kind, key, ids, obj, todo, ran, store, pending>>
    BY <1>8
    DEF AgentDone, FailRequest, EndLoop, YieldDone, Cancel, LoseReject, serverVars
  <2>2. \A q \in Req : /\ pc'[q] \in {"unused", "sent"} => pc'[q] = pc[q]
                       /\ Serving(q)' => Serving(q)
    BY <1>1, <1>8
    DEF AgentDone, FailRequest, EndLoop, YieldDone, Cancel, LoseReject, Serving, TypeOK
  <2> QED
    BY <1>1, <2>1, <2>2, QuietStep
<1>9. ASSUME NEW r \in Req, RejectAll(r) PROVE IInv'
  <2>1. UNCHANGED <<kind, key, ids, obj, todo, ran>>
    BY <1>9 DEF RejectAll
  <2>2. \A q \in Req : /\ pc'[q] \in {"unused", "sent"} => pc'[q] = pc[q]
                       /\ Serving(q)' => Serving(q)
    BY <1>1, <1>9 DEF RejectAll, Serving, TypeOK
  <2>3. key[r] \in Req \cup {None}
    BY <1>1 DEF TypeOK
  <2>4. \A c \in Req : store'[c] \in {None, store[c]} /\ pending'[c] \in {{}, pending[c]}
    <3>1. CASE Lookup(key[r]) = None
      BY <1>1, <1>9, <2>3, <3>1 DEF RejectAll, AfterGet, TypeOK
    <3>2. CASE Lookup(key[r]) # None
      <4>1. key[r] \in Req /\ Lookup(key[r]) = store[key[r]]
        BY <1>1, <2>3, <3>2, StoreType
      <4> QED
        BY <1>1, <1>9, <3>2, <4>1 DEF RejectAll, Put, TypeOK
    <3> QED
      BY <3>1, <3>2
  <2> QED
    BY <1>1, <2>1, <2>2, <2>4, QuietStep
<1>10. ASSUME NEW r \in Req, GiveUp(r) \/ Lapse(r) PROVE IInv'
  <2>1. UNCHANGED <<pc, kind, key, ids, obj, todo, ran, store, pending>>
    BY <1>10 DEF GiveUp, Lapse, requestVars, serverVars
  <2> QED
    BY <1>1, <2>1, QuietStep DEF Serving
<1>11. CASE CloseCard \/ NewConversation \/ UNCHANGED vars
  <2>1. UNCHANGED <<pc, kind, key, ids, obj, todo, ran, store, pending>>
    BY <1>11 DEF CloseCard, NewConversation, vars, requestVars, serverVars
  <2> QED
    BY <1>1, <2>1, QuietStep DEF Serving
<1>12. CASE Restart
  <2>1. /\ UNCHANGED <<kind, key, ids, obj, todo, ran>>
        /\ \A c \in Req : store'[c] \in {None, store[c]} /\ pending'[c] \in {{}, pending[c]}
    BY <1>12 DEF Restart
  <2>2. \A q \in Req : /\ pc'[q] \in {"unused", "sent"} => pc'[q] = pc[q]
                       /\ Serving(q)' => Serving(q)
    BY <1>1, <1>12 DEF Restart, Serving, TypeOK
  <2> QED
    BY <1>1, <2>1, <2>2, QuietStep
<1> QED
  BY <1>2, <1>3, <1>4, <1>5, <1>6, <1>7, <1>8, <1>9, <1>10, <1>11, <1>12
  DEF Next, Client, Server, Stream, Approve

\* No write is applied that the user did not tick in an approve request, and
\* none that a stream of that request's conversation did not propose: whatever
\* requests overlap, expire, are cancelled, or lose their state to a restart.
THEOREM OnlyApprovedRuns == Spec => []RanAsApproved
<1>1. Spec => []IInv
  BY InitIInv, NextIInv, PTL DEF Spec
<1>2. IInv => RanAsApproved
  BY DEF IInv
<1> QED
  BY <1>1, <1>2, PTL

-----------------------------------------------------------------------------
(***************************************************************************)
(* What was decided stays decided.                                         *)
(***************************************************************************)

\* A stream that ran to its end has proposed action a.
Past(a) == \E q \in Req : kind[q] = "stream" /\ pc[q] = "over" /\ a \in found[q]

\* An action belongs to the one stream it was minted for, which has finished.
FoundOK(r) ==
  /\ found[r] \subseteq minted
  /\ found[r] # {} => kind[r] = "stream" /\ pc[r] \notin {"unused", "sent", "running"}
  /\ \A q \in Req \ {r} : found[q] \cap found[r] = {}

\* An approve request deals with old proposals only.
HandledOK(r) == \A a \in approved[r] \cup refused[r] \cup succeeded[r] : Past(a)

\* So does the history of object o, and it told the LLM of nothing pending.
ToldOK(o) == \A h \in history[o] : Past(h.action) /\ h.action \notin pending[o]

DInv == IInv /\ \A r \in Req : FoundOK(r) /\ HandledOK(r) /\ ToldOK(r)

LEMMA PastStays ==
  ASSUME Settled, NEW a, Past(a) PROVE Past(a)'
BY DEF Settled, Past

LEMMA InitDInv == Init => DInv
<1> SUFFICES ASSUME Init PROVE DInv
  OBVIOUS
<1>1. \A r \in Req : FoundOK(r) /\ HandledOK(r) /\ ToldOK(r)
  BY DEF Init, FoundOK, HandledOK, ToldOK
<1> QED
  BY <1>1, InitIInv DEF DInv

\* Proposals stay with the streams that minted them.
LEMMA FoundKept ==
  ASSUME DInv, UNCHANGED found, minted \subseteq minted',
         \A q \in Req : pc[q] \notin {"unused", "sent", "running"} =>
           kind'[q] = kind[q] /\ pc'[q] \notin {"unused", "sent", "running"}
  PROVE  \A r \in Req : FoundOK(r)'
BY DEF DInv, FoundOK

\* What a step leaves to be shown.
LEMMA DKept ==
  ASSUME DInv, Settled, IInv', \A r \in Req : FoundOK(r)',
         \A r \in Req : \A a \in approved'[r] \cup refused'[r] \cup succeeded'[r] : Past(a),
         \A o \in Req : \A h \in history'[o] : Past(h.action) /\ h.action \notin pending'[o]
  PROVE  DInv'
<1>1. \A r \in Req : HandledOK(r)' /\ ToldOK(r)'
  BY PastStays DEF HandledOK, ToldOK
<1> QED
  BY <1>1 DEF DInv

\* Steps that tell the LLM nothing and approve nothing.
LEMMA QuietDecided ==
  ASSUME DInv, Settled, IInv', UNCHANGED <<found, minted, approved, refused, succeeded>>,
         \A q \in Req : pc[q] \notin {"unused", "sent", "running"} =>
           kind'[q] = kind[q] /\ pc'[q] \notin {"unused", "sent", "running"},
         \A o \in Req : history'[o] \subseteq history[o] /\ pending'[o] \subseteq pending[o]
  PROVE  DInv'
<1>1. \A r \in Req : FoundOK(r)'
  BY FoundKept
<1>2. \A r \in Req : \A a \in approved'[r] \cup refused'[r] \cup succeeded'[r] : Past(a)
  BY DEF DInv, HandledOK
<1>3. \A o \in Req : \A h \in history'[o] : Past(h.action) /\ h.action \notin pending'[o]
  BY DEF DInv, ToldOK
<1> QED
  BY <1>1, <1>2, <1>3, DKept

\* The object of a handler is told of old proposals, and nothing in it is
\* pending any more.
LEMMA TellDecided ==
  ASSUME DInv, Settled, IInv', UNCHANGED <<found, minted, approved, refused, succeeded>>,
         \A q \in Req : pc[q] \notin {"unused", "sent", "running"} =>
           kind'[q] = kind[q] /\ pc'[q] \notin {"unused", "sent", "running"},
         NEW o \in Req, NEW V,
         history' = [history EXCEPT ![o] = @ \cup V],
         pending' = [pending EXCEPT ![o] = {}],
         \A h \in V : Past(h.action)
  PROVE  DInv'
<1>0. TypeOK
  BY DEF DInv, IInv
<1>1. \A r \in Req : FoundOK(r)'
  BY FoundKept
<1>2. \A r \in Req : \A a \in approved'[r] \cup refused'[r] \cup succeeded'[r] : Past(a)
  BY DEF DInv, HandledOK
<1>3. ASSUME NEW c \in Req, NEW h \in history'[c]
      PROVE  Past(h.action) /\ h.action \notin pending'[c]
  <2>1. CASE c = o
    <3>1. pending'[c] = {} /\ (h \in history[c] \/ h \in V)
      BY <1>0, <2>1 DEF TypeOK
    <3> QED
      BY <3>1 DEF DInv, ToldOK
  <2>2. CASE c # o
    <3>1. pending'[c] = pending[c] /\ history'[c] = history[c]
      BY <1>0, <2>2 DEF TypeOK
    <3> QED
      BY <3>1 DEF DInv, ToldOK
  <2> QED
    BY <2>1, <2>2
<1> QED
  BY <1>1, <1>2, <1>3, DKept

LEMMA PendingPast ==
  ASSUME IInv, NEW o \in Req, NEW a \in pending[o] PROVE Past(a)
BY DEF IInv, PendingOK, Proposed, Past

LEMMA VerdictsAction ==
  ASSUME NEW S, NEW v, NEW h \in Verdicts(S, v) PROVE h.action \in S /\ h.verdict = v
BY DEF Verdicts

LEMMA BeginStreamDecided ==
  ASSUME DInv, Settled, IInv', NEW r \in Req, BeginStream(r)
  PROVE  DInv'
<1> DEFINE k == IF key[r] = None THEN r ELSE key[r]
           o == IF Lookup(k) = None THEN r ELSE Lookup(k)
<1>1. /\ TypeOK /\ IInv /\ o \in Req
      /\ UNCHANGED <<found, minted, approved, refused, succeeded>>
      /\ \A q \in Req : pc[q] \notin {"unused", "sent", "running"} =>
           kind'[q] = kind[q] /\ pc'[q] \notin {"unused", "sent", "running"}
  BY StoreType DEF DInv, IInv, BeginStream, TypeOK
<1>2. CASE pending[o] # {}
  <2>1. /\ history' = [history EXCEPT ![o] = @ \cup Verdicts(pending[o], "discarded")]
        /\ pending' = [pending EXCEPT ![o] = {}]
    BY <1>2 DEF BeginStream
  <2> HIDE DEF k, o
  <2>2. \A h \in Verdicts(pending[o], "discarded") : Past(h.action)
    BY <1>1, PendingPast, VerdictsAction
  <2> QED
    BY <1>1, <2>1, <2>2, TellDecided
<1>3. CASE pending[o] = {}
  <2>1. UNCHANGED <<pending, history>>
    BY <1>3 DEF BeginStream
  <2> QED
    BY <1>1, <2>1, QuietDecided
<1> QED
  BY <1>2, <1>3

LEMMA AgentDoneDecided ==
  ASSUME DInv, Settled, IInv', NEW r \in Req, AgentDone(r)
  PROVE  DInv'
<1>1. TypeOK /\ pc[r] = "running" /\ kind[r] = "stream" /\ found[r] = {}
  BY DEF DInv, IInv, FoundOK, AgentDone
<1>2. PICK S \in SUBSET (Action \ minted) :
        found' = [found EXCEPT ![r] = S] /\ minted' = minted \cup S
  BY DEF AgentDone
<1>3. /\ pc' = [pc EXCEPT ![r] = "done"]
      /\ UNCHANGED <<kind, approved, refused, succeeded, pending, history>>
  BY DEF AgentDone, serverVars
<1>4. ASSUME NEW q \in Req PROVE FoundOK(q)'
  <2>1. \A c \in Req : found[c] \subseteq minted
    BY DEF DInv, FoundOK
  <2>2. /\ found'[r] = S /\ pc'[r] = "done"
        /\ \A c \in Req \ {r} : found'[c] = found[c] /\ pc'[c] = pc[c]
    BY <1>1, <1>2, <1>3 DEF TypeOK
  <2>3. FoundOK(q)
    BY DEF DInv
  <2>4. CASE q = r
    BY <1>1, <1>2, <1>3, <2>1, <2>2, <2>4 DEF FoundOK
  <2>5. CASE q # r
    BY <1>2, <1>3, <2>1, <2>2, <2>3, <2>5 DEF FoundOK
  <2> QED
    BY <2>4, <2>5
<1>5. \A q \in Req : \A a \in approved'[q] \cup refused'[q] \cup succeeded'[q] : Past(a)
  BY <1>3 DEF DInv, HandledOK
<1>6. \A o \in Req : \A h \in history'[o] : Past(h.action) /\ h.action \notin pending'[o]
  BY <1>3 DEF DInv, ToldOK
<1> QED
  BY <1>4, <1>5, <1>6, DKept

\* What becomes pending is new: no verdict on it can have been given.
LEMMA SaveProposalDecided ==
  ASSUME DInv, Settled, IInv', NEW r \in Req, SaveProposal(r)
  PROVE  DInv'
<1>1. /\ TypeOK /\ pc[r] = "tail" /\ obj[r] \in Req
      /\ pending' = [pending EXCEPT ![obj[r]] = found[r]] /\ pc' = [pc EXCEPT ![r] = "over"]
      /\ UNCHANGED <<kind, found, minted, approved, refused, succeeded, history>>
  BY DEF DInv, IInv, TypeOK, HolderOK, Serving, SaveProposal
<1>2. \A q \in Req : FoundOK(q)'
  <2>1. \A q \in Req : pc[q] \notin {"unused", "sent", "running"} =>
           kind'[q] = kind[q] /\ pc'[q] \notin {"unused", "sent", "running"}
    BY <1>1 DEF TypeOK
  <2> QED
    BY <1>1, <2>1, FoundKept
<1>3. \A q \in Req : \A a \in approved'[q] \cup refused'[q] \cup succeeded'[q] : Past(a)
  BY <1>1 DEF DInv, HandledOK
<1>4. \A a \in found[r] : ~Past(a)
  BY <1>1 DEF DInv, FoundOK, Past
<1>5. ASSUME NEW o \in Req, NEW h \in history'[o]
      PROVE  Past(h.action) /\ h.action \notin pending'[o]
  <2>1. Past(h.action) /\ h.action \notin pending[o]
    BY <1>1 DEF DInv, ToldOK
  <2>2. pending'[o] = pending[o] \/ pending'[o] = found[r]
    BY <1>1 DEF TypeOK
  <2> QED
    BY <1>4, <2>1, <2>2
<1> QED
  BY <1>2, <1>3, <1>5, DKept

LEMMA BeginApproveDecided ==
  ASSUME DInv, Settled, IInv', NEW r \in Req, BeginApprove(r)
  PROVE  DInv'
<1> DEFINE o == Lookup(key[r])
<1>1. /\ TypeOK /\ IInv /\ pc[r] = "sent"
      /\ UNCHANGED <<kind, found, minted, succeeded, pending, history>>
      /\ \A q \in Req \ {r} : pc'[q] = pc[q]
  BY DEF DInv, IInv, BeginApprove, TypeOK
<1>2. \A q \in Req : FoundOK(q)'
  BY <1>1, FoundKept
<1>3. \A q \in Req : \A a \in approved'[q] \cup refused'[q] \cup succeeded'[q] : Past(a)
  <2>1. CASE o = None
    BY <1>1, <2>1 DEF BeginApprove, DInv, HandledOK
  <2>2. CASE o # None
    <3>1. o \in Req
      BY <1>1, <2>2, StoreType DEF TypeOK
    <3>2. \A a \in pending[o] : Past(a)
      BY <1>1, <3>1, PendingPast
    <3>3. /\ approved' = [approved EXCEPT ![r] = pending[o] \cap ids[r]]
          /\ refused' = [refused EXCEPT ![r] = pending[o] \ ids[r]]
      BY <2>2 DEF BeginApprove
    <3> HIDE DEF o
    <3>4. \A q \in Req : /\ approved'[q] \subseteq approved[q] \cup pending[o]
                         /\ refused'[q] \subseteq refused[q] \cup pending[o]
      BY <1>1, <3>3 DEF TypeOK
    <3> QED
      BY <1>1, <3>2, <3>4 DEF DInv, HandledOK
  <2> QED
    BY <2>1, <2>2
<1>4. \A c \in Req : \A h \in history'[c] : Past(h.action) /\ h.action \notin pending'[c]
  BY <1>1 DEF DInv, ToldOK
<1> QED
  BY <1>2, <1>3, <1>4, DKept

LEMMA ExecuteDecided ==
  ASSUME DInv, Settled, IInv', NEW r \in Req, NEW a \in Action, Execute(r, a)
  PROVE  DInv'
<1>1. /\ TypeOK /\ IInv /\ a \in todo[r]
      /\ UNCHANGED <<pc, kind, found, minted, approved, refused, pending, history>>
      /\ \A q \in Req : succeeded'[q] \subseteq succeeded[q] \cup {a}
  BY DEF DInv, IInv, Execute, serverVars, TypeOK
<1>2. Past(a)
  BY <1>1 DEF IInv, TodoOK, Proposed, Past
<1>3. \A q \in Req : FoundOK(q)'
  BY <1>1, FoundKept
<1>4. \A q \in Req : \A b \in approved'[q] \cup refused'[q] \cup succeeded'[q] : Past(b)
  BY <1>1, <1>2 DEF DInv, HandledOK
<1>5. \A c \in Req : \A h \in history'[c] : Past(h.action) /\ h.action \notin pending'[c]
  BY <1>1 DEF DInv, ToldOK
<1> QED
  BY <1>3, <1>4, <1>5, DKept

LEMMA RecordResultsDecided ==
  ASSUME DInv, Settled, IInv', NEW r \in Req, RecordResults(r)
  PROVE  DInv'
<1>1. /\ TypeOK /\ pc[r] = "tail" /\ obj[r] \in Req
      /\ pc' = [pc EXCEPT ![r] = "over"]
      /\ UNCHANGED <<kind, found, minted, approved, refused, succeeded>>
  BY DEF DInv, IInv, TypeOK, HolderOK, Serving, RecordResults
<1>2. PICK E, F, R : /\ E = Verdicts(succeeded[r], "executed")
                     /\ F = Verdicts(approved[r] \ succeeded[r], "failed")
                     /\ R = Verdicts(refused[r], "rejected")
  OBVIOUS
<1>3. /\ history' = [history EXCEPT ![obj[r]] = @ \cup E \cup F \cup R]
      /\ pending' = [pending EXCEPT ![obj[r]] = {}]
  BY <1>2 DEF RecordResults
<1>4. PICK W : W = E \cup F \cup R
  OBVIOUS
<1>4a. PICK o \in Req : o = obj[r]
  BY <1>1
<1>5. \A h \in W : Past(h.action)
  <2>1. \A h \in W : h.action \in approved[r] \cup refused[r] \cup succeeded[r]
    BY <1>2, <1>4, <1>4a, VerdictsAction
  <2> QED
    BY <2>1 DEF DInv, HandledOK
<1>6. history[o] \cup E \cup F \cup R = history[o] \cup W
  BY <1>4, <1>4a
<1>7. history' = [history EXCEPT ![o] = @ \cup W] /\ pending' = [pending EXCEPT ![o] = {}]
  BY <1>3, <1>4, <1>4a, <1>6
<1>8. \A q \in Req : pc[q] \notin {"unused", "sent", "running"} =>
        kind'[q] = kind[q] /\ pc'[q] \notin {"unused", "sent", "running"}
  BY <1>1 DEF TypeOK
<1> QED
  BY <1>1, <1>5, <1>7, <1>8, TellDecided

LEMMA RejectAllDecided ==
  ASSUME DInv, Settled, IInv', NEW r \in Req, RejectAll(r)
  PROVE  DInv'
<1> DEFINE o == Lookup(key[r])
<1>1. /\ TypeOK /\ IInv /\ pc[r] = "sent" /\ pc' = [pc EXCEPT ![r] = "over"]
      /\ UNCHANGED <<kind, found, minted, approved, refused, succeeded>>
  BY DEF DInv, IInv, RejectAll
<1>2. \A q \in Req : pc[q] \notin {"unused", "sent", "running"} =>
        kind'[q] = kind[q] /\ pc'[q] \notin {"unused", "sent", "running"}
  BY <1>1 DEF TypeOK
<1>3. CASE o = None
  <2>1. UNCHANGED <<pending, history>>
    BY <1>3 DEF RejectAll
  <2> QED
    BY <1>1, <1>2, <2>1, QuietDecided
<1>4. CASE o # None
  <2>1. o \in Req
    BY <1>1, <1>4, StoreType DEF TypeOK
  <2>2. /\ history' = [history EXCEPT ![o] = @ \cup Verdicts(pending[o], "rejected")]
        /\ pending' = [pending EXCEPT ![o] = {}]
    BY <1>4 DEF RejectAll
  <2> HIDE DEF o
  <2>3. PICK c \in Req : c = o
    BY <2>1
  <2>3a. PICK W : W = Verdicts(pending[o], "rejected")
    OBVIOUS
  <2>4. \A h \in W : Past(h.action)
    BY <1>1, <2>1, <2>3, <2>3a, PendingPast, VerdictsAction
  <2>5. history' = [history EXCEPT ![c] = @ \cup W] /\ pending' = [pending EXCEPT ![c] = {}]
    BY <2>2, <2>3, <2>3a
  <2> QED
    BY <1>1, <1>2, <2>4, <2>5, TellDecided
<1> QED
  BY <1>3, <1>4

LEMMA NextDInv == DInv /\ [Next]_vars => DInv'
<1> SUFFICES ASSUME DInv, [Next]_vars PROVE DInv'
  OBVIOUS
<1>1. TypeOK /\ Settled /\ IInv'
  BY NextSettled, NextIInv DEF DInv, IInv
<1>2. ASSUME NEW r \in Req, BeginStream(r) PROVE DInv'
  BY <1>1, <1>2, BeginStreamDecided
<1>3. ASSUME NEW r \in Req, AgentDone(r) PROVE DInv'
  BY <1>1, <1>3, AgentDoneDecided
<1>4. ASSUME NEW r \in Req, SaveProposal(r) PROVE DInv'
  BY <1>1, <1>4, SaveProposalDecided
<1>5. ASSUME NEW r \in Req, BeginApprove(r) PROVE DInv'
  BY <1>1, <1>5, BeginApproveDecided
<1>6. ASSUME NEW r \in Req, NEW a \in Action, Execute(r, a) PROVE DInv'
  BY <1>1, <1>6, ExecuteDecided
<1>7. ASSUME NEW r \in Req, RecordResults(r) PROVE DInv'
  BY <1>1, <1>7, RecordResultsDecided
<1>8. ASSUME NEW r \in Req, RejectAll(r) PROVE DInv'
  BY <1>1, <1>8, RejectAllDecided
<1>9. ASSUME NEW r \in Req, Client(r) PROVE DInv'
  <2>1. /\ UNCHANGED <<found, minted, approved, refused, succeeded, history, pending>>
        /\ pc[r] = "unused"
        /\ \A q \in Req \ {r} : pc'[q] = pc[q] /\ kind'[q] = kind[q]
    BY <1>1, <1>9 DEF Client, SendMessage, HandleApprove, HandleReject, Send, serverVars, TypeOK
  <2> QED
    BY <1>1, <2>1, QuietDecided
<1>10. ASSUME NEW r \in Req,
              \/ FailRequest(r) \/ EndLoop(r) \/ YieldDone(r) \/ Cancel(r) \/ LoseReject(r)
              \/ GiveUp(r) \/ Lapse(r)
       PROVE  DInv'
  <2>1. UNCHANGED <<kind, found, minted, approved, refused, succeeded, history, pending>>
    BY <1>10 DEF FailRequest, EndLoop, YieldDone, Cancel, LoseReject, GiveUp, Lapse,
                 serverVars, requestVars
  <2>2. \A q \in Req : pc[q] \notin {"unused", "sent", "running"} =>
          pc'[q] \notin {"unused", "sent", "running"}
    BY <1>1, <1>10 DEF FailRequest, EndLoop, YieldDone, Cancel, LoseReject, GiveUp, Lapse,
                       requestVars, TypeOK
  <2> QED
    BY <1>1, <2>1, <2>2, QuietDecided
<1>11. CASE CloseCard \/ NewConversation \/ UNCHANGED vars
  <2>1. UNCHANGED <<pc, kind, found, minted, approved, refused, succeeded, history, pending>>
    BY <1>11 DEF CloseCard, NewConversation, vars, requestVars, serverVars
  <2> QED
    BY <1>1, <2>1, QuietDecided
<1>12. CASE Restart
  <2>1. /\ UNCHANGED <<kind, found, minted, approved, refused, succeeded>>
        /\ \A o \in Req : history'[o] = {} /\ pending'[o] = {}
        /\ \A q \in Req : pc'[q] = pc[q] \/ pc'[q] = "lost"
    BY <1>1, <1>12 DEF Restart, TypeOK
  <2> QED
    BY <1>1, <2>1, QuietDecided
<1> QED
  BY <1>2, <1>3, <1>4, <1>5, <1>6, <1>7, <1>8, <1>9, <1>10, <1>11, <1>12
  DEF Next, Server, Stream, Approve

\* Once the history of a conversation tells the LLM what became of an action,
\* the action is not pending there again, whatever overlaps, is cancelled,
\* expires or restarts: a proposal becomes pending once, when the stream that
\* minted its actions ends.
THEOREM DecidedForGood == Spec => []DecidedStaysDecided
<1>1. DInv => DecidedStaysDecided
  BY DEF DInv, ToldOK, DecidedStaysDecided
<1> QED
  BY InitDInv, NextDInv, <1>1, PTL DEF Spec

(***************************************************************************)
(* With one request at a time, still for every set of requests and         *)
(* actions: whatever rejections get lost, conversations expire and         *)
(* restarts happen, a write is applied at most once and the history never  *)
(* denies it; and unless the service restarts, the endpoints, the store    *)
(* and the tab implement ApprovalFlow.                                     *)
(***************************************************************************)

\* The tab neither gives up a response nor starts a new conversation during
\* one, and rejections do not arrive late: it sends its requests one by one.
Orderly == Faults \subseteq {"lostreject", "lapse", "restart"}

Active(r) == pc[r] = "sent" \/ Serving(r)

\* The tab waits for the answer to each request before it sends the next.
Alone ==
  /\ \A q, r \in Req : Active(q) /\ Active(r) => q = r
  /\ \A r \in Req : Active(r) /\ kind[r] # "reject" => busy /\ r \in listening
  /\ \A r \in Req : Serving(r) => kind[r] # "reject"

\* While stream r is served nothing is pending in its conversation.
StreamOK(r) ==
  Serving(r) /\ kind[r] = "stream" =>
    pending[obj[r]] = {} /\ store[key[r]] \in {None, obj[r]}

\* What an approve request deals with, and how far it is.
ListsOK(r) ==
  /\ todo[r] \subseteq approved[r] /\ succeeded[r] \subseteq approved[r]
  /\ todo[r] \cap succeeded[r] = {} /\ approved[r] \cap refused[r] = {}
  /\ kind[r] # "approve" \/ pc[r] \in {"unused", "sent"} =>
       approved[r] = {} /\ refused[r] = {}

\* It divides what is pending in its conversation, which stays there.
ApproveOK(r) ==
  Serving(r) /\ kind[r] = "approve" =>
    /\ approved[r] \cup refused[r] = pending[obj[r]]
    /\ store[key[r]] = obj[r]
    /\ pc[r] \in {"done", "tail"} => todo[r] = {}

\* No other object has what an approve request dealt with, and none at all
\* when it has ended.
Dealt(r) ==
  \A a \in approved[r] \cup refused[r] : \A o \in Req :
    a \in pending[o] => Serving(r) /\ o = obj[r]

\* An action is pending in one object and approved in one request.
Apart ==
  /\ \A o, p \in Req : o # p => pending[o] \cap pending[p] = {}
  /\ \A q, r \in Req : q # r => approved[q] \cap approved[r] = {}

\* What was told is not pending anywhere, and what ran was counted.
Truth ==
  /\ \A o, p \in Req : \A h \in history[o] : h.action \notin pending[p]
  /\ \A x \in ran : x[2] \in succeeded[x[1]]
  /\ HistoryTruthful

\* What the client holds of a proposal.
ClientOK ==
  /\ \A c \in cards : c \subseteq minted
  /\ \A r \in Req : pc[r] = "unused" => ids[r] = {}

RInv ==
  /\ DInv /\ Alone /\ Apart /\ Truth /\ ClientOK
  /\ \A r \in Req : StreamOK(r) /\ ListsOK(r) /\ ApproveOK(r) /\ Dealt(r)

LEMMA InitRInv == Init => RInv
<1> SUFFICES ASSUME Init PROVE RInv
  OBVIOUS
<1>1. Alone /\ Apart /\ ClientOK
  BY DEF Init, Alone, Active, Serving, Apart, ClientOK
<1>2. Truth
  BY DEF Init, Truth, HistoryTruthful
<1>3. \A r \in Req : StreamOK(r) /\ ListsOK(r) /\ ApproveOK(r) /\ Dealt(r)
  BY DEF Init, StreamOK, ListsOK, ApproveOK, Dealt, Serving
<1> QED
  BY <1>1, <1>2, <1>3, InitDInv DEF RInv

\* The steps of requests that are left.
Step(r) ==
  \/ SendMessage(r) \/ HandleApprove(r) \/ HandleReject(r)
  \/ BeginStream(r) \/ AgentDone(r) \/ YieldDone(r) \/ SaveProposal(r) \/ FailRequest(r)
  \/ BeginApprove(r) \/ (\E a \in Action : Execute(r, a)) \/ EndLoop(r) \/ RecordResults(r)
  \/ RejectAll(r) \/ LoseReject(r)

LEMMA OrderlySteps ==
  ASSUME Orderly, Alone, [Next]_vars
  PROVE  \/ \E r \in Req : Step(r) \/ Lapse(r)
         \/ CloseCard \/ UNCHANGED vars
         \/ "restart" \in Faults /\ Restart
<1>1. \A r \in Req : ~Cancel(r)
  BY DEF Alone, Active, Cancel
<1>2. \A r \in Req : ~GiveUp(r)
  BY DEF Orderly, GiveUp, Fault
<1>3. ~NewConversation
  BY DEF Orderly, NewConversation, Fault
<1>4. Restart => "restart" \in Faults
  BY DEF Restart, Fault
<1> QED
  BY <1>1, <1>2, <1>3, <1>4 DEF Next, Client, Server, Stream, Approve, Step

-----------------------------------------------------------------------------
(***************************************************************************)
(* One request at a time.                                                  *)
(***************************************************************************)
\* While request r is active no other is.
LEMMA OthersIdle ==
  ASSUME Alone, NEW r \in Req, Active(r), NEW q \in Req \ {r}
  PROVE  ~Active(q) /\ ~Serving(q) /\ pc[q] \notin {"sent", "running", "done", "tail"}
BY DEF Alone, Active, Serving

\* While the tab is not busy no request is active when the next is sent.
LEMMA SendIdle ==
  ASSUME Orderly, TypeOK, Alone, ~busy, InOrder, NEW q \in Req
  PROVE  ~Active(q)
BY DEF Orderly, Alone, Active, InOrder, TypeOK, Kind

\* A step of the server keeps to its request.
LEMMA ServerAlone ==
  ASSUME TypeOK, Alone, NEW r \in Req, Active(r), UNCHANGED kind,
         \A q \in Req \ {r} : pc'[q] = pc[q],
         \/ Active(r)' /\ UNCHANGED <<busy, listening>> /\ (Serving(r)' => kind[r] # "reject")
         \/ ~Active(r)'
  PROVE  Alone'
<1>1. \A q \in Req \ {r} : ~Active(q)' /\ ~Serving(q)'
  BY OthersIdle DEF Active, Serving
<1>2. Serving(r)' => Active(r)'
  BY DEF Active
<1> QED
  BY <1>1, <1>2 DEF Alone

\* An entry that get finds stays; one that has expired is deleted.
LEMMA GetCases ==
  ASSUME TypeOK, NEW k \in Req \cup {None}
  PROVE  /\ Lookup(k) # None => k \in Req /\ store[k] = Lookup(k) /\ AfterGet(k) = store
         /\ \/ AfterGet(k) = store /\ (k \in Req => Lookup(k) = store[k])
            \/ k \in Req /\ AfterGet(k) = [store EXCEPT ![k] = None] /\ Lookup(k) = None
BY NoneAssumption DEF AfterGet, Lookup, TypeOK

LEMMA SendAlone ==
  ASSUME Orderly, TypeOK, Alone, NEW r \in Req, ~busy, InOrder,
         NEW k \in Kind, pc' = [pc EXCEPT ![r] = "sent"], kind' = [kind EXCEPT ![r] = k],
         k # "reject" => busy' /\ r \in listening'
  PROVE  Alone'
<1>1. \A q \in Req \ {r} : ~Active(q)' /\ ~Serving(q)'
  BY SendIdle DEF Active, Serving, TypeOK
<1>2. ~Serving(r)' /\ kind'[r] = k
  BY DEF Serving, TypeOK
<1> QED
  BY <1>1, <1>2 DEF Alone

LEMMA NextAlone ==
  ASSUME Orderly, IInv, Alone, NEW r \in Req, Step(r)
  PROVE  Alone'
<1>0. TypeOK
  BY DEF IInv
<1> USE DEF StopReading, serverVars, clientVars
<1>1. CASE SendMessage(r)
  <2>1. /\ ~busy /\ InOrder /\ pc' = [pc EXCEPT ![r] = "sent"]
        /\ kind' = [kind EXCEPT ![r] = "stream"]
        /\ busy' /\ r \in listening' /\ "stream" \in Kind
    BY <1>1 DEF SendMessage, Send, Kind
  <2> QED
    BY <1>0, <2>1, SendAlone
<1>2. CASE HandleApprove(r)
  <2>1. /\ ~busy /\ InOrder /\ pc' = [pc EXCEPT ![r] = "sent"]
        /\ kind' = [kind EXCEPT ![r] = "approve"]
        /\ busy' /\ r \in listening' /\ "approve" \in Kind
    BY <1>2 DEF HandleApprove, Send, Kind
  <2> QED
    BY <1>0, <2>1, SendAlone
<1>3. CASE HandleReject(r)
  <2>1. /\ ~busy /\ InOrder /\ pc' = [pc EXCEPT ![r] = "sent"]
        /\ kind' = [kind EXCEPT ![r] = "reject"] /\ "reject" \in Kind
    BY <1>3 DEF HandleReject, Send, Kind
  <2> QED
    BY <1>0, <2>1, SendAlone
<1>4. CASE BeginStream(r) \/ AgentDone(r) \/ YieldDone(r) \/ EndLoop(r)
  <2>1. /\ pc[r] \in {"running", "done"} \/ (pc[r] = "sent" /\ kind[r] = "stream")
        /\ UNCHANGED <<kind, busy, listening>>
        /\ \E p \in {"running", "done", "tail"} : pc' = [pc EXCEPT ![r] = p]
    <3>1. CASE BeginStream(r)
      BY <3>1 DEF BeginStream
    <3>2. CASE AgentDone(r) \/ YieldDone(r) \/ EndLoop(r)
      BY <3>2 DEF AgentDone, YieldDone, EndLoop
    <3> QED
      BY <1>4, <3>1, <3>2
  <2>2. Active(r) /\ Active(r)' /\ kind[r] # "reject" /\ \A q \in Req \ {r} : pc'[q] = pc[q]
    BY <1>0, <2>1 DEF Active, Serving, TypeOK, Alone
  <2> QED
    BY <1>0, <2>1, <2>2, ServerAlone
<1>5. CASE SaveProposal(r) \/ RecordResults(r) \/ FailRequest(r) \/ RejectAll(r) \/ LoseReject(r)
  <2>1. /\ pc[r] \in {"sent", "running", "tail"} /\ UNCHANGED kind
        /\ \E p \in {"over", "lost"} : pc' = [pc EXCEPT ![r] = p]
    BY <1>5 DEF SaveProposal, RecordResults, FailRequest, RejectAll, LoseReject
  <2>2. Active(r) /\ ~Active(r)' /\ \A q \in Req \ {r} : pc'[q] = pc[q]
    BY <1>0, <2>1 DEF Active, Serving, TypeOK
  <2> QED
    BY <1>0, <2>1, <2>2, ServerAlone
<1>6. CASE BeginApprove(r)
  <2>1. /\ pc[r] = "sent" /\ kind[r] = "approve" /\ UNCHANGED kind
        /\ \/ pc' = [pc EXCEPT ![r] = "lost"]
           \/ pc' = [pc EXCEPT ![r] = "running"] /\ UNCHANGED <<busy, listening>>
    BY <1>6 DEF BeginApprove
  <2>2. /\ Active(r) /\ \A q \in Req \ {r} : pc'[q] = pc[q]
        /\ \/ ~Active(r)'
           \/ Active(r)' /\ UNCHANGED <<busy, listening>>
    BY <1>0, <2>1 DEF Active, Serving, TypeOK
  <2> QED
    BY <1>0, <2>1, <2>2, ServerAlone
<1>7. ASSUME NEW a \in Action, Execute(r, a) PROVE Alone'
  BY <1>7 DEF Execute, Alone, Active, Serving
<1> QED
  BY <1>1, <1>2, <1>3, <1>4, <1>5, <1>6, <1>7 DEF Step

\* A card shows minted actions only, and an unused request asks for nothing.
LEMMA NextClient ==
  ASSUME IInv, ClientOK, NEW r \in Req, Step(r)
  PROVE  ClientOK'
<1>0. TypeOK
  BY DEF IInv
<1>1. \A q \in Req : pc'[q] = "unused" => ids'[q] = {}
  <2>1. \A q \in Req : pc'[q] = "unused" => pc[q] = "unused" /\ ids'[q] = ids[q]
    BY <1>0 DEF Step, SendMessage, HandleApprove, HandleReject, Send, BeginStream, AgentDone,
             YieldDone, SaveProposal, FailRequest, BeginApprove, Execute, EndLoop,
             RecordResults, RejectAll, LoseReject, requestVars, TypeOK
  <2> QED
    BY <2>1 DEF ClientOK
<1>2. \A c \in cards' : c \subseteq minted'
  <2>1. CASE AgentDone(r)
    BY <2>1 DEF AgentDone, ClientOK
  <2>2. CASE ~AgentDone(r)
    <3>1. UNCHANGED <<cards, minted>>
      BY <2>2 DEF Step, SendMessage, HandleApprove, HandleReject, Send, BeginStream,
             YieldDone, SaveProposal, FailRequest, BeginApprove, Execute, EndLoop,
             RecordResults, RejectAll, LoseReject, clientVars, requestVars
    <3> QED
      BY <3>1 DEF ClientOK
  <2> QED
    BY <2>1, <2>2
<1> QED
  BY <1>1, <1>2 DEF ClientOK

-----------------------------------------------------------------------------
(***************************************************************************)
(* What is pending, what is approved and what was told.                    *)
(***************************************************************************)
Lists(r) == StreamOK(r) /\ ListsOK(r) /\ ApproveOK(r) /\ Dealt(r)

Core == Apart /\ Truth /\ \A r \in Req : Lists(r)

LEMMA RInvParts == RInv <=> DInv /\ Alone /\ ClientOK /\ Core
BY DEF RInv, Core, Lists

\* What is pending is nothing another request than the active one approved,
\* refused or ran.
LEMMA PendingUntouched ==
  ASSUME RInv, NEW r \in Req, Active(r), NEW o \in Req, NEW a \in pending[o],
         NEW q \in Req, q # r \/ pc[r] = "sent"
  PROVE  a \notin approved[q] \cup refused[q] /\ <<q, a>> \notin ran
<1>1. a \notin approved[q] \cup refused[q]
  <2>1. CASE q # r
    <3>1. ~Serving(q)
      BY <2>1, OthersIdle DEF RInv
    <3> QED
      BY <3>1 DEF RInv, Dealt
  <2>2. CASE q = r
    BY <2>2 DEF RInv, ListsOK
  <2> QED
    BY <2>1, <2>2
<1>2. <<q, a>> \in ran => a \in succeeded[q]
  BY DEF RInv, Truth
<1> QED
  BY <1>1, <1>2 DEF RInv, ListsOK

\* Steps that change no list.
LEMMA QuietCore ==
  ASSUME Core, UNCHANGED <<approved, refused, todo, succeeded, pending, history, ran, obj>>,
         \A q \in Req : Serving(q)' =>
           Serving(q) /\ kind'[q] = kind[q] /\ key'[q] = key[q] /\ UNCHANGED store,
         \A q \in Req : Serving(q) => Serving(q)' \/ kind[q] # "approve",
         \A q \in Req : kind'[q] # "approve" \/ pc'[q] \in {"unused", "sent"} =>
           kind[q] # "approve" \/ pc[q] \in {"unused", "sent"},
         \A q \in Req : pc'[q] \in {"done", "tail"} /\ kind'[q] = "approve" =>
           pc[q] \in {"done", "tail"} \/ todo[q] = {}
  PROVE  Core'
<1>1. Apart'
  BY DEF Core, Apart
<1>2. Truth'
  BY DEF Core, Truth, HistoryTruthful
<1>3. ASSUME NEW q \in Req PROVE Lists(q)'
  <2>1. Lists(q)
    BY DEF Core
  <2>2. StreamOK(q)'
    BY <2>1 DEF Lists, StreamOK
  <2>3. ListsOK(q)'
    BY <2>1 DEF Lists, ListsOK
  <2>4. ApproveOK(q)'
    BY <2>1 DEF Lists, ApproveOK
  <2>5. Dealt(q)'
    BY <2>1 DEF Lists, Dealt, ListsOK
  <2> QED
    BY <2>2, <2>3, <2>4, <2>5 DEF Lists
<1> QED
  BY <1>1, <1>2, <1>3 DEF Core

\* Object o is told of what was pending in it, and has nothing pending.
LEMMA ClearApart ==
  ASSUME TypeOK, Apart, Truth, NEW o \in Req, NEW V,
         pending' = [pending EXCEPT ![o] = {}],
         history' = [history EXCEPT ![o] = @ \cup V],
         UNCHANGED <<approved, succeeded, ran>>,
         \A h \in V : h.action \in pending[o],
         \A h \in V : h.verdict # "executed" => \A q \in Req : <<q, h.action>> \notin ran
  PROVE  Apart' /\ Truth'
<1>1. \A p \in Req : pending'[p] = IF p = o THEN {} ELSE pending[p]
  BY DEF TypeOK
<1>2. \A p \in Req : history'[p] = IF p = o THEN history[p] \cup V ELSE history[p]
  BY DEF TypeOK
<1>3. Apart'
  BY <1>1 DEF Apart
<1>4. ASSUME NEW c \in Req, NEW p \in Req, NEW h \in history'[c]
      PROVE  h.action \notin pending'[p]
  <2>1. CASE h \in history[c]
    BY <1>1, <2>1 DEF Truth
  <2>2. CASE h \in V
    BY <1>1, <2>2 DEF Apart
  <2> QED
    BY <1>2, <2>1, <2>2
<1>5. HistoryTruthful'
  <2> SUFFICES ASSUME NEW c \in Req, NEW h \in history'[c], h.verdict # "executed",
                      NEW q \in Req
               PROVE  <<q, h.action>> \notin ran
    BY DEF HistoryTruthful
  <2>1. CASE h \in history[c]
    BY <2>1 DEF Truth, HistoryTruthful
  <2>2. CASE h \in V
    BY <2>2
  <2> QED
    BY <1>2, <2>1, <2>2
<1> QED
  BY <1>3, <1>4, <1>5 DEF Truth

\* A step of request r that leaves the lists of the others alone, and no
\* object with anything more pending.
LEMMA OthersLists ==
  ASSUME TypeOK, Alone, \A q \in Req : Lists(q), NEW r \in Req, Active(r),
         \A q \in Req \ {r} : /\ pc'[q] = pc[q] /\ kind'[q] = kind[q]
                              /\ approved'[q] = approved[q] /\ refused'[q] = refused[q]
                              /\ todo'[q] = todo[q] /\ succeeded'[q] = succeeded[q],
         NEW q \in Req \ {r},
         \A o \in Req : \A a \in pending'[o] : a \in pending[o] \/ a \notin approved[q] \cup refused[q]
  PROVE  Lists(q)'
<1>1. ~Serving(q) /\ ~Serving(q)' /\ Lists(q)
  BY OthersIdle DEF Serving
<1>2. StreamOK(q)' /\ ApproveOK(q)'
  BY <1>1 DEF StreamOK, ApproveOK
<1>3. ListsOK(q)'
  BY <1>1 DEF Lists, ListsOK
<1>4. Dealt(q)'
  BY <1>1 DEF Lists, Dealt
<1> QED
  BY <1>2, <1>3, <1>4 DEF Lists

\* An object with something pending is the one its conversation has stored.
LEMMA BeginStreamFacts ==
  ASSUME RInv, NEW r \in Req, BeginStream(r)
  PROVE  \E k \in Req, o \in Req :
           /\ pc[r] = "sent" /\ kind[r] = "stream" /\ pc' = [pc EXCEPT ![r] = "running"]
           /\ key' = [key EXCEPT ![r] = k] /\ obj' = [obj EXCEPT ![r] = o]
           /\ pending' = [pending EXCEPT ![o] = {}]
           /\ history' = [history EXCEPT ![o] = @ \cup Verdicts(pending[o], "discarded")]
           /\ store'[k] \in {None, o} /\ (pending[o] # {} => store[k] = o)
           /\ \/ store' = store
              \/ store' = [store EXCEPT ![k] = None] /\ pending' = pending
           /\ UNCHANGED <<kind, ids, found, approved, todo, refused, succeeded, minted, ran>>
<1> DEFINE k == IF key[r] = None THEN r ELSE key[r]
           o == IF Lookup(k) = None THEN r ELSE Lookup(k)
<1>1. /\ TypeOK /\ \A c \in Req : HolderOK(c) /\ PendingOK(c)
      /\ k \in Req /\ o \in Req
  BY StoreType DEF RInv, DInv, IInv, TypeOK
<1>2. /\ pc[r] = "sent" /\ kind[r] = "stream" /\ pc' = [pc EXCEPT ![r] = "running"]
      /\ key' = [key EXCEPT ![r] = k] /\ obj' = [obj EXCEPT ![r] = o]
      /\ UNCHANGED <<kind, ids, found, approved, todo, refused, succeeded, minted, ran>>
  BY DEF BeginStream
<1>3. /\ IF pending[o] # {}
           THEN /\ history' = [history EXCEPT ![o] = @ \cup Verdicts(pending[o], "discarded")]
                /\ pending' = [pending EXCEPT ![o] = {}]
                /\ Put(k, o)
           ELSE store' = AfterGet(k) /\ UNCHANGED <<pending, history>>
  BY DEF BeginStream
<1>4. /\ Lookup(k) # None => store[k] = Lookup(k) /\ AfterGet(k) = store
      /\ \/ AfterGet(k) = store /\ Lookup(k) = store[k]
         \/ AfterGet(k) = [store EXCEPT ![k] = None] /\ Lookup(k) = None
  BY <1>1, GetCases
<1>5. o = IF Lookup(k) = None THEN r ELSE Lookup(k)
  OBVIOUS
<1> HIDE DEF k, o
<1>6. ASSUME pending[o] # {} PROVE store[k] = o
  <2>1. obj[o] = o
    BY <1>1, <1>6 DEF PendingOK
  <2>2. obj[r] = None
    BY <1>1, <1>2 DEF HolderOK
  <2> QED
    BY <1>1, <1>4, <1>5, <2>1, <2>2, NoneAssumption
<1>7. /\ store'[k] \in {None, o}
      /\ \/ store' = store
         \/ store' = [store EXCEPT ![k] = None] /\ pending' = pending
  <2>1. CASE pending[o] # {}
    <3>1. store' = [store EXCEPT ![k] = o] /\ store[k] = o
      BY <1>3, <1>6, <2>1 DEF Put
    <3>2. store \in [Req -> Req \cup {None}] /\ k \in Req
      BY <1>1 DEF TypeOK
    <3> QED
      BY <3>1, <3>2
  <2>2. CASE pending[o] = {}
    <3>1. store' = AfterGet(k) /\ pending' = pending
      BY <1>3, <2>2
    <3>2. CASE AfterGet(k) = store /\ Lookup(k) = store[k]
      BY <1>5, <3>1, <3>2
    <3>3. CASE AfterGet(k) = [store EXCEPT ![k] = None]
      <4>1. store \in [Req -> Req \cup {None}] /\ k \in Req
        BY <1>1 DEF TypeOK
      <4> QED
        BY <3>1, <3>3, <4>1
    <3> QED
      BY <1>4, <3>2, <3>3
  <2> QED
    BY <2>1, <2>2
<1>8. pending' = [pending EXCEPT ![o] = {}]
  BY <1>1, <1>3 DEF TypeOK
<1>9. history' = [history EXCEPT ![o] = @ \cup Verdicts(pending[o], "discarded")]
  <2>1. CASE pending[o] = {}
    <3>1. Verdicts(pending[o], "discarded") = {}
      BY <2>1 DEF Verdicts
    <3> QED
      BY <1>1, <1>3, <2>1, <3>1 DEF TypeOK
  <2>2. CASE pending[o] # {}
    BY <1>3, <2>2
  <2> QED
    BY <2>1, <2>2
<1> QED
  BY <1>1, <1>2, <1>6, <1>7, <1>8, <1>9

LEMMA RejectAllFacts ==
  ASSUME RInv, NEW r \in Req, RejectAll(r)
  PROVE  /\ pc[r] = "sent" /\ kind[r] = "reject" /\ pc' = [pc EXCEPT ![r] = "over"]
         /\ UNCHANGED <<kind, key, ids, obj, found, approved, todo, refused,
                        succeeded, minted, ran>>
         /\ \/ UNCHANGED <<pending, history>> /\ key[r] \in Req \cup {None}
               /\ store' = AfterGet(key[r])
            \/ \E o \in Req :
                 /\ pending' = [pending EXCEPT ![o] = {}]
                 /\ history' = [history EXCEPT ![o] = @ \cup Verdicts(pending[o], "rejected")]
                 /\ store[key[r]] = o /\ key[r] \in Req /\ UNCHANGED store
<1> DEFINE o == Lookup(key[r])
<1>1. TypeOK /\ key[r] \in Req \cup {None}
  BY DEF RInv, DInv, IInv, TypeOK
<1>2. /\ pc[r] = "sent" /\ kind[r] = "reject" /\ pc' = [pc EXCEPT ![r] = "over"]
      /\ UNCHANGED <<kind, key, ids, obj, found, approved, todo, refused, succeeded,
                     minted, ran>>
  BY DEF RejectAll
<1>3. o # None => o \in Req /\ key[r] \in Req /\ store[key[r]] = o
  BY <1>1, StoreType
<1>4. CASE o = None
  BY <1>1, <1>2, <1>4 DEF RejectAll
<1>5. CASE o # None
  <2>1. /\ pending' = [pending EXCEPT ![o] = {}]
        /\ history' = [history EXCEPT ![o] = @ \cup Verdicts(pending[o], "rejected")]
        /\ Put(key[r], o)
    BY <1>5 DEF RejectAll
  <2> HIDE DEF o
  <2>2. UNCHANGED store
    BY <1>1, <1>3, <1>5, <2>1 DEF Put, TypeOK
  <2> QED
    BY <1>2, <1>3, <1>5, <2>1, <2>2
<1> QED
  BY <1>4, <1>5

\* A message or a rejection clears what is pending when it arrives.
LEMMA ClearCore ==
  ASSUME RInv, NEW r \in Req, pc[r] = "sent", NEW o \in Req,
         NEW v \in {"discarded", "rejected"},
         pending' = [pending EXCEPT ![o] = {}],
         history' = [history EXCEPT ![o] = @ \cup Verdicts(pending[o], v)],
         UNCHANGED <<kind, approved, todo, refused, succeeded, ran>>,
         \A q \in Req \ {r} : pc'[q] = pc[q],
         kind[r] # "approve", StreamOK(r)'
  PROVE  Core'
<1>1. TypeOK /\ Apart /\ Truth /\ Alone /\ Active(r) /\ \A q \in Req : Lists(q)
  BY DEF RInv, DInv, IInv, Active, Lists
<1>2. PICK V : V = Verdicts(pending[o], v)
  OBVIOUS
<1>3. /\ \A h \in V : h.action \in pending[o]
      /\ \A h \in V : h.verdict # "executed" => \A q \in Req : <<q, h.action>> \notin ran
  BY <1>1, <1>2, VerdictsAction, PendingUntouched
<1>4. history' = [history EXCEPT ![o] = @ \cup V]
  BY <1>2
<1>5. Apart' /\ Truth'
  BY <1>1, <1>3, <1>4, ClearApart
<1>6. ASSUME NEW q \in Req \ {r} PROVE Lists(q)'
  <2>1. \A p \in Req : \A a \in pending'[p] : a \in pending[p]
    BY <1>1 DEF TypeOK
  <2> QED
    BY <1>1, <2>1, OthersLists
<1>7. approved[r] = {} /\ refused[r] = {} /\ ListsOK(r)
  BY <1>1 DEF Lists, ListsOK
<1>8. Lists(r)'
  <2>1. ListsOK(r)'
    BY <1>7 DEF ListsOK
  <2>2. Dealt(r)' /\ ApproveOK(r)'
    BY <1>7 DEF Dealt, ApproveOK
  <2> QED
    BY <2>1, <2>2 DEF Lists
<1> QED
  BY <1>5, <1>6, <1>8 DEF Core

LEMMA BeginStreamCore ==
  ASSUME RInv, NEW r \in Req, BeginStream(r) PROVE Core'
<1>1. PICK k \in Req, o \in Req :
           /\ pc[r] = "sent" /\ kind[r] = "stream" /\ pc' = [pc EXCEPT ![r] = "running"]
           /\ key' = [key EXCEPT ![r] = k] /\ obj' = [obj EXCEPT ![r] = o]
           /\ pending' = [pending EXCEPT ![o] = {}]
           /\ history' = [history EXCEPT ![o] = @ \cup Verdicts(pending[o], "discarded")]
           /\ store'[k] \in {None, o}
           /\ UNCHANGED <<kind, approved, todo, refused, succeeded, ran>>
  BY BeginStreamFacts
<1>2. TypeOK
  BY DEF RInv, DInv, IInv
<1>3. StreamOK(r)'
  BY <1>1, <1>2 DEF StreamOK, TypeOK
<1>4. \A q \in Req \ {r} : pc'[q] = pc[q]
  BY <1>1, <1>2 DEF TypeOK
<1> QED
  BY <1>1, <1>3, <1>4, ClearCore

LEMMA RejectAllCore ==
  ASSUME RInv, NEW r \in Req, RejectAll(r) PROVE Core'
<1>0. /\ TypeOK /\ Core /\ Alone /\ pc[r] = "sent" /\ kind[r] = "reject"
      /\ pc' = [pc EXCEPT ![r] = "over"]
      /\ UNCHANGED <<kind, key, obj, approved, todo, refused, succeeded, ran>>
  BY RejectAllFacts, RInvParts DEF DInv, IInv
<1>1. \A q \in Req \ {r} : pc'[q] = pc[q]
  BY <1>0 DEF TypeOK
<1>2. CASE UNCHANGED <<pending, history>>
  <2>1. \A q \in Req : /\ ~Serving(q)' /\ ~Serving(q)
                       /\ pc'[q] \in {"done", "tail"} => pc[q] \in {"done", "tail"}
                       /\ pc'[q] \in {"unused", "sent"} => pc[q] \in {"unused", "sent"}
    BY <1>0, OthersIdle DEF TypeOK, Serving, Active
  <2> QED
    BY <1>0, <1>2, <2>1, QuietCore
<1>3. ASSUME NEW o \in Req, pending' = [pending EXCEPT ![o] = {}],
             history' = [history EXCEPT ![o] = @ \cup Verdicts(pending[o], "rejected")]
      PROVE  Core'
  <2>1. StreamOK(r)'
    BY <1>0 DEF StreamOK, Serving, TypeOK
  <2> QED
    BY <1>0, <1>1, <1>3, <2>1, ClearCore
<1> QED
  BY <1>2, <1>3, RejectAllFacts

LEMMA SaveProposalFacts ==
  ASSUME RInv, NEW r \in Req, SaveProposal(r)
  PROVE  /\ pc[r] = "tail" /\ kind[r] = "stream" /\ pc' = [pc EXCEPT ![r] = "over"]
         /\ obj[r] \in Req /\ key[r] \in Req
         /\ pending[obj[r]] = {} /\ pending' = [pending EXCEPT ![obj[r]] = found[r]]
         /\ store[key[r]] \in {None, obj[r]} /\ store' = [store EXCEPT ![key[r]] = obj[r]]
         /\ \A a \in found[r] : ~Past(a)
         /\ UNCHANGED <<kind, key, ids, obj, found, approved, todo, refused,
                        succeeded, history, minted, ran>>
<1>1. /\ pc[r] = "tail" /\ kind[r] = "stream" /\ pc' = [pc EXCEPT ![r] = "over"]
      /\ pending' = [pending EXCEPT ![obj[r]] = found[r]]
      /\ store' = [store EXCEPT ![key[r]] = obj[r]]
      /\ UNCHANGED <<kind, key, ids, obj, found, approved, todo, refused,
                     succeeded, history, minted, ran>>
  BY DEF SaveProposal, Put
<1>2. obj[r] \in Req /\ key[r] \in Req
  BY <1>1 DEF RInv, DInv, IInv, HolderOK, Serving, TypeOK
<1>3. pending[obj[r]] = {} /\ store[key[r]] \in {None, obj[r]}
  BY <1>1 DEF RInv, StreamOK, Serving
<1>4. \A a \in found[r] : ~Past(a)
  BY <1>1 DEF RInv, DInv, FoundOK, Past
<1> QED
  BY <1>1, <1>2, <1>3, <1>4

\* A proposal that becomes pending is news to everybody.
LEMMA SaveProposalCore ==
  ASSUME RInv, NEW r \in Req, SaveProposal(r) PROVE Core'
<1>1. /\ TypeOK /\ Apart /\ Truth /\ Alone /\ \A q \in Req : Lists(q) /\ HandledOK(q) /\ ToldOK(q)
      /\ \A q \in Req : \A a \in pending[q] : Past(a)
  BY PendingPast DEF RInv, DInv, IInv, Lists
<1>2. PICK o \in Req, S \in SUBSET Action :
        /\ pending' = [pending EXCEPT ![o] = S] /\ \A a \in S : ~Past(a)
        /\ pc[r] = "tail" /\ kind[r] = "stream" /\ pc' = [pc EXCEPT ![r] = "over"]
        /\ UNCHANGED <<kind, key, obj, approved, todo, refused, succeeded, history, ran>>
  <2>1. PICK o \in Req, S \in SUBSET Action : o = obj[r] /\ S = found[r]
    BY <1>1, SaveProposalFacts DEF TypeOK
  <2>2. pending' = [pending EXCEPT ![o] = S] /\ \A a \in S : ~Past(a)
    BY <2>1, SaveProposalFacts
  <2> QED
    BY <2>2, SaveProposalFacts
<1>3. \A p \in Req : pending'[p] = IF p = o THEN S ELSE pending[p]
  BY <1>1, <1>2 DEF TypeOK
<1>4. Apart'
  BY <1>1, <1>2, <1>3 DEF Apart
<1>5. Truth'
  <2>1. \A c, p \in Req : \A h \in history'[c] : h.action \notin pending'[p]
    BY <1>1, <1>2, <1>3 DEF Truth, ToldOK
  <2> QED
    BY <1>1, <1>2, <2>1 DEF Truth, HistoryTruthful
<1>6. Active(r) /\ \A q \in Req \ {r} : pc'[q] = pc[q]
  BY <1>1, <1>2 DEF Active, Serving, TypeOK
<1>7. ASSUME NEW q \in Req \ {r} PROVE Lists(q)'
  <2>1. \A p \in Req : \A a \in pending'[p] :
          a \in pending[p] \/ a \notin approved[q] \cup refused[q]
    BY <1>1, <1>2, <1>3 DEF HandledOK
  <2> QED
    BY <1>1, <1>2, <1>6, <2>1, OthersLists
<1>8. Lists(r)'
  <2>1. approved[r] = {} /\ refused[r] = {} /\ ListsOK(r) /\ ~Serving(r)'
    BY <1>1, <1>2 DEF Lists, ListsOK, Serving, TypeOK
  <2> QED
    BY <1>1, <1>2, <2>1 DEF Lists, ListsOK, StreamOK, ApproveOK, Dealt
<1> QED
  BY <1>4, <1>5, <1>7, <1>8 DEF Core

LEMMA BeginApproveFacts ==
  ASSUME RInv, NEW r \in Req, BeginApprove(r)
  PROVE  /\ pc[r] = "sent" /\ kind[r] = "approve" /\ key[r] \in Req \cup {None}
         /\ store' = AfterGet(key[r])
         /\ UNCHANGED <<kind, key, ids, found, succeeded, pending, history, minted, ran>>
         /\ \/ /\ pc' = [pc EXCEPT ![r] = "lost"]
               /\ UNCHANGED <<obj, approved, todo, refused>>
            \/ \E o \in Req :
                 /\ pc' = [pc EXCEPT ![r] = "running"] /\ obj' = [obj EXCEPT ![r] = o]
                 /\ approved' = [approved EXCEPT ![r] = pending[o] \cap ids[r]]
                 /\ todo' = [todo EXCEPT ![r] = pending[o] \cap ids[r]]
                 /\ refused' = [refused EXCEPT ![r] = pending[o] \ ids[r]]
                 /\ store[key[r]] = o /\ key[r] \in Req /\ UNCHANGED store
<1> DEFINE o == Lookup(key[r])
<1>1. TypeOK /\ key[r] \in Req \cup {None}
  BY DEF RInv, DInv, IInv, TypeOK
<1>2. o # None => o \in Req /\ key[r] \in Req /\ store[key[r]] = o /\ AfterGet(key[r]) = store
  BY <1>1, GetCases, StoreType
<1>3. /\ pc[r] = "sent" /\ kind[r] = "approve" /\ store' = AfterGet(key[r])
      /\ UNCHANGED <<kind, key, ids, found, succeeded, pending, history, minted, ran>>
  BY DEF BeginApprove
<1>4. CASE o = None
  <2>1. pc' = [pc EXCEPT ![r] = "lost"] /\ UNCHANGED <<obj, approved, todo, refused>>
    BY <1>4 DEF BeginApprove
  <2> QED
    BY <1>1, <1>3, <2>1
<1>5. CASE o # None
  <2>1. /\ pc' = [pc EXCEPT ![r] = "running"] /\ obj' = [obj EXCEPT ![r] = o]
        /\ approved' = [approved EXCEPT ![r] = pending[o] \cap ids[r]]
        /\ todo' = [todo EXCEPT ![r] = pending[o] \cap ids[r]]
        /\ refused' = [refused EXCEPT ![r] = pending[o] \ ids[r]]
    BY <1>5 DEF BeginApprove
  <2> QED
    BY <1>1, <1>2, <1>3, <1>5, <2>1
<1> QED
  BY <1>4, <1>5

\* What an approve request finds pending, no other request has approved.
LEMMA BeginApproveCore ==
  ASSUME RInv, NEW r \in Req, BeginApprove(r) PROVE Core'
<1>1. /\ TypeOK /\ Apart /\ Truth /\ Alone /\ Core /\ \A q \in Req : Lists(q)
      /\ pc[r] = "sent" /\ kind[r] = "approve" /\ Active(r)
      /\ UNCHANGED <<kind, key, ids, found, succeeded, pending, history, minted, ran>>
  BY BeginApproveFacts DEF RInv, DInv, IInv, Lists, Core, Active
<1>2. ASSUME pc' = [pc EXCEPT ![r] = "lost"], UNCHANGED <<obj, approved, todo, refused>>
      PROVE  Core'
  <2>1. ASSUME NEW q \in Req
        PROVE /\ ~Serving(q)' /\ ~Serving(q)
              /\ pc'[q] \in {"done", "tail"} => pc[q] \in {"done", "tail"}
              /\ pc'[q] \in {"unused", "sent"} => pc[q] \in {"unused", "sent"}
    BY <1>1, <1>2, OthersIdle DEF TypeOK, Serving
  <2> QED
    BY <1>1, <1>2, <2>1, QuietCore
<1>3. ASSUME NEW o \in Req, NEW S \in SUBSET Action, NEW R \in SUBSET Action,
             S \cup R = pending[o], S \cap R = {},
             pc' = [pc EXCEPT ![r] = "running"], obj' = [obj EXCEPT ![r] = o],
             approved' = [approved EXCEPT ![r] = S], todo' = [todo EXCEPT ![r] = S],
             refused' = [refused EXCEPT ![r] = R], store[key[r]] = o, UNCHANGED store
      PROVE  Core'
  <2>1. /\ pc'[r] = "running" /\ obj'[r] = o /\ approved'[r] = S /\ todo'[r] = S
        /\ refused'[r] = R
        /\ \A q \in Req \ {r} : /\ pc'[q] = pc[q] /\ obj'[q] = obj[q]
                                /\ approved'[q] = approved[q] /\ todo'[q] = todo[q]
                                /\ refused'[q] = refused[q]
    BY <1>1, <1>3 DEF TypeOK
  <2>2. \A q \in Req \ {r} : approved[q] \cap S = {}
    BY <1>1, <1>3, PendingUntouched
  <2>3. Apart'
    BY <1>1, <2>1, <2>2 DEF Apart
  <2>4. Truth'
    BY <1>1 DEF Truth, HistoryTruthful
  <2>5. ASSUME NEW q \in Req \ {r} PROVE Lists(q)'
    BY <1>1, <2>1, OthersLists
  <2>6. Lists(r)'
    <3>1. succeeded[r] = {}
      BY <1>1 DEF Lists, ListsOK
    <3>2. ListsOK(r)'
      BY <1>1, <1>3, <2>1, <3>1 DEF ListsOK
    <3>3. ApproveOK(r)' /\ StreamOK(r)'
      BY <1>1, <1>3, <2>1 DEF ApproveOK, StreamOK
    <3>4. Dealt(r)'
      BY <1>1, <1>3, <2>1 DEF Dealt, Apart, Serving
    <3> QED
      BY <3>2, <3>3, <3>4 DEF Lists
  <2> QED
    BY <2>3, <2>4, <2>5, <2>6 DEF Core
<1>4. ASSUME NEW o \in Req,
             pc' = [pc EXCEPT ![r] = "running"], obj' = [obj EXCEPT ![r] = o],
             approved' = [approved EXCEPT ![r] = pending[o] \cap ids[r]],
             todo' = [todo EXCEPT ![r] = pending[o] \cap ids[r]],
             refused' = [refused EXCEPT ![r] = pending[o] \ ids[r]], store[key[r]] = o,
             UNCHANGED store
      PROVE  Core'
  <2>1. PICK S \in SUBSET Action, R \in SUBSET Action :
          S = pending[o] \cap ids[r] /\ R = pending[o] \ ids[r]
    BY <1>1 DEF TypeOK
  <2> QED
    BY <1>3, <1>4, <2>1
<1> QED
  BY <1>2, <1>4, BeginApproveFacts

\* What is executed is still pending, so nothing was said of it.
LEMMA ExecuteCore ==
  ASSUME RInv, NEW r \in Req, NEW a \in Action, Execute(r, a) PROVE Core'
<1>1. /\ TypeOK /\ Apart /\ Truth /\ Alone /\ \A q \in Req : Lists(q)
      /\ pc[r] = "running" /\ kind[r] = "approve" /\ a \in todo[r] /\ Serving(r)
  BY DEF RInv, DInv, IInv, Lists, Execute, Serving
<1>2. /\ todo' = [todo EXCEPT ![r] = @ \ {a}]
      /\ UNCHANGED <<store, pc, kind, key, obj, approved, refused, pending, history>>
      /\ \/ ran' = ran \cup {<<r, a>>} /\ succeeded' = [succeeded EXCEPT ![r] = @ \cup {a}]
         \/ ran' = ran /\ succeeded' = [succeeded EXCEPT ![r] = @ \cup {a}]
         \/ ran' = ran /\ succeeded' = succeeded
  BY DEF Execute, serverVars
<1>3. a \in pending[obj[r]] /\ obj[r] \in Req
  BY <1>1 DEF Lists, ListsOK, ApproveOK, RInv, DInv, IInv, HolderOK, TypeOK
<1>4. Apart'
  BY <1>1, <1>2 DEF Apart
<1>5. Truth'
  <2>1. \A x \in ran' : x[2] \in succeeded'[x[1]]
    <3>1. \A q \in Req : succeeded[q] \subseteq succeeded'[q]
      BY <1>1, <1>2 DEF TypeOK
    <3>2. <<r, a>> \in ran' => <<r, a>> \in ran \/ a \in succeeded'[r]
      BY <1>1, <1>2 DEF TypeOK
    <3>3. \A x \in ran' : x \in ran \/ x = <<r, a>>
      BY <1>2
    <3>4. \A x \in ran : x[1] \in Req /\ x[2] \in succeeded[x[1]]
      BY <1>1 DEF Truth, TypeOK
    <3> QED
      BY <3>1, <3>2, <3>3, <3>4
  <2>2. HistoryTruthful'
    <3> SUFFICES ASSUME NEW o \in Req, NEW h \in history[o], h.verdict # "executed",
                        NEW q \in Req, <<q, h.action>> \in ran'
                 PROVE  FALSE
      BY <1>2 DEF HistoryTruthful
    <3>1. <<q, h.action>> \notin ran
      BY <1>1 DEF Truth, HistoryTruthful
    <3>2. h.action = a
      BY <1>2, <3>1
    <3> QED
      BY <1>1, <1>3, <3>2 DEF Truth
  <2> QED
    BY <1>1, <1>2, <2>1, <2>2 DEF Truth
<1>6. ASSUME NEW q \in Req \ {r} PROVE Lists(q)'
  <2>1. todo'[q] = todo[q] /\ succeeded'[q] = succeeded[q]
    BY <1>1, <1>2 DEF TypeOK
  <2> QED
    BY <1>1, <1>2, <2>1 DEF Lists, StreamOK, ListsOK, ApproveOK, Dealt, Serving
<1>7. Lists(r)'
  <2>1. todo'[r] = todo[r] \ {a} /\ succeeded'[r] \subseteq succeeded[r] \cup {a}
    BY <1>1, <1>2 DEF TypeOK
  <2>2. ListsOK(r)'
    BY <1>1, <1>2, <2>1 DEF Lists, ListsOK
  <2>3. ApproveOK(r)' /\ StreamOK(r)'
    BY <1>1, <1>2 DEF Lists, ApproveOK, StreamOK, Serving
  <2>4. Dealt(r)'
    BY <1>1, <1>2 DEF Lists, Dealt, Serving
  <2> QED
    BY <2>2, <2>3, <2>4 DEF Lists
<1> QED
  BY <1>4, <1>5, <1>6, <1>7 DEF Core

LEMMA RecordResultsFacts ==
  ASSUME RInv, NEW r \in Req, RecordResults(r)
  PROVE  /\ pc[r] = "tail" /\ kind[r] = "approve" /\ pc' = [pc EXCEPT ![r] = "over"]
         /\ obj[r] \in Req /\ key[r] \in Req /\ store[key[r]] = obj[r] /\ todo[r] = {}
         /\ approved[r] \cup refused[r] = pending[obj[r]]
         /\ pending' = [pending EXCEPT ![obj[r]] = {}]
         /\ history' = [history EXCEPT ![obj[r]] =
                          @ \cup Verdicts(succeeded[r], "executed")
                            \cup Verdicts(approved[r] \ succeeded[r], "failed")
                            \cup Verdicts(refused[r], "rejected")]
         /\ UNCHANGED <<store, kind, key, ids, obj, found, approved, todo, refused,
                        succeeded, minted, ran>>
<1>1. /\ pc[r] = "tail" /\ kind[r] = "approve" /\ pc' = [pc EXCEPT ![r] = "over"]
      /\ pending' = [pending EXCEPT ![obj[r]] = {}]
      /\ store' = [store EXCEPT ![key[r]] = obj[r]]
      /\ UNCHANGED <<kind, key, ids, obj, found, approved, todo, refused,
                     succeeded, minted, ran>>
  BY DEF RecordResults, Put
<1>2. history' = [history EXCEPT ![obj[r]] =
                          @ \cup Verdicts(succeeded[r], "executed")
                            \cup Verdicts(approved[r] \ succeeded[r], "failed")
                            \cup Verdicts(refused[r], "rejected")]
  BY DEF RecordResults
<1>3. obj[r] \in Req /\ key[r] \in Req /\ store \in [Req -> Req \cup {None}]
  BY <1>1 DEF RInv, DInv, IInv, HolderOK, Serving, TypeOK
<1>4. /\ approved[r] \cup refused[r] = pending[obj[r]]
      /\ store[key[r]] = obj[r] /\ todo[r] = {}
  BY <1>1 DEF RInv, ApproveOK, Serving
<1>5. UNCHANGED store
  BY <1>1, <1>3, <1>4
<1> QED
  BY <1>1, <1>2, <1>3, <1>4, <1>5

\* What is reported failed or rejected no request has applied.
LEMMA RecordResultsCore ==
  ASSUME RInv, NEW r \in Req, RecordResults(r) PROVE Core'
<1>1. /\ TypeOK /\ Apart /\ Truth /\ Alone /\ \A q \in Req : Lists(q)
      /\ pc[r] = "tail" /\ kind[r] = "approve" /\ pc' = [pc EXCEPT ![r] = "over"]
      /\ UNCHANGED <<kind, approved, todo, refused, succeeded, ran>>
  BY RecordResultsFacts DEF RInv, DInv, IInv, Lists
<1>2. Active(r) /\ \A q \in Req \ {r} : pc'[q] = pc[q]
  BY <1>1 DEF Active, Serving, TypeOK
<1>3. PICK E, F, R : /\ E = Verdicts(succeeded[r], "executed")
                     /\ F = Verdicts(approved[r] \ succeeded[r], "failed")
                     /\ R = Verdicts(refused[r], "rejected")
  OBVIOUS
<1>4. PICK V : V = E \cup F \cup R
  OBVIOUS
<1>4a. PICK o \in Req : o = obj[r]
  BY RecordResultsFacts
<1>5. pending' = [pending EXCEPT ![o] = {}] /\ history' = [history EXCEPT ![o] = @ \cup V]
  <2>1. history[o] \cup E \cup F \cup R = history[o] \cup V
    BY <1>4, <1>4a
  <2>2. history' = [history EXCEPT ![o] = @ \cup E \cup F \cup R]
    BY <1>3, <1>4, <1>4a, RecordResultsFacts
  <2> QED
    BY <1>4, <1>4a, <2>1, <2>2, RecordResultsFacts
<1>6. approved[r] \cup refused[r] = pending[o] /\ succeeded[r] \subseteq approved[r]
  BY <1>1, <1>4, <1>4a, RecordResultsFacts DEF Lists, ListsOK
<1>7. \A h \in V : h.action \in pending[o]
  BY <1>3, <1>4, <1>4a, <1>6, VerdictsAction
<1>8. ASSUME NEW h \in V, h.verdict # "executed", NEW q \in Req
      PROVE  <<q, h.action>> \notin ran
  <2>1. CASE q # r
    BY <1>2, <1>7, <2>1, PendingUntouched
  <2>2. CASE q = r
    <3>1. h.action \in approved[r] \ succeeded[r] \/ h.action \in refused[r]
      BY <1>3, <1>4, <1>4a, <1>8, VerdictsAction
    <3>2. <<r, h.action>> \in ran => h.action \in succeeded[r]
      BY <1>1 DEF Truth
    <3> QED
      BY <1>1, <2>2, <3>1, <3>2 DEF Lists, ListsOK
  <2> QED
    BY <2>1, <2>2
<1>9. Apart' /\ Truth'
  BY <1>1, <1>5, <1>7, <1>8, ClearApart
<1>10. \A p \in Req : pending'[p] = IF p = o THEN {} ELSE pending[p]
  BY <1>1, <1>5 DEF TypeOK
<1>11. ASSUME NEW q \in Req \ {r} PROVE Lists(q)'
  BY <1>1, <1>2, <1>10, OthersLists
<1>12. Lists(r)'
  <2>1. ~Serving(r)' /\ Lists(r) /\ pc'[r] = "over"
    BY <1>1 DEF Serving, TypeOK
  <2>2. ListsOK(r)' /\ StreamOK(r)' /\ ApproveOK(r)'
    BY <1>1, <2>1 DEF Lists, ListsOK, StreamOK, ApproveOK
  <2>3. Dealt(r)'
    BY <1>1, <1>4, <1>4a, <1>10, <2>1 DEF Lists, Dealt
  <2> QED
    BY <2>2, <2>3 DEF Lists
<1> QED
  BY <1>9, <1>11, <1>12 DEF Core

\* Steps of the tab, and steps that only move a handler on.
LEMMA OtherCore ==
  ASSUME RInv, NEW r \in Req,
         \/ SendMessage(r) \/ HandleApprove(r) \/ HandleReject(r)
         \/ AgentDone(r) \/ YieldDone(r) \/ EndLoop(r) \/ FailRequest(r) \/ LoseReject(r)
  PROVE  Core'
<1>1. TypeOK /\ Core
  BY RInvParts DEF DInv, IInv
<1>2. UNCHANGED <<approved, refused, todo, succeeded, pending, history, ran, store, obj>>
  BY DEF SendMessage, HandleApprove, HandleReject, Send, AgentDone, YieldDone, EndLoop,
         FailRequest, LoseReject, serverVars
<1>3. CASE SendMessage(r) \/ HandleApprove(r) \/ HandleReject(r)
  <2>1. /\ pc[r] = "unused" /\ pc' = [pc EXCEPT ![r] = "sent"]
        /\ \A q \in Req \ {r} : kind'[q] = kind[q] /\ key'[q] = key[q]
    BY <1>1, <1>3 DEF SendMessage, HandleApprove, HandleReject, Send, TypeOK
  <2>2. \A q \in Req : /\ Serving(q)' <=> Serving(q)
                       /\ pc'[q] \in {"unused", "sent"} => pc[q] \in {"unused", "sent"}
                       /\ pc'[q] \in {"done", "tail"} => pc[q] \in {"done", "tail"}
                       /\ Serving(q) => kind'[q] = kind[q] /\ key'[q] = key[q]
    BY <1>1, <2>1 DEF TypeOK, Serving
  <2>3. \A q \in Req : kind'[q] # "approve" \/ pc'[q] \in {"unused", "sent"} =>
          kind[q] # "approve" \/ pc[q] \in {"unused", "sent"}
    BY <2>1, <2>2
  <2> QED
    BY <1>1, <1>2, <2>2, <2>3, QuietCore
<1>4. CASE AgentDone(r) \/ YieldDone(r) \/ EndLoop(r) \/ FailRequest(r) \/ LoseReject(r)
  <2>1. /\ UNCHANGED <<kind, key>>
        /\ \/ pc[r] = "running" /\ kind[r] = "stream" /\ pc' = [pc EXCEPT ![r] = "done"]
           \/ pc[r] = "done" /\ pc' = [pc EXCEPT ![r] = "tail"]
           \/ pc[r] = "running" /\ todo[r] = {} /\ pc' = [pc EXCEPT ![r] = "done"]
           \/ /\ pc[r] \in {"sent", "running"} /\ kind[r] \in {"stream", "reject"}
              /\ pc' = [pc EXCEPT ![r] = "lost"]
    BY <1>4 DEF AgentDone, YieldDone, EndLoop, FailRequest, LoseReject
  <2>2. \A q \in Req : /\ Serving(q)' => Serving(q)
                       /\ Serving(q) => Serving(q)' \/ kind[q] # "approve"
                       /\ pc'[q] \in {"unused", "sent"} => pc[q] \in {"unused", "sent"}
                       /\ pc'[q] \in {"done", "tail"} /\ kind'[q] = "approve" =>
                            pc[q] \in {"done", "tail"} \/ todo[q] = {}
    BY <1>1, <2>1 DEF TypeOK, Serving
  <2> QED
    BY <1>1, <1>2, <2>1, <2>2, QuietCore
<1> QED
  BY <1>3, <1>4

\* A restart forgets the conversations and stops their handlers.
LEMMA RestartRInv ==
  ASSUME RInv, DInv', Restart PROVE RInv'
<1>1. /\ TypeOK /\ UNCHANGED <<kind, ids, approved, refused, todo, succeeded, minted, ran, cards>>
      /\ \A q \in Req : /\ pc'[q] = (IF Serving(q) THEN "lost" ELSE pc[q])
                         /\ pending'[q] = {} /\ history'[q] = {}
      /\ listening' = {r \in listening : ~Serving(r)}
      /\ busy' = (busy /\ ~ \E r \in listening : Serving(r))
  BY DEF RInv, DInv, IInv, Restart
<1>2. \A q \in Req : /\ ~Serving(q)' /\ (Active(q)' => Active(q) /\ ~Serving(q))
                     /\ pc'[q] \in {"unused", "sent"} => pc[q] \in {"unused", "sent"}
                     /\ pc'[q] = "unused" => pc[q] = "unused"
  BY <1>1 DEF Serving, Active
<1>3. Alone'
  <2>1. ASSUME NEW q \in Req, Active(q)', kind[q] # "reject" PROVE busy' /\ q \in listening'
    <3>1. Active(q) /\ ~Serving(q) /\ busy /\ q \in listening
      BY <1>2, <2>1 DEF RInv, Alone
    <3>2. \A c \in listening : c \in Req
      BY <1>1 DEF TypeOK
    <3>3. \A c \in Req : ~Serving(c)
      BY <3>1, OthersIdle DEF RInv
    <3> QED
      BY <1>1, <3>1, <3>2, <3>3
  <2> QED
    BY <1>1, <1>2, <2>1 DEF RInv, Alone
<1>4. Apart' /\ ClientOK'
  BY <1>1, <1>2 DEF RInv, Apart, ClientOK
<1>5. Truth'
  BY <1>1 DEF RInv, Truth, HistoryTruthful
<1>6. \A q \in Req : StreamOK(q)' /\ ListsOK(q)' /\ ApproveOK(q)' /\ Dealt(q)'
  BY <1>1, <1>2 DEF RInv, StreamOK, ListsOK, ApproveOK, Dealt
<1> QED
  BY <1>3, <1>4, <1>5, <1>6 DEF RInv

LEMMA NextRInv ==
  ASSUME Orderly PROVE RInv /\ [Next]_vars => RInv'
<1> SUFFICES ASSUME RInv, [Next]_vars PROVE RInv'
  OBVIOUS
<1>1. DInv /\ IInv /\ Alone /\ ClientOK /\ Core /\ DInv'
  BY NextDInv, RInvParts DEF DInv
<1>2. ASSUME NEW r \in Req, Step(r) PROVE RInv'
  <2>1. Alone' /\ ClientOK'
    BY <1>1, <1>2, NextAlone, NextClient
  <2>2. Core'
    BY <1>2, BeginStreamCore, RejectAllCore, SaveProposalCore, BeginApproveCore, ExecuteCore,
       RecordResultsCore, OtherCore DEF Step
  <2> QED
    BY <1>1, <2>1, <2>2 DEF RInv, Core, Lists
<1>3. ASSUME CloseCard \/ UNCHANGED vars \/ \E k \in Req : Lapse(k) PROVE RInv'
  <2>1. /\ UNCHANGED <<busy, cards, listening, requestVars, store, pending, history, minted, ran>>
    BY <1>3 DEF CloseCard, Lapse, vars, clientVars, serverVars
  <2>2. Alone' /\ ClientOK'
    BY <1>1, <2>1 DEF Alone, Active, Serving, ClientOK, requestVars
  <2>3. Core'
    BY <1>1, <2>1, QuietCore DEF requestVars, Serving
  <2> QED
    BY <1>1, <2>2, <2>3 DEF RInv, Core, Lists
<1> QED
  BY <1>1, <1>2, <1>3, OrderlySteps, RestartRInv

\* As long as the tab waits for the answer to each request, a write is applied
\* by one approve request at most, and what the history tells the LLM was not
\* done was not done, although rejections get lost, conversations expire and
\* the service restarts: an action stays pending from its approval to the
\* report of its result, and while it does no other request is served.
THEOREM ToldTruly ==
  ASSUME Orderly PROVE Spec => []WritesToldTruly
<1>1. RInv => WritesToldTruly
  <2> SUFFICES ASSUME RInv PROVE AtMostOnce /\ HistoryTruthful
    BY DEF WritesToldTruly
  <2>1. \A x \in ran : /\ x[1] \in Req /\ x[2] \in approved[x[1]] /\ x = <<x[1], x[2]>>
    BY DEF RInv, DInv, IInv, Truth, TypeOK, ListsOK
  <2> QED
    BY <2>1 DEF RInv, Truth, Apart, AtMostOnce
<1> QED
  BY InitRInv, NextRInv, <1>1, PTL DEF Spec

-----------------------------------------------------------------------------
(***************************************************************************)
(* The life cycle of an action.                                            *)
(***************************************************************************)
Ran(a) == \E r \in Req : <<r, a>> \in ran

Finished(a) == \E r \in Req : a \in approved[r] \ todo[r]

Doing(a) == \E r \in Req : pc[r] = "running" /\ a \in todo[r]

InStore(a) == \E k \in Req : store[k] # None /\ a \in pending[store[k]]

OnOffer(a) == \E r \in Req : pc[r] \in {"done", "tail"} /\ a \in found[r]

Status == [a \in Action |-> StageOf(a)]

Chosen == UNION {ids[r] : r \in Req}

\* What ApprovalFlow allows in one step.
FlowStep == Flow!Next \/ (Status' = Status /\ Chosen' = Chosen)

LEMMA StageIs ==
  ASSUME NEW a
  PROVE  StageOf(a) = IF Ran(a) THEN "executed" ELSE IF Finished(a) THEN "failed"
                      ELSE IF Doing(a) THEN "approved"
                      ELSE IF InStore(a) \/ OnOffer(a) THEN "proposed"
                      ELSE IF a \in minted THEN "dropped" ELSE "new"
BY DEF StageOf, Ran, Finished, Doing, InStore, OnOffer

LEMMA StageWillBe ==
  ASSUME NEW a
  PROVE  StageOf(a)' = IF Ran(a)' THEN "executed" ELSE IF Finished(a)' THEN "failed"
                       ELSE IF Doing(a)' THEN "approved"
                       ELSE IF InStore(a)' \/ OnOffer(a)' THEN "proposed"
                       ELSE IF a \in minted' THEN "dropped" ELSE "new"
BY DEF StageOf, Ran, Finished, Doing, InStore, OnOffer

\* Where an action stands changes only with what the stage is read from.
LEMMA SameStage ==
  ASSUME NEW a, Ran(a)' <=> Ran(a), Finished(a)' <=> Finished(a), Doing(a)' <=> Doing(a),
         Finished(a) \/ ((InStore(a) \/ OnOffer(a))' <=> (InStore(a) \/ OnOffer(a))),
         a \in minted' <=> a \in minted
  PROVE  StageOf(a)' = StageOf(a)
<1>1. (InStore(a) \/ OnOffer(a))' <=> InStore(a)' \/ OnOffer(a)'
  OBVIOUS
<1> QED
  BY <1>1, StageIs, StageWillBe

LEMMA FlowMove ==
  ASSUME NEW S \in SUBSET Action, S # {}, NEW from, NEW to,
         \A a \in S : StageOf(a) = from /\ StageOf(a)' = to,
         \A a \in Action \ S : StageOf(a)' = StageOf(a)
  PROVE  Flow!Move(S, from, to)
BY DEF Flow!Move

LEMMA FlowStutter ==
  ASSUME \A a \in Action : StageOf(a)' = StageOf(a), UNCHANGED ids PROVE FlowStep
BY DEF FlowStep, Status, Chosen

\* Every action the model speaks of has been minted.
LEMMA KnownMinted ==
  ASSUME RInv, NEW a \in Action
  PROVE  /\ \A r \in Req : a \in approved[r] \cup refused[r] \cup todo[r] \cup found[r] =>
              a \in minted
         /\ \A o \in Req : a \in pending[o] => a \in minted
         /\ Ran(a) \/ Finished(a) \/ Doing(a) \/ InStore(a) \/ OnOffer(a) => a \in minted
<1>1. Past(a) => a \in minted
  BY DEF RInv, DInv, FoundOK, Past
<1>2. \A r \in Req : a \in approved[r] \cup refused[r] \cup todo[r] \cup found[r] => a \in minted
  BY <1>1 DEF RInv, DInv, HandledOK, FoundOK, ListsOK
<1>3. \A o \in Req : a \in pending[o] => a \in minted
  BY <1>1, PendingPast DEF RInv, DInv
<1>4. Ran(a) => a \in minted
  BY <1>2 DEF Ran, RInv, DInv, IInv, Truth, TypeOK, ListsOK
<1>5. InStore(a) => a \in minted
  BY <1>3 DEF InStore, RInv, DInv, IInv, TypeOK
<1>6. Finished(a) \/ Doing(a) \/ OnOffer(a) => a \in minted
  BY <1>2 DEF Finished, Doing, OnOffer
<1> QED
  BY <1>2, <1>3, <1>4, <1>5, <1>6

\* While request r is active, an action pending in a stored object stands
\* where r put it.
LEMMA PendingStage ==
  ASSUME RInv, NEW r \in Req, Active(r), NEW o \in Req, NEW a \in pending[o],
         \E k \in Req : store[k] = o, a \notin approved[r] \/ pc[r] = "sent"
  PROVE  /\ StageOf(a) = "proposed" /\ ~Ran(a) /\ ~Finished(a) /\ ~OnOffer(a) /\ a \in minted
         /\ \A q \in Req : a \notin todo[q]
<1>0. a \in Action
  BY DEF RInv, DInv, IInv, TypeOK
<1>1. \A q \in Req : a \notin approved[q]
  BY PendingUntouched DEF RInv, ListsOK
<1>2. \A q \in Req : a \notin todo[q] /\ <<q, a>> \notin ran
  BY <1>1 DEF RInv, ListsOK, Truth
<1>3. InStore(a)
  BY NoneAssumption DEF InStore
<1>4. ~Ran(a) /\ ~Finished(a) /\ ~Doing(a)
  BY <1>1, <1>2 DEF Ran, Finished, Doing
<1>5. ~OnOffer(a)
  <2> SUFFICES ASSUME NEW q \in Req, pc[q] \in {"done", "tail"}, a \in found[q] PROVE FALSE
    BY DEF OnOffer
  <2>1. Past(a)
    BY PendingPast DEF RInv, DInv
  <2> QED
    BY <2>1 DEF Past, RInv, DInv, FoundOK
<1> QED
  BY <1>0, <1>2, <1>3, <1>4, <1>5, StageIs, KnownMinted

LEMMA PlacesKept ==
  ASSUME UNCHANGED <<todo, found>>, NEW a,
         \A q \in Req : (pc'[q] = "running" <=> pc[q] = "running") \/ todo[q] = {},
         \A q \in Req : (pc'[q] \in {"done", "tail"} <=> pc[q] \in {"done", "tail"}) \/ found[q] = {}
  PROVE  (Doing(a)' <=> Doing(a)) /\ (OnOffer(a)' <=> OnOffer(a))
BY DEF Doing, OnOffer

\* Steps in which no list changes: the consent may grow.
LEMMA QuietFlow ==
  ASSUME RInv, UNCHANGED <<approved, todo, found, minted, ran, pending, store>>,
         \A q \in Req : (pc'[q] = "running" <=> pc[q] = "running") \/ todo[q] = {},
         \A q \in Req : (pc'[q] \in {"done", "tail"} <=> pc[q] \in {"done", "tail"}) \/ found[q] = {}
  PROVE  \A a \in Action : StageOf(a)' = StageOf(a)
<1> SUFFICES ASSUME NEW a \in Action PROVE StageOf(a)' = StageOf(a)
  OBVIOUS
<1>1. (Ran(a)' <=> Ran(a)) /\ (Finished(a)' <=> Finished(a)) /\ (InStore(a)' <=> InStore(a))
  BY DEF Ran, Finished, InStore
<1>2. (Doing(a)' <=> Doing(a)) /\ (OnOffer(a)' <=> OnOffer(a))
  BY PlacesKept
<1>3. (InStore(a) \/ OnOffer(a))' <=> (InStore(a) \/ OnOffer(a))
  BY <1>1, <1>2
<1> QED
  BY <1>1, <1>2, <1>3, SameStage

\* Request r settles what is pending in object o: the actions of S are
\* dropped, the others were executed or failed.
LEMMA DropStep ==
  ASSUME RInv, NEW r \in Req, Active(r), NEW o \in Req, NEW S \in SUBSET pending[o],
         S # {} => \E k \in Req : store[k] = o,
         \A a \in S : a \notin approved[r] \/ pc[r] = "sent",
         \A a \in pending[o] \ S : Finished(a),
         \A a \in Action : InStore(a)' <=> InStore(a) /\ a \notin pending[o],
         UNCHANGED <<ids, approved, todo, found, minted, ran>>,
         \A q \in Req : (pc'[q] = "running" <=> pc[q] = "running") \/ todo[q] = {},
         \A q \in Req : (pc'[q] \in {"done", "tail"} <=> pc[q] \in {"done", "tail"}) \/ found[q] = {}
  PROVE  FlowStep
<1>1. S \in SUBSET Action
  BY DEF RInv, DInv, IInv, TypeOK
<1>2. ASSUME NEW a \in Action
      PROVE  (Ran(a)' <=> Ran(a)) /\ (Finished(a)' <=> Finished(a))
  BY DEF Ran, Finished
<1>3. ASSUME NEW a \in Action
      PROVE  (Doing(a)' <=> Doing(a)) /\ (OnOffer(a)' <=> OnOffer(a))
  BY PlacesKept
<1>4. ASSUME NEW a \in S PROVE StageOf(a) = "proposed" /\ StageOf(a)' = "dropped"
  <2>1. /\ StageOf(a) = "proposed" /\ ~Ran(a) /\ ~Finished(a) /\ ~OnOffer(a) /\ a \in minted
        /\ \A q \in Req : a \notin todo[q]
    BY PendingStage
  <2>2. ~Doing(a)
    BY <2>1 DEF Doing
  <2>3. ~InStore(a)'
    BY <1>1
  <2> QED
    BY <1>1, <1>2, <1>3, <2>1, <2>2, <2>3, StageWillBe
<1>5. ASSUME NEW a \in Action \ S PROVE StageOf(a)' = StageOf(a)
  <2>1. Finished(a) \/ (InStore(a)' <=> InStore(a))
    OBVIOUS
  <2>2. Finished(a) \/ ((InStore(a) \/ OnOffer(a))' <=> (InStore(a) \/ OnOffer(a)))
    BY <1>3, <2>1
  <2> QED
    BY <1>2, <1>3, <2>2, SameStage
<1>6. CASE S = {}
  BY <1>5, <1>6, FlowStutter
<1>7. CASE S # {}
  <2>1. Flow!Move(S, "proposed", "dropped")
    BY <1>1, <1>4, <1>5, <1>7, FlowMove
  <2>2. Flow!Drop(S)
    BY <2>1 DEF Flow!Drop
  <2> QED
    BY <1>1, <2>2 DEF FlowStep, Flow!Next
<1> QED
  BY <1>6, <1>7

\* Clearing a conversation takes its pending actions, and only those, away.
LEMMA ClearInStore ==
  ASSUME RInv, NEW o \in Req, pending' = [pending EXCEPT ![o] = {}], UNCHANGED store
  PROVE  \A a \in Action : InStore(a)' <=> InStore(a) /\ a \notin pending[o]
<1>1. TypeOK /\ Apart
  BY DEF RInv, DInv, IInv
<1>2. \A p \in Req : pending'[p] = IF p = o THEN {} ELSE pending[p]
  BY <1>1 DEF TypeOK
<1> QED
  BY <1>1, <1>2, NoneAssumption DEF InStore, TypeOK, Apart

\* So does deleting its entry, for a conversation is stored once.
LEMMA DeleteInStore ==
  ASSUME RInv, NEW k \in Req, store[k] # None,
         store' = [store EXCEPT ![k] = None], UNCHANGED pending
  PROVE  \A a \in Action : InStore(a)' <=> InStore(a) /\ a \notin pending[store[k]]
<1>1. TypeOK /\ Apart /\ \A j \in Req : StoreOK(j)
  BY DEF RInv, DInv, IInv
<1>2. /\ store[k] \in Req /\ \A j \in Req \ {k} : store[j] # store[k]
      /\ \A j \in Req : store'[j] = IF j = k THEN None ELSE store[j]
  BY <1>1 DEF TypeOK, StoreOK
<1> SUFFICES ASSUME NEW a \in Action
             PROVE  InStore(a)' <=> InStore(a) /\ a \notin pending[store[k]]
  OBVIOUS
<1>3. InStore(a)' => InStore(a) /\ a \notin pending[store[k]]
  BY <1>1, <1>2 DEF InStore, Apart, TypeOK
<1>4. InStore(a) /\ a \notin pending[store[k]] => InStore(a)'
  BY <1>2 DEF InStore
<1> QED
  BY <1>3, <1>4

\* An expired conversation is deleted when it is asked for: what was pending
\* in it is dropped.
LEMMA DeleteFlow ==
  ASSUME RInv, NEW r \in Req, pc[r] = "sent", NEW k \in Req,
         store' = [store EXCEPT ![k] = None],
         UNCHANGED <<ids, approved, todo, found, minted, ran, pending>>,
         \A q \in Req : (pc'[q] = "running" <=> pc[q] = "running") \/ todo[q] = {},
         \A q \in Req : pc'[q] \in {"done", "tail"} <=> pc[q] \in {"done", "tail"}
  PROVE  FlowStep
<1>1. CASE store[k] = None
  <2>1. UNCHANGED store
    BY <1>1 DEF RInv, DInv, IInv, TypeOK
  <2> QED
    BY <2>1, QuietFlow, FlowStutter
<1>2. CASE store[k] # None
  <2>1. PICK o \in Req : o = store[k]
    BY <1>2 DEF RInv, DInv, IInv, TypeOK
  <2>2. \A a \in Action : InStore(a)' <=> InStore(a) /\ a \notin pending[o]
    BY <1>2, <2>1, DeleteInStore
  <2>3. PICK S \in SUBSET pending[o] : S = pending[o]
    OBVIOUS
  <2> QED
    BY <2>1, <2>2, <2>3, DropStep DEF Active
<1> QED
  BY <1>1, <1>2

LEMMA GetFlow ==
  ASSUME RInv, NEW r \in Req, pc[r] = "sent", NEW k \in Req \cup {None},
         store' = AfterGet(k),
         UNCHANGED <<ids, approved, todo, found, minted, ran, pending>>,
         \A q \in Req : pc'[q] = "running" <=> pc[q] = "running",
         \A q \in Req : pc'[q] \in {"done", "tail"} <=> pc[q] \in {"done", "tail"}
  PROVE  FlowStep
<1>1. TypeOK
  BY DEF RInv, DInv, IInv
<1>2. CASE AfterGet(k) = store
  BY <1>2, QuietFlow, FlowStutter
<1>3. CASE k \in Req /\ AfterGet(k) = [store EXCEPT ![k] = None]
  BY <1>3, DeleteFlow
<1> QED
  BY <1>1, <1>2, <1>3, GetCases

LEMMA BeginStreamFlow ==
  ASSUME RInv, NEW r \in Req, BeginStream(r) PROVE FlowStep
<1>1. PICK k \in Req, o \in Req :
           /\ pc[r] = "sent" /\ kind[r] = "stream" /\ pc' = [pc EXCEPT ![r] = "running"]
           /\ pending' = [pending EXCEPT ![o] = {}]
           /\ pending[o] # {} => store[k] = o
           /\ \/ store' = store
              \/ store' = [store EXCEPT ![k] = None] /\ pending' = pending
           /\ UNCHANGED <<ids, found, approved, todo, minted, ran>>
  BY BeginStreamFacts
<1>2. todo[r] = {} /\ Active(r)
  BY <1>1 DEF RInv, ListsOK, Active
<1>3. \A q \in Req : /\ (pc'[q] = "running" <=> pc[q] = "running") \/ todo[q] = {}
                     /\ pc'[q] \in {"done", "tail"} <=> pc[q] \in {"done", "tail"}
  BY <1>1, <1>2 DEF RInv, DInv, IInv, TypeOK
<1>4. CASE store' = store
  <2>1. PICK S \in SUBSET pending[o] : S = pending[o]
    OBVIOUS
  <2>2. \A a \in Action : InStore(a)' <=> InStore(a) /\ a \notin pending[o]
    BY <1>1, <1>4, ClearInStore
  <2>3. /\ pc[r] = "sent" /\ UNCHANGED <<ids, approved, todo, found, minted, ran>>
        /\ S # {} => \E j \in Req : store[j] = o
    BY <1>1, <2>1
  <2> QED
    BY <1>2, <1>3, <2>1, <2>2, <2>3, DropStep
<1>5. CASE store' = [store EXCEPT ![k] = None] /\ pending' = pending
  BY <1>1, <1>3, <1>5, DeleteFlow
<1> QED
  BY <1>1, <1>4, <1>5

LEMMA RejectAllFlow ==
  ASSUME RInv, NEW r \in Req, RejectAll(r) PROVE FlowStep
<1>1. /\ pc[r] = "sent" /\ pc' = [pc EXCEPT ![r] = "over"] /\ Active(r)
      /\ UNCHANGED <<ids, found, approved, todo, minted, ran>>
  BY RejectAllFacts DEF Active
<1>2. \A q \in Req : /\ pc'[q] = "running" <=> pc[q] = "running"
                     /\ pc'[q] \in {"done", "tail"} <=> pc[q] \in {"done", "tail"}
  BY <1>1 DEF RInv, DInv, IInv, TypeOK
<1>3. CASE UNCHANGED pending /\ key[r] \in Req \cup {None} /\ store' = AfterGet(key[r])
  BY <1>1, <1>2, <1>3, GetFlow
<1>4. ASSUME NEW o \in Req, pending' = [pending EXCEPT ![o] = {}],
             store[key[r]] = o, key[r] \in Req, UNCHANGED store
      PROVE  FlowStep
  <2>1. PICK S \in SUBSET pending[o] : S = pending[o]
    OBVIOUS
  <2>2. \A a \in Action : InStore(a)' <=> InStore(a) /\ a \notin pending[o]
    BY <1>4, ClearInStore
  <2> QED
    BY <1>1, <1>2, <1>4, <2>1, <2>2, DropStep
<1> QED
  BY <1>3, <1>4, RejectAllFacts

LEMMA RecordResultsFlow ==
  ASSUME RInv, NEW r \in Req, RecordResults(r) PROVE FlowStep
<1>1. /\ pc[r] = "tail" /\ kind[r] = "approve" /\ pc' = [pc EXCEPT ![r] = "over"]
      /\ todo[r] = {} /\ approved[r] \cup refused[r] = pending[obj[r]]
      /\ store[key[r]] = obj[r]
      /\ UNCHANGED <<store, ids, found, approved, todo, minted, ran>>
  BY RecordResultsFacts
<1>2. PICK o \in Req : o = obj[r] /\ \E k \in Req : store[k] = o
  <2>1. obj[r] \in Req /\ key[r] \in Req /\ store[key[r]] = obj[r]
    BY RecordResultsFacts
  <2> QED
    BY <2>1
<1>3. Active(r) /\ found[r] = {} /\ approved[r] \cap refused[r] = {}
  BY <1>1 DEF Active, Serving, RInv, DInv, FoundOK, ListsOK
<1>4. \A q \in Req : /\ pc'[q] = "running" <=> pc[q] = "running"
                     /\ (pc'[q] \in {"done", "tail"} <=> pc[q] \in {"done", "tail"}) \/ found[q] = {}
  BY <1>1, <1>3 DEF RInv, DInv, IInv, TypeOK
<1>5. PICK S \in SUBSET pending[o] : S = refused[r]
  BY <1>1, <1>2
<1>6. \A a \in pending[o] \ S : Finished(a)
  BY <1>1, <1>2, <1>5 DEF Finished
<1>7. pending' = [pending EXCEPT ![o] = {}] /\ \A a \in S : a \notin approved[r]
  BY <1>2, <1>3, <1>5, RecordResultsFacts
<1>8. \A a \in Action : InStore(a)' <=> InStore(a) /\ a \notin pending[o]
  BY <1>1, <1>7, ClearInStore
<1> QED
  BY <1>1, <1>2, <1>3, <1>4, <1>6, <1>7, <1>8, DropStep

\* The proposal moves from the stream that made it to the store.
LEMMA SaveProposalFlow ==
  ASSUME RInv, NEW r \in Req, SaveProposal(r) PROVE FlowStep
<1>1. /\ TypeOK /\ pc[r] = "tail" /\ kind[r] = "stream" /\ pc' = [pc EXCEPT ![r] = "over"]
      /\ UNCHANGED <<ids, found, approved, todo, minted, ran>>
  BY SaveProposalFacts DEF RInv, DInv, IInv
<1>2. PICK o \in Req, k \in Req :
        /\ o = obj[r] /\ pending[o] = {} /\ pending' = [pending EXCEPT ![o] = found[r]]
        /\ store[k] \in {None, o} /\ store' = [store EXCEPT ![k] = o]
  BY SaveProposalFacts
<1>3. /\ \A p \in Req : pending'[p] = IF p = o THEN found[r] ELSE pending[p]
      /\ \A j \in Req : store'[j] = IF j = k THEN o ELSE store[j]
  BY <1>1, <1>2 DEF TypeOK
<1>4. ASSUME NEW a \in Action PROVE StageOf(a)' = StageOf(a)
  <2>1. (Ran(a)' <=> Ran(a)) /\ (Finished(a)' <=> Finished(a)) /\ (Doing(a)' <=> Doing(a))
    BY <1>1 DEF Ran, Finished, Doing, TypeOK
  <2>2. CASE a \in found[r]
    <3>1. OnOffer(a)
      BY <1>1, <2>2 DEF OnOffer
    <3>2. InStore(a)'
      BY <1>3, <2>2, NoneAssumption DEF InStore
    <3>3. (InStore(a) \/ OnOffer(a))' <=> (InStore(a) \/ OnOffer(a))
      BY <3>1, <3>2
    <3> QED
      BY <1>1, <2>1, <3>3, SameStage
  <2>3. CASE a \notin found[r]
    <3>1. OnOffer(a)' <=> OnOffer(a)
      BY <1>1, <2>3 DEF OnOffer, TypeOK
    <3>2. InStore(a)' => InStore(a)
      BY <1>2, <1>3, <2>3 DEF InStore
    <3>3. InStore(a) => InStore(a)'
      BY <1>1, <1>2, <1>3 DEF InStore, TypeOK
    <3>4. (InStore(a) \/ OnOffer(a))' <=> (InStore(a) \/ OnOffer(a))
      BY <3>1, <3>2, <3>3
    <3> QED
      BY <1>1, <2>1, <3>4, SameStage
  <2> QED
    BY <2>2, <2>3
<1> QED
  BY <1>1, <1>4, FlowStutter

\* A stream ends with a proposal of new actions, or with none.
LEMMA AgentDoneFlow ==
  ASSUME RInv, NEW r \in Req, AgentDone(r) PROVE FlowStep
<1>1. /\ TypeOK /\ pc[r] = "running" /\ kind[r] = "stream" /\ pc' = [pc EXCEPT ![r] = "done"]
      /\ UNCHANGED <<ids, approved, todo, ran, pending, store>>
  BY DEF RInv, DInv, IInv, AgentDone, serverVars
<1>2. todo[r] = {} /\ found[r] = {}
  BY <1>1 DEF RInv, ListsOK, DInv, FoundOK
<1>3. PICK S \in SUBSET (Action \ minted) :
        found' = [found EXCEPT ![r] = S] /\ minted' = minted \cup S
  BY DEF AgentDone
<1>4. ASSUME NEW a \in Action
      PROVE  /\ (Ran(a)' <=> Ran(a)) /\ (Finished(a)' <=> Finished(a))
             /\ (InStore(a)' <=> InStore(a)) /\ (Doing(a)' <=> Doing(a))
  <2>1. (Ran(a)' <=> Ran(a)) /\ (Finished(a)' <=> Finished(a)) /\ (InStore(a)' <=> InStore(a))
    BY <1>1 DEF Ran, Finished, InStore
  <2>2. Doing(a)' <=> Doing(a)
    BY <1>1, <1>2 DEF Doing, TypeOK
  <2> QED
    BY <2>1, <2>2
<1>5. /\ found'[r] = S /\ pc'[r] = "done"
      /\ \A q \in Req \ {r} : found'[q] = found[q] /\ pc'[q] = pc[q]
  BY <1>1, <1>3 DEF TypeOK
<1>6. ASSUME NEW a \in S PROVE StageOf(a) = "new" /\ StageOf(a)' = "proposed"
  <2>1. /\ a \in Action /\ a \notin minted
        /\ ~Ran(a) /\ ~Finished(a) /\ ~Doing(a) /\ ~InStore(a) /\ ~OnOffer(a)
    BY KnownMinted
  <2>2. OnOffer(a)'
    BY <1>5 DEF OnOffer
  <2> QED
    BY <1>4, <2>1, <2>2, StageIs, StageWillBe
<1>7. ASSUME NEW a \in Action \ S PROVE StageOf(a)' = StageOf(a)
  <2>1. OnOffer(a)' <=> OnOffer(a)
    BY <1>1, <1>2, <1>5 DEF OnOffer
  <2>2. (InStore(a) \/ OnOffer(a))' <=> (InStore(a) \/ OnOffer(a))
    BY <1>4, <2>1
  <2> QED
    BY <1>3, <1>4, <2>2, SameStage
<1>8. CASE S = {}
  BY <1>1, <1>7, <1>8, FlowStutter
<1>9. CASE S # {}
  <2>1. S \in SUBSET Action
    OBVIOUS
  <2>2. Flow!Move(S, "new", "proposed")
    BY <1>6, <1>7, <1>9, <2>1, FlowMove
  <2>3. Chosen' = Chosen
    BY <1>1 DEF Chosen
  <2>4. Flow!Propose(S)
    BY <2>2, <2>3 DEF Flow!Propose, Chosen
  <2> QED
    BY <2>1, <2>4 DEF FlowStep, Flow!Next
<1> QED
  BY <1>8, <1>9

\* What the user selected and is pending becomes approved.
LEMMA BeginApproveFlow ==
  ASSUME RInv, NEW r \in Req, BeginApprove(r) PROVE FlowStep
<1>1. /\ TypeOK /\ pc[r] = "sent" /\ kind[r] = "approve" /\ Active(r)
      /\ approved[r] = {} /\ todo[r] = {}
      /\ key[r] \in Req \cup {None} /\ store' = AfterGet(key[r])
      /\ UNCHANGED <<ids, found, minted, ran, pending>>
  BY BeginApproveFacts DEF RInv, DInv, IInv, Active, ListsOK
<1>2. ASSUME pc' = [pc EXCEPT ![r] = "lost"], UNCHANGED <<approved, todo>>
      PROVE  FlowStep
  <2>1. \A q \in Req : /\ pc'[q] = "running" <=> pc[q] = "running"
                       /\ pc'[q] \in {"done", "tail"} <=> pc[q] \in {"done", "tail"}
    BY <1>1, <1>2 DEF TypeOK
  <2> QED
    BY <1>1, <1>2, <2>1, GetFlow
<1>3. ASSUME NEW o \in Req, NEW k \in Req, store[k] = o, UNCHANGED store, NEW S \in SUBSET pending[o],
             S \subseteq ids[r], pc' = [pc EXCEPT ![r] = "running"],
             approved' = [approved EXCEPT ![r] = S], todo' = [todo EXCEPT ![r] = S]
      PROVE  FlowStep
  <2>1. /\ pc'[r] = "running" /\ approved'[r] = S /\ todo'[r] = S /\ S \in SUBSET Action
        /\ \A q \in Req \ {r} : /\ pc'[q] = pc[q] /\ approved'[q] = approved[q]
                                /\ todo'[q] = todo[q]
    BY <1>1, <1>3 DEF TypeOK
  <2>2. ASSUME NEW a \in Action
        PROVE  /\ (Ran(a)' <=> Ran(a)) /\ (Finished(a)' <=> Finished(a))
               /\ (InStore(a)' <=> InStore(a)) /\ (OnOffer(a)' <=> OnOffer(a))
               /\ (Doing(a)' <=> Doing(a) \/ a \in S)
    <3>1. (Ran(a)' <=> Ran(a)) /\ (InStore(a)' <=> InStore(a))
      BY <1>1, <1>3 DEF Ran, InStore
    <3>2. Finished(a)' <=> Finished(a)
      BY <1>1, <2>1 DEF Finished
    <3>3. OnOffer(a)' <=> OnOffer(a)
      BY <1>1, <2>1 DEF OnOffer
    <3>4. Doing(a)' <=> Doing(a) \/ a \in S
      BY <1>1, <2>1 DEF Doing
    <3> QED
      BY <3>1, <3>2, <3>3, <3>4
  <2>3. ASSUME NEW a \in S PROVE StageOf(a) = "proposed" /\ StageOf(a)' = "approved"
    <3>1. StageOf(a) = "proposed" /\ ~Ran(a) /\ ~Finished(a) /\ a \in Action
      BY <1>1, <1>3, <2>1, PendingStage
    <3> QED
      BY <2>2, <3>1, StageWillBe
  <2>4. ASSUME NEW a \in Action \ S PROVE StageOf(a)' = StageOf(a)
    <3>1. (InStore(a) \/ OnOffer(a))' <=> (InStore(a) \/ OnOffer(a))
      BY <2>2
    <3> QED
      BY <1>1, <2>2, <3>1, SameStage
  <2>5. CASE S = {}
    BY <1>1, <2>4, <2>5, FlowStutter
  <2>6. CASE S # {}
    <3>1. Flow!Move(S, "proposed", "approved")
      BY <2>1, <2>3, <2>4, <2>6, FlowMove
    <3>2. S \subseteq Chosen /\ Chosen' = Chosen
      BY <1>1, <1>3 DEF Chosen
    <3>3. Flow!Accept(S)
      BY <3>1, <3>2 DEF Flow!Accept, Chosen
    <3> QED
      BY <2>1, <3>3 DEF FlowStep, Flow!Next
  <2> QED
    BY <2>5, <2>6
<1>4. ASSUME NEW o \in Req, store[key[r]] = o, key[r] \in Req,
             pc' = [pc EXCEPT ![r] = "running"],
             approved' = [approved EXCEPT ![r] = pending[o] \cap ids[r]],
             todo' = [todo EXCEPT ![r] = pending[o] \cap ids[r]], UNCHANGED store
      PROVE  FlowStep
  <2>1. PICK S \in SUBSET pending[o] : S = pending[o] \cap ids[r]
    OBVIOUS
  <2> QED
    BY <1>3, <1>4, <2>1
<1> QED
  BY <1>2, <1>4, BeginApproveFacts

\* The write of an approved action is applied, or is known to have failed.
LEMMA ExecuteFlow ==
  ASSUME RInv, NEW r \in Req, NEW a \in Action, Execute(r, a) PROVE FlowStep
<1>1. /\ TypeOK /\ pc[r] = "running" /\ a \in todo[r] /\ \A q \in Req : ListsOK(q)
      /\ todo' = [todo EXCEPT ![r] = @ \ {a}] /\ (ran' = ran \cup {<<r, a>>} \/ ran' = ran)
      /\ UNCHANGED <<pc, ids, found, approved, minted, pending, store>>
  BY DEF RInv, DInv, IInv, Execute, serverVars
<1>2. a \in approved[r] /\ \A q \in Req \ {r} : a \notin approved[q] /\ a \notin todo[q]
  BY <1>1 DEF RInv, ListsOK, Apart
<1>3. /\ todo'[r] = todo[r] \ {a} /\ \A q \in Req \ {r} : todo'[q] = todo[q]
  BY <1>1 DEF TypeOK
<1>4. StageOf(a) = "approved"
  <2>1. ~Ran(a)
    BY <1>1, <1>2 DEF Ran, RInv, Truth, ListsOK
  <2>2. ~Finished(a)
    BY <1>1, <1>2 DEF Finished
  <2>3. Doing(a)
    BY <1>1 DEF Doing
  <2> QED
    BY <2>1, <2>2, <2>3, StageIs
<1>5. Finished(a)'
  BY <1>1, <1>2, <1>3 DEF Finished
<1>6. ASSUME NEW b \in Action \ {a} PROVE StageOf(b)' = StageOf(b)
  <2>1. Ran(b)' <=> Ran(b)
    BY <1>1 DEF Ran
  <2>2. \A q \in Req : b \in todo'[q] <=> b \in todo[q]
    BY <1>3
  <2>3. (Finished(b)' <=> Finished(b)) /\ (Doing(b)' <=> Doing(b))
    BY <1>1, <2>2 DEF Finished, Doing
  <2>4. (InStore(b) \/ OnOffer(b))' <=> (InStore(b) \/ OnOffer(b))
    BY <1>1 DEF InStore, OnOffer
  <2> QED
    BY <1>1, <2>1, <2>3, <2>4, SameStage
<1>7. PICK to \in {"executed", "failed"} : StageOf(a)' = to
  BY <1>5, StageWillBe
<1>8. Flow!Move({a}, "approved", to)
  BY <1>4, <1>6, <1>7, FlowMove
<1>9. Chosen' = Chosen
  BY <1>1 DEF Chosen
<1>10. Flow!Execute(a) \/ Flow!Fail(a)
  BY <1>7, <1>8, <1>9 DEF Flow!Execute, Flow!Fail, Chosen
<1> QED
  BY <1>10 DEF FlowStep, Flow!Next

\* Handlers that only move on.
LEMMA MovingFlow ==
  ASSUME RInv, NEW r \in Req, YieldDone(r) \/ EndLoop(r) \/ FailRequest(r) \/ LoseReject(r)
  PROVE  FlowStep
<1>1. TypeOK /\ UNCHANGED <<ids, approved, todo, found, minted, ran, pending, store>>
  BY DEF RInv, DInv, IInv, YieldDone, EndLoop, FailRequest, LoseReject, serverVars
<1>2. \/ pc[r] = "done" /\ pc' = [pc EXCEPT ![r] = "tail"]
      \/ /\ pc[r] = "running" /\ kind[r] = "approve" /\ todo[r] = {}
         /\ pc' = [pc EXCEPT ![r] = "done"]
      \/ /\ pc[r] \in {"sent", "running"} /\ kind[r] \in {"stream", "reject"}
         /\ pc' = [pc EXCEPT ![r] = "lost"]
  BY DEF YieldDone, EndLoop, FailRequest, LoseReject
<1>3. /\ kind[r] # "approve" => todo[r] = {}
      /\ kind[r] = "approve" => found[r] = {}
  BY DEF RInv, ListsOK, DInv, FoundOK
<1>4. \A q \in Req \ {r} : pc'[q] = pc[q]
  BY <1>1, <1>2 DEF TypeOK
<1>5. /\ (pc'[r] = "running" <=> pc[r] = "running") \/ todo[r] = {}
      /\ (pc'[r] \in {"done", "tail"} <=> pc[r] \in {"done", "tail"}) \/ found[r] = {}
  BY <1>1, <1>2, <1>3 DEF TypeOK
<1> QED
  BY <1>1, <1>4, <1>5, QuietFlow, FlowStutter

\* The tab gives its consent to actions it was shown, and to nothing else.
LEMMA ClientFlow ==
  ASSUME RInv, NEW r \in Req, SendMessage(r) \/ HandleApprove(r) \/ HandleReject(r)
  PROVE  FlowStep
<1>1. /\ TypeOK /\ pc[r] = "unused" /\ ids[r] = {} /\ pc' = [pc EXCEPT ![r] = "sent"]
      /\ UNCHANGED <<approved, todo, found, minted, ran, pending, store>>
  BY DEF RInv, DInv, IInv, ClientOK, SendMessage, HandleApprove, HandleReject, Send, serverVars
<1>2. \A q \in Req : /\ pc'[q] = "running" <=> pc[q] = "running"
                     /\ pc'[q] \in {"done", "tail"} <=> pc[q] \in {"done", "tail"}
  BY <1>1 DEF TypeOK
<1>3. \A a \in Action : StageOf(a)' = StageOf(a)
  BY <1>1, <1>2, QuietFlow
<1>4. Status' = Status
  BY <1>3 DEF Status
<1>5. CASE SendMessage(r) \/ HandleReject(r)
  <2>1. ids' = [ids EXCEPT ![r] = {}]
    BY <1>5 DEF SendMessage, HandleReject, Send
  <2>2. UNCHANGED ids
    BY <1>1, <2>1 DEF TypeOK
  <2> QED
    BY <1>3, <2>2, FlowStutter
<1>6. CASE HandleApprove(r)
  <2>1. PICK card \in cards : \E S \in (SUBSET card) \ {{}} : ids' = [ids EXCEPT ![r] = S]
    BY <1>6 DEF HandleApprove, Send
  <2>2. PICK S \in SUBSET card : ids' = [ids EXCEPT ![r] = S]
    BY <2>1
  <2>3. S \in SUBSET Action /\ S \subseteq minted
    BY <1>1 DEF RInv, ClientOK, TypeOK
  <2>4. \A q \in Req : ids'[q] = IF q = r THEN S ELSE ids[q]
    BY <1>1, <2>2 DEF TypeOK
  <2>5. Chosen' = Chosen \cup S
    BY <1>1, <2>4 DEF Chosen
  <2>6. \A a \in S : StageOf(a) # "new"
    BY <2>3, StageIs
  <2>7. Flow!Consent(S)
    BY <1>4, <2>3, <2>5, <2>6 DEF Flow!Consent, Status, Chosen
  <2> QED
    BY <2>3, <2>7 DEF FlowStep, Flow!Next
<1> QED
  BY <1>5, <1>6

\* Nothing is proposed, approved or done at the start.
LEMMA InitFlow == Init => Flow!Init
<1> SUFFICES ASSUME Init PROVE Flow!Init
  OBVIOUS
<1>1. ASSUME NEW a \in Action PROVE StageOf(a) = "new"
  <2>1. ~Ran(a) /\ ~Finished(a) /\ ~Doing(a) /\ ~InStore(a) /\ ~OnOffer(a) /\ a \notin minted
    BY DEF Init, Ran, Finished, Doing, InStore, OnOffer
  <2> QED
    BY <2>1, StageIs
<1>2. UNION {ids[r] : r \in Req} = {}
  BY DEF Init
<1> QED
  BY <1>1, <1>2 DEF Flow!Init

LEMMA NextFlow ==
  ASSUME Orderly, "restart" \notin Faults PROVE RInv /\ [Next]_vars => FlowStep
<1> SUFFICES ASSUME RInv, [Next]_vars PROVE FlowStep
  OBVIOUS
<1>1. ASSUME NEW r \in Req, Step(r) PROVE FlowStep
  BY <1>1, ClientFlow, BeginStreamFlow, AgentDoneFlow, SaveProposalFlow, MovingFlow,
     BeginApproveFlow, ExecuteFlow, RecordResultsFlow, RejectAllFlow DEF Step
<1>2. ASSUME CloseCard \/ UNCHANGED vars \/ \E k \in Req : Lapse(k) PROVE FlowStep
  <2>1. UNCHANGED <<requestVars, store, pending, minted, ran>>
    BY <1>2 DEF CloseCard, Lapse, serverVars, vars
  <2>2. UNCHANGED <<pc, ids, approved, todo, found, minted, ran, pending, store>>
    BY <2>1 DEF requestVars
  <2> QED
    BY <2>2, QuietFlow, FlowStutter
<1> QED
  BY <1>1, <1>2, OrderlySteps DEF RInv

\* Unless the service restarts, the endpoints, the store and the tab together
\* implement the life cycle ApprovalFlow promises of every action, as long as
\* the tab waits for the answer to each request: each step of the code
\* proposes, consents to, accepts, executes, fails or drops a set of actions,
\* or changes no stage at all.
THEOREM FlowImplemented ==
  ASSUME Orderly, "restart" \notin Faults PROVE Spec => ImplementsApprovalFlow
<1>1. FlowStep =>
        [Flow!Next]_<<[a \in Action |-> StageOf(a)], UNION {ids[r] : r \in Req}>>
  BY DEF FlowStep, Status, Chosen
<1> QED
  BY InitRInv, NextRInv, InitFlow, NextFlow, <1>1, PTL
  DEF Spec, ImplementsApprovalFlow, Flow!Spec
=============================================================================

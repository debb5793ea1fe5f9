--------------------------- MODULE AgentLoop_proofs ---------------------------
(***************************************************************************)
(* For any number of runs, tools, turns and calls: the type invariant of   *)
(* AgentLoop, that every tool call is dealt with once, that the client     *)
(* sees every event, the rules of the two nudges and of the deferred       *)
(* tools, and that the history stays paired as long as no response is      *)
(* abandoned.                                                              *)
(***************************************************************************)
EXTENDS AgentLoop, FiniteSetTheorems, TLAPS

(***************************************************************************)
(* The inductive invariant.                                                *)
(***************************************************************************)

\* i is the last assistant message of run r.
LastSaid(r, i) == i \in Said(r) /\ \A j \in Said(r) : j <= i

FiniteCalls == \A i \in 1..Len(messages) : IsFiniteSet(messages[i].calls)

\* Only assistant messages bring calls into the history.
Spoken(r) ==
  \A i \in 1..Len(messages) : messages[i].run = r => messages[i].calls \subseteq CallsOf(r)

\* The task of run r and the generator of its response.
Linked(r) ==
  /\ pc[r] = "unused" <=> response[r] = "none"
  /\ pc[r] \in {"asking", "reading"} => response[r] \in {"relaying", "abandoned"}
  /\ response[r] = "ended" => pc[r] = "finished" /\ queue[r] = 0

\* Where the calls of run r are, i being its last assistant message.
Waiting(r, i) ==
  LET S == messages[i].calls IN
  /\ LastSaid(r, i) /\ Reads(S) # {}
  /\ executed[r] \cup reading[r] = Reads(CallsOf(r))
  /\ pending[r] \cup (S \ Reads(S)) = CallsOf(r) \ Reads(CallsOf(r))

Books(r) ==
  /\ pc[r] # "reading" => /\ executed[r] = Reads(CallsOf(r))
                          /\ pending[r] = CallsOf(r) \ Reads(CallsOf(r))
  /\ pc[r] = "reading" => \E i \in 1..Len(messages) : Waiting(r, i)

\* The model answered in every turn gone by.
Progress(r) ==
  /\ turn[r] <= Cardinality(Said(r)) + 1
  /\ pc[r] = "reading" => turn[r] <= Cardinality(Said(r))

\* The deferred tools are merged into the offered ones by the first reading.
LockRight(r) ==
  pc[r] \in {"asking", "reading"} =>
    /\ offered[r] = made[r].tools \cup (IF HasRead(r) THEN made[r].later ELSE {})
    /\ deferred[r] = IF HasRead(r) THEN {} ELSE made[r].later

\* A run not begun has written nothing.
Quiet(r) == pc[r] = "unused" => \A i \in 1..Len(messages) : messages[i].run # r

\* What the runner was made with: nothing outside its context, and all of it
\* when the user's message set a proposal aside.
SetAside(r, i) ==
  /\ messages[i].type = "notice" /\ messages[i].run = r
  /\ messages[i + 1].type = "user" /\ messages[i + 1].run = r

Equipped(r) ==
  /\ made[r].tools \cup made[r].later \subseteq made[r].base
  /\ \A i \in 1..Len(messages) - 1 : SetAside(r, i) => made[r].tools = made[r].base

Pressed(r) ==
  \A i \in 1..Len(messages) :
    messages[i].type = "writenudge" /\ messages[i].run = r => "write" \in nudged[r]

RunInv(r) ==
  /\ Spoken(r) /\ Linked(r) /\ Books(r) /\ Progress(r)
  /\ Quiet(r) /\ LockRight(r) /\ Equipped(r) /\ Pressed(r)

\* One response at a time is relayed; the others of the runs that go on are
\* abandoned.
OneRelayed ==
  \A q, r \in Run : response[q] = "relaying" /\ response[r] = "relaying" => q = r

\* The calls of the last message, when it has some, are being executed.
LastAnswered ==
  \A i \in 1..Len(messages) :
    messages[i].type = "assistant" /\ messages[i].calls # {} /\ i = Len(messages)
      => pc[messages[i].run] = "reading"

Paired == Abandoned = {} => HistoryPaired /\ LastAnswered

IInv ==
  /\ TypeOK /\ FiniteCalls /\ OneRelayed /\ Paired /\ PressedOnce
  /\ \A r \in Run : RunInv(r)

-----------------------------------------------------------------------------
(***************************************************************************)
(* What a step adds to the history.                                        *)
(***************************************************************************)

\* The step adds the messages of t at the end of the history.
Adds(t) ==
  /\ messages' \in Seq(Message)
  /\ Len(messages') = Len(messages) + Len(t)
  /\ \A i \in 1..Len(messages) : messages'[i] = messages[i]
  /\ \A i \in 1..Len(t) : messages'[Len(messages) + i] = t[i]

LEMMA EntryType ==
  ASSUME NEW t \in Type, NEW r \in Run, NEW S \in SUBSET Call
  PROVE  /\ Entry(t, r, S) \in Message
         /\ Entry(t, r, S).type = t /\ Entry(t, r, S).run = r /\ Entry(t, r, S).calls = S
BY DEF Entry, Message

LEMMA MessageType ==
  ASSUME messages \in Seq(Message), NEW i \in 1..Len(messages)
  PROVE  /\ messages[i].type \in Type /\ messages[i].run \in Run
         /\ messages[i].calls \in SUBSET Call
<1>1. messages[i] \in Message
  OBVIOUS
<1> QED
  BY <1>1 DEF Message

LEMMA AddsNone ==
  ASSUME messages \in Seq(Message), UNCHANGED messages
  PROVE  \E t \in Seq(Message) : t = <<>> /\ Adds(t)
<1>1. <<>> \in Seq(Message) /\ Adds(<<>>)
  BY DEF Adds
<1> QED
  BY <1>1

LEMMA AddsOne ==
  ASSUME messages \in Seq(Message), NEW m \in Message, messages' = Append(messages, m)
  PROVE  \E t \in Seq(Message) : t = <<m>> /\ Adds(t)
<1>1. <<m>> \in Seq(Message) /\ Adds(<<m>>)
  BY DEF Adds
<1> QED
  BY <1>1

LEMMA AddsTwo ==
  ASSUME messages \in Seq(Message), NEW m \in Message, NEW n \in Message,
         \/ messages' = Append(Append(messages, m), n)
         \/ messages' = messages \o <<m, n>>
  PROVE  \E t \in Seq(Message) : t = <<m, n>> /\ Adds(t)
<1>0. <<m, n>> \in Seq(Message)
  OBVIOUS
<1>1. CASE messages' = messages \o <<m, n>>
  <2>1. /\ messages' \in Seq(Message) /\ Len(messages') = Len(messages) + 2
        /\ messages'[Len(messages) + 1] = m /\ messages'[Len(messages) + 2] = n
    BY <1>1
  <2>2. \A i \in 1..Len(messages) : messages'[i] = messages[i]
    BY <1>1
  <2>3. Adds(<<m, n>>)
    BY <2>1, <2>2 DEF Adds
  <2> QED
    BY <1>0, <2>3
<1>2. CASE messages' = Append(Append(messages, m), n)
  <2> DEFINE s == Append(messages, m)
  <2>1. /\ s \in Seq(Message) /\ Len(s) = Len(messages) + 1
        /\ s[Len(messages) + 1] = m
        /\ \A i \in 1..Len(messages) : s[i] = messages[i]
    OBVIOUS
  <2>2. messages' = Append(s, n)
    BY <1>2
  <2> HIDE DEF s
  <2>3. /\ messages' \in Seq(Message) /\ Len(messages') = Len(messages) + 2
        /\ messages'[Len(messages) + 1] = m /\ messages'[Len(messages) + 2] = n
    BY <2>1, <2>2
  <2>4. \A i \in 1..Len(messages) : messages'[i] = messages[i]
    BY <2>1, <2>2
  <2>5. Adds(<<m, n>>)
    BY <2>3, <2>4 DEF Adds
  <2> QED
    BY <1>0, <2>5
<1> QED
  BY <1>1, <1>2

\* A message of the longer history was there, or it is one of those added.
LEMMA OldOrNew ==
  ASSUME messages \in Seq(Message), NEW t \in Seq(Message), Adds(t),
         NEW i \in 1..Len(messages')
  PROVE  \/ i \in 1..Len(messages) /\ messages'[i] = messages[i]
         \/ \E k \in 1..Len(t) : i = Len(messages) + k /\ messages'[i] = t[k]
<1>1. CASE i \in 1..Len(messages)
  BY <1>1 DEF Adds
<1>2. CASE i \notin 1..Len(messages)
  <2> DEFINE k == i - Len(messages)
  <2>1. k \in 1..Len(t) /\ i = Len(messages) + k
    BY <1>2 DEF Adds
  <2> HIDE DEF k
  <2>2. messages'[i] = t[k]
    BY <2>1 DEF Adds
  <2> QED
    BY <2>1, <2>2
<1> QED
  BY <1>1, <1>2

\* Messages that are not answers of run r leave what it said as it was.
LEMMA StaysQuiet ==
  ASSUME messages \in Seq(Message), NEW r \in Run, NEW t \in Seq(Message), Adds(t),
         \A i \in 1..Len(t) : ~(t[i].type = "assistant" /\ t[i].run = r)
  PROVE  /\ Said(r)' = Said(r)
         /\ CallsOf(r)' = CallsOf(r)
         /\ \A i \in 1..Len(messages) : LastSaid(r, i) => LastSaid(r, i)'
<1>1. Said(r)' = Said(r)
  <2>1. ASSUME NEW i \in 1..Len(messages'), i \notin 1..Len(messages)
        PROVE  ~(messages'[i].type = "assistant" /\ messages'[i].run = r)
    <3>1. PICK k \in 1..Len(t) : messages'[i] = t[k]
      BY <2>1, OldOrNew
    <3> QED
      BY <3>1
  <2> QED
    BY <2>1 DEF Said, Adds
<1>2. CallsOf(r)' = CallsOf(r)
  <2>1. \A i \in Said(r) : messages'[i] = messages[i]
    BY DEF Said, Adds
  <2> QED
    BY <1>1, <2>1 DEF CallsOf
<1> QED
  BY <1>1, <1>2 DEF LastSaid

\* An answer of run r becomes the last thing it said.
LEMMA Speaks ==
  ASSUME messages \in Seq(Message), NEW r \in Run, NEW S \in SUBSET Call,
         NEW t \in Seq(Message), Adds(t), Len(t) > 0, t[1] = Entry("assistant", r, S),
         NEW n, n = Len(messages) + 1,
         \A i \in 2..Len(t) : t[i].type # "assistant"
  PROVE  /\ Said(r)' = Said(r) \cup {n}
         /\ CallsOf(r)' = CallsOf(r) \cup S
         /\ LastSaid(r, n)'
<1>1. /\ messages'[n].type = "assistant" /\ messages'[n].run = r
      /\ messages'[n].calls = S
  BY EntryType DEF Adds, Type
<1>2. ASSUME NEW i \in 1..Len(messages'), i \notin 1..Len(messages), i # n
      PROVE  messages'[i].type # "assistant"
  <2>1. PICK k \in 1..Len(t) : i = Len(messages) + k /\ messages'[i] = t[k]
    BY <1>2, OldOrNew
  <2>2. k \in 2..Len(t)
    BY <1>2, <2>1
  <2> QED
    BY <2>1, <2>2
<1>3. Said(r)' = Said(r) \cup {n}
  BY <1>1, <1>2 DEF Said, Adds
<1>4. CallsOf(r)' = CallsOf(r) \cup S
  <2>1. \A i \in Said(r) : messages'[i].calls = messages[i].calls
    BY DEF Said, Adds
  <2> QED
    BY <1>1, <1>3, <2>1 DEF CallsOf
<1>5. \A j \in Said(r) : j <= n
  BY DEF Said
<1> QED
  BY <1>3, <1>4, <1>5 DEF LastSaid

\* The calls Collect looks up are those of the last assistant message.
LEMMA LastOne ==
  ASSUME messages \in Seq(Message), NEW r \in Run, NEW i \in 1..Len(messages),
         LastSaid(r, i)
  PROVE  LastCalls(r) = messages[i].calls
<1> DEFINE Last(k) == /\ messages[k].type = "assistant" /\ messages[k].run = r
                      /\ \A j \in k+1..Len(messages) :
                           ~(messages[j].type = "assistant" /\ messages[j].run = r)
<1>1. Last(i)
  BY DEF LastSaid, Said
<1>2. \A k \in 1..Len(messages) : Last(k) => k = i
  BY DEF LastSaid, Said
<1>3. (CHOOSE k \in 1..Len(messages) : Last(k)) = i
  BY <1>1, <1>2
<1> QED
  BY <1>3 DEF LastCalls

\* A model response has finitely many calls.
LEMMA BatchType ==
  ASSUME NEW r \in Run, NEW p \in 1..2, turn[r] \in 1..MaxTurns,
         NEW S \in Batches(r, p)
  PROVE  S \in SUBSET Call /\ IsFiniteSet(S)
<1> USE BoundAssumption
<1>1. PICK k \in 0..MaxCalls : \E f \in [1..k -> Tool] :
        S = {[run |-> r, turn |-> turn[r], resp |-> p, n |-> i, tool |-> f[i]] : i \in 1..k}
  <2> DEFINE Sizes == {k \in 0..MaxCalls :
                         Cardinality(UNION {CallsOf(q) : q \in Run}) + k <= MaxCalls}
             Of(k) == {{[run |-> r, turn |-> turn[r], resp |-> p, n |-> i, tool |-> f[i]]
                          : i \in 1..k} : f \in [1..k -> Tool]}
  <2>1. Batches(r, p) = UNION {Of(k) : k \in Sizes}
    BY DEF Batches
  <2>2. PICK k \in Sizes : S \in Of(k)
    BY <2>1
  <2> QED
    BY <2>2
<1>2. PICK f \in [1..k -> Tool] :
        S = {[run |-> r, turn |-> turn[r], resp |-> p, n |-> i, tool |-> f[i]] : i \in 1..k}
  BY <1>1
<1>3. S \in SUBSET Call
  <2>1. ASSUME NEW i \in 1..k
        PROVE  [run |-> r, turn |-> turn[r], resp |-> p, n |-> i, tool |-> f[i]] \in Call
    BY <2>1 DEF Call
  <2> QED
    BY <1>2, <2>1
<1>4. IsFiniteSet(S)
  <2> DEFINE g == [i \in 1..k |-> [run |-> r, turn |-> turn[r], resp |-> p, n |-> i, tool |-> f[i]]]
  <2>1. g \in Surjection(1..k, S)
    BY <1>2 DEF Surjection
  <2>2. IsFiniteSet(1..k)
    BY <1>1, FS_Interval
  <2> QED
    BY <2>1, <2>2, FS_Surjection
<1> QED
  BY <1>3, <1>4

LEMMA AnswersType ==
  ASSUME NEW r \in Run, turn[r] \in 1..MaxTurns, NEW S \in Answers(r)
  PROVE  S \in SUBSET Call /\ IsFiniteSet(S)
<1>1. CASE S \in Batches(r, 1)
  BY <1>1, BatchType
<1>2. CASE \E S1 \in Batches(r, 1), S2 \in Batches(r, 2) : S = S1 \cup S2
  <2>1. PICK S1 \in Batches(r, 1), S2 \in Batches(r, 2) : S = S1 \cup S2
    BY <1>2
  <2>2. S1 \in SUBSET Call /\ IsFiniteSet(S1) /\ S2 \in SUBSET Call /\ IsFiniteSet(S2)
    BY BatchType
  <2> QED
    BY <2>1, <2>2, FS_Union
<1> QED
  BY <1>1, <1>2 DEF Answers

\* What is said is finite, and counted in step with the turns.
LEMMA SaidFinite ==
  ASSUME messages \in Seq(Message), NEW r \in Run
  PROVE  IsFiniteSet(Said(r)) /\ Cardinality(Said(r)) \in Nat
<1>1. IsFiniteSet(1..Len(messages))
  BY FS_Interval
<1>2. Said(r) \in SUBSET (1..Len(messages))
  BY DEF Said
<1>3. IsFiniteSet(Said(r))
  BY <1>1, <1>2, FS_Subset
<1> QED
  BY <1>3, FS_CardinalityType

LEMMA SaidCount ==
  ASSUME messages \in Seq(Message), NEW r \in Run, NEW n, n = Len(messages) + 1,
         Said(r)' = Said(r) \cup {n}
  PROVE  Cardinality(Said(r)') = Cardinality(Said(r)) + 1
<1>1. n \notin Said(r)
  BY DEF Said
<1> QED
  BY <1>1, SaidFinite, FS_AddElement

\* The results a run was sent stay in its history.
LEMMA ReadStays ==
  ASSUME messages \in Seq(Message), NEW r \in Run, NEW t \in Seq(Message), Adds(t),
         \A i \in 1..Len(t) : t[i].type = "results" /\ t[i].run = r => Reads(t[i].calls) = {}
  PROVE  HasRead(r)' <=> HasRead(r)
<1>1. HasRead(r) => HasRead(r)'
  BY DEF HasRead, Adds, Reads
<1>2. HasRead(r)' => HasRead(r)
  <2> SUFFICES ASSUME NEW i \in 1..Len(messages'),
                      messages'[i].type = "results", messages'[i].run = r,
                      Reads(messages'[i].calls) # {}
               PROVE  HasRead(r)
    BY DEF HasRead, Reads
  <2>1. CASE i \in 1..Len(messages)
    BY <2>1 DEF HasRead, Adds
  <2>2. CASE \E k \in 1..Len(t) : messages'[i] = t[k]
    BY <2>2
  <2> QED
    BY <2>1, <2>2, OldOrNew
<1> QED
  BY <1>1, <1>2

LEMMA FiniteStays ==
  ASSUME messages \in Seq(Message), FiniteCalls, NEW t \in Seq(Message), Adds(t),
         \A i \in 1..Len(t) : IsFiniteSet(t[i].calls)
  PROVE  FiniteCalls'
BY OldOrNew DEF FiniteCalls

LEMMA SpokenStays ==
  ASSUME messages \in Seq(Message), NEW r \in Run, Spoken(r),
         NEW t \in Seq(Message), Adds(t), CallsOf(r) \subseteq CallsOf(r)',
         \A i \in 1..Len(t) : t[i].run = r => t[i].calls \subseteq CallsOf(r)'
  PROVE  Spoken(r)'
<1> SUFFICES ASSUME NEW i \in 1..Len(messages'), messages'[i].run = r
             PROVE  messages'[i].calls \subseteq CallsOf(r)'
  BY DEF Spoken
<1>1. \/ i \in 1..Len(messages) /\ messages'[i] = messages[i]
      \/ \E k \in 1..Len(t) : messages'[i] = t[k]
  BY OldOrNew
<1>2. CASE i \in 1..Len(messages) /\ messages'[i] = messages[i]
  BY <1>2 DEF Spoken
<1>3. CASE \E k \in 1..Len(t) : messages'[i] = t[k]
  BY <1>3
<1> QED
  BY <1>1, <1>2, <1>3

LEMMA PressedStays ==
  ASSUME messages \in Seq(Message), NEW r \in Run, Pressed(r),
         NEW t \in Seq(Message), Adds(t), nudged[r] \subseteq nudged'[r],
         \A i \in 1..Len(t) :
           t[i].type = "writenudge" /\ t[i].run = r => "write" \in nudged'[r]
  PROVE  Pressed(r)'
<1> SUFFICES ASSUME NEW i \in 1..Len(messages'),
                    messages'[i].type = "writenudge", messages'[i].run = r
             PROVE  "write" \in nudged'[r]
  BY DEF Pressed
<1>1. \/ i \in 1..Len(messages) /\ messages'[i] = messages[i]
      \/ \E k \in 1..Len(t) : messages'[i] = t[k]
  BY OldOrNew
<1>2. CASE i \in 1..Len(messages) /\ messages'[i] = messages[i]
  BY <1>2 DEF Pressed
<1>3. CASE \E k \in 1..Len(t) : messages'[i] = t[k]
  BY <1>3
<1> QED
  BY <1>1, <1>2, <1>3

\* What was said before a message stays so.
LEMMA BeforeStays ==
  ASSUME messages \in Seq(Message), NEW t \in Seq(Message), Adds(t),
         NEW q, NEW i \in 1..Len(messages)
  PROVE  {k \in Said(q)' : k < i} = {k \in Said(q) : k < i}
BY DEF Said, Adds

\* Only a message of the user's own turns the tools to the full context.
LEMMA EquippedStays ==
  ASSUME messages \in Seq(Message), NEW r \in Run, Equipped(r), made'[r] = made[r],
         NEW t \in Seq(Message), Adds(t),
         \A i \in 1..Len(t) : ~(t[i].type = "user" /\ t[i].run = r)
  PROVE  Equipped(r)'
<1>1. ASSUME NEW i \in 1..Len(messages') - 1, SetAside(r, i)'
      PROVE  i \in 1..Len(messages) - 1 /\ SetAside(r, i)
  <2>1. i + 1 \in 1..Len(messages') /\ i \in 1..Len(messages')
    BY DEF Adds
  <2>2. \A k \in 1..Len(t) : messages'[i + 1] # t[k]
    BY <1>1 DEF SetAside
  <2>3. i + 1 \in 1..Len(messages) /\ messages'[i + 1] = messages[i + 1]
    BY <2>1, <2>2, OldOrNew
  <2>4. i \in 1..Len(messages) - 1 /\ messages'[i] = messages[i]
    BY <2>3 DEF Adds
  <2> QED
    BY <1>1, <2>3, <2>4 DEF SetAside
<1> QED
  BY <1>1 DEF Equipped

\* Without a nudge to write the rule about these nudges stays true.
LEMMA OnceStays ==
  ASSUME messages \in Seq(Message), PressedOnce, NEW t \in Seq(Message), Adds(t),
         \A i \in 1..Len(t) : t[i].type # "writenudge",
         \A i \in 1..Len(messages) : made'[messages[i].run] = made[messages[i].run]
  PROVE  PressedOnce'
<1>1. ASSUME NEW i \in 1..Len(messages'), messages'[i].type = "writenudge"
      PROVE  i \in 1..Len(messages) /\ messages'[i] = messages[i]
  <2>1. \A k \in 1..Len(t) : messages'[i] # t[k]
    BY <1>1
  <2> QED
    BY <2>1, OldOrNew
<1>2. ASSUME NEW i \in 1..Len(messages'), NEW j \in 1..Len(messages'),
             messages'[i].type = "writenudge", messages'[j].run = messages'[i].run
      PROVE  /\ messages'[j].type = "writenudge" => i = j
             /\ j < i => messages'[j].calls \subseteq Reads(messages'[j].calls)
  <2>1. i \in 1..Len(messages) /\ messages'[i] = messages[i]
    BY <1>1, <1>2
  <2>2. messages'[j].type = "writenudge" => i = j
    BY <1>1, <1>2, <2>1 DEF PressedOnce
  <2>3. ASSUME j < i
        PROVE  messages'[j].calls \subseteq Reads(messages'[j].calls)
    <3>1. j \in 1..Len(messages) /\ messages'[j] = messages[j]
      BY <2>1, <2>3 DEF Adds
    <3> QED
      BY <1>2, <2>1, <2>3, <3>1 DEF PressedOnce
  <2> QED
    BY <2>2, <2>3
<1>3. ASSUME NEW i \in 1..Len(messages'), messages'[i].type = "writenudge"
      PROVE  /\ Cardinality({k \in Said(messages[i].run)' : k < i}) > 1
             /\ HasWriteTools(messages[i].run)'
  <2>1. PICK q : q = messages[i].run
    OBVIOUS
  <2>2. i \in 1..Len(messages) /\ messages'[i] = messages[i]
    BY <1>1, <1>3
  <2>3. Cardinality({k \in Said(q) : k < i}) > 1 /\ HasWriteTools(q) /\ made'[q] = made[q]
    BY <1>3, <2>1, <2>2 DEF PressedOnce
  <2>4. Cardinality({k \in Said(q)' : k < i}) > 1
    BY <2>2, <2>3, BeforeStays
  <2>5. Cardinality({k \in Said(messages[i].run)' : k < i}) > 1
    BY <2>1, <2>2, <2>4 DEF Said
  <2>6. HasWriteTools(messages[i].run)'
    BY <2>1, <2>2, <2>3 DEF HasWriteTools
  <2> QED
    BY <2>5, <2>6
<1> QED
  BY <1>2, <1>3 DEF PressedOnce, Reads

-----------------------------------------------------------------------------
(***************************************************************************)
(* Init, and the runs a step is not about.                                 *)
(***************************************************************************)
LEMMA InitIInv == Init => IInv
<1> SUFFICES ASSUME Init PROVE IInv
  OBVIOUS
<1> USE BoundAssumption, ToolAssumption
<1>1. TypeOK
  <2>1. /\ made \in [Run -> [base: SUBSET Tool, tools: SUBSET Tool, later: SUBSET Tool]]
        /\ deferred \in [Run -> SUBSET Tool]
    BY DEF Init
  <2>2. messages \in Seq(Message) /\ provider \in Providers
    BY DEF Init
  <2>6. open \in BOOLEAN
    BY DEF Init
  <2>3. /\ pc \in [Run -> {"unused", "asking", "reading", "finished", "failed"}]
        /\ turn \in [Run -> 1..MaxTurns] /\ offered \in [Run -> SUBSET Tool]
    BY DEF Init
  <2>4. /\ reading \in [Run -> SUBSET Call] /\ executed \in [Run -> SUBSET Call]
        /\ pending \in [Run -> SUBSET Call] /\ nudged \in [Run -> SUBSET {"tool", "write"}]
    BY DEF Init
  <2>5. /\ queue \in [Run -> Nat]
        /\ response \in [Run -> {"none", "relaying", "ended", "broken", "abandoned"}]
    BY DEF Init
  <2> QED
    BY <2>1, <2>2, <2>3, <2>4, <2>5, <2>6 DEF TypeOK
<1>2. Len(messages) = 0 /\ messages = <<>>
  BY DEF Init
<1>3. FiniteCalls /\ OneRelayed /\ PressedOnce
  BY <1>2 DEF Init, FiniteCalls, OneRelayed, PressedOnce
<1>4. Paired
  BY <1>2 DEF Paired, HistoryPaired, LastAnswered
<1>5. ASSUME NEW r \in Run PROVE RunInv(r)
  <2>1. Said(r) = {} /\ CallsOf(r) = {} /\ ~HasRead(r)
    BY <1>2 DEF Said, CallsOf, HasRead
  <2>2. Spoken(r) /\ Pressed(r)
    BY <1>2 DEF Spoken, Pressed
  <2>3. Linked(r) /\ Books(r)
    BY <2>1 DEF Init, Linked, Books, Reads
  <2>4. Progress(r)
    BY <2>1, FS_EmptySet DEF Init, Progress
  <2>5. Quiet(r) /\ LockRight(r) /\ Equipped(r)
    BY <1>2 DEF Init, Quiet, LockRight, Equipped
  <2> QED
    BY <2>2, <2>3, <2>4, <2>5 DEF RunInv
<1> QED
  BY <1>1, <1>3, <1>4, <1>5 DEF IInv

\* The step leaves the locals of run q alone.
Same(q) ==
  /\ pc'[q] = pc[q] /\ turn'[q] = turn[q] /\ made'[q] = made[q]
  /\ offered'[q] = offered[q] /\ deferred'[q] = deferred[q] /\ reading'[q] = reading[q] /\ executed'[q] = executed[q]
  /\ pending'[q] = pending[q] /\ nudged'[q] = nudged[q] /\ queue'[q] = queue[q]
  /\ response'[q] = response[q]

\* A run keeps its invariant while others work on the same history.
LEMMA Others ==
  ASSUME messages \in Seq(Message), NEW q \in Run, RunInv(q), Same(q),
         NEW t \in Seq(Message), Adds(t), \A i \in 1..Len(t) : t[i].run # q
  PROVE  RunInv(q)'
<1>1. /\ Said(q)' = Said(q) /\ CallsOf(q)' = CallsOf(q)
      /\ \A i \in 1..Len(messages) : LastSaid(q, i) => LastSaid(q, i)'
  BY StaysQuiet
<1>2. Spoken(q)'
  BY <1>1, SpokenStays DEF RunInv
<1>3. Linked(q)'
  BY DEF RunInv, Linked, Same
<1>4. Books(q)'
  <2>1. CASE pc[q] # "reading"
    BY <1>1, <2>1 DEF RunInv, Books, Same, Reads
  <2>2. CASE pc[q] = "reading"
    <3>1. PICK i \in 1..Len(messages) : Waiting(q, i)
      BY <2>2 DEF RunInv, Books
    <3>2. messages'[i] = messages[i] /\ i \in 1..Len(messages')
      BY DEF Adds
    <3>3. Waiting(q, i)'
      BY <1>1, <3>1, <3>2 DEF Waiting, Same, Reads
    <3> QED
      BY <2>2, <3>2, <3>3 DEF Books, Same
  <2> QED
    BY <2>1, <2>2
<1>5. Progress(q)'
  BY <1>1 DEF RunInv, Progress, Same
<1>6. HasRead(q)' <=> HasRead(q)
  BY ReadStays
<1>7. LockRight(q)'
  BY <1>6 DEF RunInv, LockRight, Same
<1>8. Pressed(q)'
  BY PressedStays DEF RunInv, Same
<1>9. Quiet(q)'
  <2>1. ASSUME pc[q] = "unused", NEW i \in 1..Len(messages')
        PROVE  messages'[i].run # q
    BY <2>1, OldOrNew DEF RunInv, Quiet
  <2> QED
    BY <2>1 DEF Quiet, Same
<1>10. Equipped(q)'
  BY EquippedStays DEF RunInv, Same
<1> QED
  BY <1>2, <1>3, <1>4, <1>5, <1>7, <1>8, <1>9, <1>10 DEF RunInv

\* What remains to be shown of a step of run r.
LEMMA StepOf ==
  ASSUME IInv, NEW r \in Run, NEW t \in Seq(Message), Adds(t),
         \A i \in 1..Len(t) : t[i].run = r /\ IsFiniteSet(t[i].calls),
         \A q \in Run \ {r} : Same(q),
         TypeOK', RunInv(r)', PressedOnce', OneRelayed', Paired'
  PROVE  IInv'
<1>1. messages \in Seq(Message) /\ FiniteCalls
  BY DEF IInv, TypeOK
<1>2. FiniteCalls'
  BY <1>1, FiniteStays
<1>3. ASSUME NEW q \in Run PROVE RunInv(q)'
  <2>1. CASE q = r
    BY <2>1
  <2>2. CASE q # r
    <3>1. RunInv(q) /\ Same(q)
      BY <2>2 DEF IInv
    <3>2. \A i \in 1..Len(t) : t[i].run # q
      BY <2>2
    <3> QED
      BY <1>1, <3>1, <3>2, Others
  <2> QED
    BY <2>1, <2>2
<1> QED
  BY <1>2, <1>3 DEF IInv

-----------------------------------------------------------------------------
(***************************************************************************)
(* Steps that add nothing to the history.                                  *)
(***************************************************************************)
LEMMA SilentStep ==
  ASSUME IInv, NEW r \in Run, UNCHANGED messages,
         \A q \in Run \ {r} : Same(q),
         pc[r] = "reading" => pc'[r] = "reading",
         Abandoned' = {} => Abandoned = {},
         response'[r] = "relaying" => response[r] = "relaying",
         nudged'[r] = nudged[r], UNCHANGED made, pc[r] # "unused", pc'[r] # "unused",
         TypeOK', Linked(r)', Books(r)', Progress(r)', LockRight(r)'
  PROVE  IInv'
<1>1. messages \in Seq(Message)
  BY DEF IInv, TypeOK
<1>2. PICK t \in Seq(Message) : t = <<>> /\ Adds(t)
  BY <1>1, AddsNone
<1>3. Adds(t) /\ Len(t) = 0
  BY <1>2
<1>4. /\ CallsOf(r)' = CallsOf(r)
      /\ \A q \in Run \ {r} : response'[q] = response[q] /\ pc'[q] = pc[q]
  BY DEF CallsOf, Said, Same
<1>5. RunInv(r)'
  <2>1. RunInv(r)
    BY DEF IInv
  <2> QED
    BY <1>4, <2>1 DEF RunInv, Spoken, Pressed, Quiet, Equipped, SetAside
<1>6. OneRelayed'
  BY <1>4 DEF IInv, OneRelayed
<1>7. PressedOnce'
  <2>1. PressedOnce
    BY DEF IInv
  <2>2. \A i \in 1..Len(t) : t[i].type # "writenudge"
    BY <1>3
  <2> QED
    BY <1>1, <1>3, <2>1, <2>2, OnceStays
<1>8. Paired'
  <2>1. SUFFICES ASSUME Abandoned' = {} PROVE HistoryPaired' /\ LastAnswered'
    BY DEF Paired
  <2>2. HistoryPaired /\ LastAnswered
    BY <2>1 DEF IInv, Paired
  <2>3. \A i \in 1..Len(messages) : messages[i].run \in Run
    BY <1>1, MessageType
  <2> QED
    BY <1>4, <2>2, <2>3 DEF HistoryPaired, LastAnswered
<1>9. \A i \in 1..Len(t) : t[i].run = r /\ IsFiniteSet(t[i].calls)
  BY <1>3
<1> QED
  BY <1>3, <1>5, <1>6, <1>7, <1>8, <1>9, StepOf

LEMMA FinishReadStep ==
  ASSUME IInv, NEW r \in Run, NEW c \in reading[r], FinishRead(r, c), UNCHANGED provider
  PROVE  IInv'
<1> USE DEF FinishRead
<1>1. TypeOK /\ RunInv(r)
  BY DEF IInv
<1>2. TypeOK'
  BY <1>1 DEF TypeOK
<1>3. \A q \in Run \ {r} : Same(q)
  BY <1>1 DEF TypeOK, Same
<1>4. /\ reading'[r] = reading[r] \ {c} /\ executed'[r] = executed[r] \cup {c}
      /\ pc'[r] = "reading" /\ pc[r] = "reading"
  BY <1>1 DEF TypeOK
<1>5. Books(r)'
  <2>1. PICK i \in 1..Len(messages) : Waiting(r, i)
    BY <1>1, <1>4 DEF RunInv, Books
  <2>2. /\ CallsOf(r)' = CallsOf(r) /\ Said(r)' = Said(r)
    BY DEF CallsOf, Said
  <2>3. LastSaid(r, i)' /\ Reads(messages[i].calls)' = Reads(messages[i].calls)
        /\ Reads(CallsOf(r))' = Reads(CallsOf(r))
    BY <2>1, <2>2 DEF Waiting, LastSaid, Reads
  <2>4. executed'[r] \cup reading'[r] = executed[r] \cup reading[r]
    BY <1>4
  <2>5. Waiting(r, i)'
    BY <2>1, <2>2, <2>3, <2>4 DEF Waiting
  <2> QED
    BY <1>4, <2>5 DEF Books
<1>6. Linked(r)' /\ Progress(r)' /\ LockRight(r)'
  BY <1>1 DEF RunInv, Linked, Progress, LockRight, HasRead, Said, Reads
<1>7. Abandoned' = Abandoned
  BY DEF Abandoned
<1> QED
  BY <1>2, <1>3, <1>4, <1>5, <1>6, <1>7, SilentStep

LEMMA FailStep ==
  ASSUME IInv, NEW r \in Run, Fail(r), UNCHANGED provider
  PROVE  IInv'
<1> USE DEF Fail
<1>1. TypeOK /\ RunInv(r)
  BY DEF IInv
<1>2. TypeOK'
  BY <1>1 DEF TypeOK
<1>3. \A q \in Run \ {r} : Same(q)
  BY <1>1 DEF TypeOK, Same
<1>4. pc[r] = "asking" /\ pc'[r] = "failed"
  BY <1>1 DEF TypeOK
<1>5. Books(r)'
  BY <1>1, <1>4 DEF RunInv, Books, CallsOf, Said, Reads
<1>6. Linked(r)' /\ Progress(r)' /\ LockRight(r)'
  BY <1>1, <1>4 DEF RunInv, Linked, Progress, LockRight, Said
<1>7. Abandoned' = Abandoned
  BY DEF Abandoned
<1> QED
  BY <1>2, <1>3, <1>4, <1>5, <1>6, <1>7, SilentStep

\* The generator leaves the task alone.
LEMMA GeneratorStep ==
  ASSUME IInv, NEW r \in Run, UNCHANGED <<provider, messages, taskVars>>, TypeOK',
         response[r] = "relaying",
         \A q \in Run \ {r} : queue'[q] = queue[q] /\ response'[q] = response[q],
         \/ response'[r] = "relaying"
         \/ response'[r] = "abandoned"
         \/ pc[r] = "finished" /\ queue'[r] = 0 /\ response'[r] = "ended"
         \/ pc[r] = "failed" /\ response'[r] = "broken"
  PROVE  IInv'
<1> USE DEF taskVars
<1>1. TypeOK /\ RunInv(r)
  BY DEF IInv
<1>2. \A q \in Run \ {r} : Same(q)
  BY DEF Same
<1>3. Books(r)'
  <2>1. CallsOf(r)' = CallsOf(r) /\ Said(r)' = Said(r)
    BY DEF CallsOf, Said
  <2>2. CASE pc[r] # "reading"
    BY <1>1, <2>1, <2>2 DEF RunInv, Books, Reads
  <2>3. CASE pc[r] = "reading"
    <3>1. PICK i \in 1..Len(messages) : Waiting(r, i)
      BY <1>1, <2>3 DEF RunInv, Books
    <3>2. Waiting(r, i)'
      BY <2>1, <3>1 DEF Waiting, LastSaid, Reads
    <3> QED
      BY <2>3, <3>2 DEF Books
  <2> QED
    BY <2>2, <2>3
<1>4. Linked(r)'
  BY <1>1 DEF RunInv, Linked
<1>5. Progress(r)' /\ LockRight(r)'
  BY <1>1 DEF RunInv, Progress, LockRight, HasRead, Said, Reads
<1>6. Abandoned' = {} => Abandoned = {}
  BY DEF Abandoned
<1>7. pc[r] # "unused"
  BY <1>1 DEF RunInv, Linked
<1> QED
  BY <1>2, <1>3, <1>4, <1>5, <1>6, <1>7, SilentStep

LEMMA RelayStep ==
  ASSUME IInv, NEW r \in Run, Relay(r), UNCHANGED provider
  PROVE  IInv'
<1>1. TypeOK
  BY DEF IInv
<1>2. TypeOK'
  BY <1>1 DEF TypeOK, Relay, taskVars
<1>3. \A q \in Run \ {r} : queue'[q] = queue[q] /\ response'[q] = response[q]
  BY <1>1 DEF TypeOK, Relay
<1> QED
  BY <1>2, <1>3, GeneratorStep DEF Relay

LEMMA ConcludeStep ==
  ASSUME IInv, NEW r \in Run, Conclude(r), UNCHANGED provider
  PROVE  IInv'
<1>1. TypeOK
  BY DEF IInv
<1>2. open' \in BOOLEAN
  BY <1>1 DEF TypeOK, Conclude
<1>3. TypeOK'
  BY <1>1, <1>2 DEF TypeOK, Conclude, taskVars
<1>4. \A q \in Run \ {r} : queue'[q] = queue[q] /\ response'[q] = response[q]
  BY <1>1 DEF TypeOK, Conclude
<1>5. \/ pc[r] = "finished" /\ queue'[r] = 0 /\ response'[r] = "ended"
      \/ pc[r] = "failed" /\ response'[r] = "broken"
  BY <1>1 DEF TypeOK, Conclude
<1> QED
  BY <1>3, <1>4, <1>5, GeneratorStep DEF Conclude

LEMMA AbandonStep ==
  ASSUME IInv, NEW r \in Run, Abandon(r), UNCHANGED provider
  PROVE  IInv'
<1>1. TypeOK
  BY DEF IInv
<1>2. TypeOK'
  BY <1>1 DEF TypeOK, Abandon, taskVars
<1>3. \A q \in Run \ {r} : queue'[q] = queue[q] /\ response'[q] = response[q]
  BY <1>1 DEF TypeOK, Abandon
<1>4. response'[r] = "abandoned"
  BY <1>1 DEF TypeOK, Abandon
<1> QED
  BY <1>2, <1>3, <1>4, GeneratorStep DEF Abandon

-----------------------------------------------------------------------------
(***************************************************************************)
(* Steps that write the history.                                           *)
(***************************************************************************)

\* Message i calls tools and no message after it has their results yet.
Unanswered(i) == messages[i].type = "assistant" /\ messages[i].calls # {}

\* A message added after calls holds their results, so the pairs stay whole.
LEMMA PairsStay ==
  ASSUME messages \in Seq(Message), HistoryPaired,
         NEW t \in Seq(Message), Len(t) > 0, Adds(t),
         \A i \in 1..Len(messages) : i = Len(messages) /\ Unanswered(i)
           => t[1].type = "results" /\ t[1].calls = messages[i].calls,
         \A k \in 1..Len(t) - 1 : t[k].type = "assistant" /\ t[k].calls # {}
           => t[k + 1].type = "results" /\ t[k + 1].calls = t[k].calls
  PROVE  HistoryPaired'
<1> SUFFICES ASSUME NEW i \in 1..Len(messages') - 1,
                    messages'[i].type = "assistant", messages'[i].calls # {}
             PROVE  /\ messages'[i + 1].type = "results"
                    /\ messages'[i + 1].calls = messages'[i].calls
  BY DEF HistoryPaired
<1>1. CASE i \in 1..Len(messages) - 1
  <2>1. messages'[i] = messages[i] /\ messages'[i + 1] = messages[i + 1]
    BY <1>1 DEF Adds
  <2> QED
    BY <1>1, <2>1 DEF HistoryPaired
<1>2. CASE i \in 1..Len(messages) /\ i = Len(messages)
  <2>1. messages'[i] = messages[i] /\ messages'[i + 1] = t[1]
    BY <1>2 DEF Adds
  <2> QED
    BY <1>2, <2>1 DEF Unanswered
<1>3. CASE i > Len(messages)
  <2>1. PICK k \in 1..Len(t) : i = Len(messages) + k /\ messages'[i] = t[k]
    BY <1>3, OldOrNew
  <2>2. k \in 1..Len(t) - 1 /\ k + 1 \in 1..Len(t) /\ i + 1 = Len(messages) + (k + 1)
    BY <2>1 DEF Adds
  <2>3. messages'[i + 1] = t[k + 1]
    BY <2>2 DEF Adds
  <2> QED
    BY <2>1, <2>2, <2>3
<1> QED
  BY <1>1, <1>2, <1>3

\* While no response is abandoned, only the run being relayed is at work.
LEMMA AtWork ==
  ASSUME IInv, Abandoned = {}, NEW q \in Run, pc[q] \in {"asking", "reading"}
  PROVE  /\ response[q] = "relaying"
         /\ \A r \in Run : pc[r] \in {"asking", "reading"} => r = q
<1>1. \A r \in Run : pc[r] \in {"asking", "reading"} => response[r] = "relaying"
  BY DEF IInv, RunInv, Linked, Abandoned
<1> QED
  BY <1>1 DEF IInv, OneRelayed

\* What a task adds keeps calls and results together.
LEMMA TaskPaired ==
  ASSUME IInv, NEW r \in Run, pc[r] \in {"asking", "reading"}, UNCHANGED response,
         NEW t \in Seq(Message), Len(t) > 0, Adds(t),
         pc[r] = "reading" =>
           /\ t[1].type = "results"
           /\ \A i \in 1..Len(messages) : LastSaid(r, i) => t[1].calls = messages[i].calls,
         \A k \in 1..Len(t) - 1 : t[k].type = "assistant" /\ t[k].calls # {}
           => t[k + 1].type = "results" /\ t[k + 1].calls = t[k].calls,
         LET m == t[Len(t)] IN
           m.type = "assistant" /\ m.calls # {} => pc'[m.run] = "reading"
  PROVE  Paired' /\ OneRelayed'
<1>1. messages \in Seq(Message) /\ OneRelayed
  BY DEF IInv, TypeOK
<1>2. OneRelayed'
  BY <1>1 DEF OneRelayed
<1>3. ASSUME Abandoned = {} PROVE HistoryPaired' /\ LastAnswered'
  <2>1. HistoryPaired /\ LastAnswered
    BY <1>3 DEF IInv, Paired
  <2>2. ASSUME NEW i \in 1..Len(messages), i = Len(messages), Unanswered(i)
        PROVE  t[1].type = "results" /\ t[1].calls = messages[i].calls
    <3>1. messages[i].run \in Run /\ pc[messages[i].run] = "reading"
      BY <1>1, <2>1, <2>2, MessageType DEF LastAnswered, Unanswered
    <3>2. messages[i].run = r /\ pc[r] = "reading"
      BY <1>3, <3>1, AtWork
    <3>3. LastSaid(r, i)
      BY <2>2, <3>2 DEF LastSaid, Said, Unanswered
    <3> QED
      BY <3>2, <3>3
  <2>3. HistoryPaired'
    BY <1>1, <2>1, <2>2, PairsStay
  <2>4. LastAnswered'
    <3>1. Len(messages') = Len(messages) + Len(t) /\ messages'[Len(messages')] = t[Len(t)]
      BY <1>1 DEF Adds
    <3> QED
      BY <3>1 DEF LastAnswered
  <2> QED
    BY <2>3, <2>4
<1>4. Abandoned' = Abandoned
  BY DEF Abandoned
<1> QED
  BY <1>2, <1>3, <1>4 DEF Paired

\* What the user does between two responses finds no call unanswered.
LEMMA UserPaired ==
  ASSUME IInv, \A q \in Run : response[q] # "relaying",
         NEW t \in Seq(Message), Len(t) > 0, Adds(t), Abandoned' = Abandoned,
         \A k \in 1..Len(t) : t[k].type # "assistant"
  PROVE  Paired'
<1>1. messages \in Seq(Message)
  BY DEF IInv, TypeOK
<1>2. ASSUME Abandoned = {} PROVE HistoryPaired' /\ LastAnswered'
  <2>1. HistoryPaired /\ LastAnswered
    BY <1>2 DEF IInv, Paired
  <2>2. ASSUME NEW i \in 1..Len(messages), i = Len(messages), Unanswered(i)
        PROVE  FALSE
    <3>1. messages[i].run \in Run /\ pc[messages[i].run] = "reading"
      BY <1>1, <2>1, <2>2, MessageType DEF LastAnswered, Unanswered
    <3> QED
      BY <1>2, <3>1, AtWork
  <2>3. HistoryPaired'
    BY <1>1, <2>1, <2>2, PairsStay
  <2>4. LastAnswered'
    <3>1. Len(messages') = Len(messages) + Len(t) /\ messages'[Len(messages')] = t[Len(t)]
      BY <1>1 DEF Adds
    <3> QED
      BY <3>1 DEF LastAnswered
  <2> QED
    BY <2>3, <2>4
<1> QED
  BY <1>2 DEF Paired

\* A nudge to write comes once, after the first turn and with no write
\* proposed.
LEMMA NudgeOnce ==
  ASSUME IInv, NEW r \in Run, pc[r] = "asking", turn[r] > 1, pending[r] = {},
         "write" \notin nudged[r], HasWriteTools(r), UNCHANGED made,
         NEW t \in Seq(Message), Adds(t), Len(t) = 2,
         t[1] = Entry("assistant", r, {}), t[2] = Entry("writenudge", r, {})
  PROVE  PressedOnce'
<1>1. messages \in Seq(Message) /\ PressedOnce /\ RunInv(r) /\ turn[r] \in Nat
  BY BoundAssumption DEF IInv, TypeOK
<1>2. PICK n : n = Len(messages) + 1
  OBVIOUS
<1>3. /\ Len(messages') = n + 1
      /\ messages'[n].type = "assistant" /\ messages'[n].calls = {}
      /\ messages'[n + 1].type = "writenudge" /\ messages'[n + 1].run = r
      /\ \A i \in 1..Len(messages) : messages'[i] = messages[i]
  BY <1>1, <1>2 DEF Adds, Entry
<1>4. \A i \in 1..Len(messages') : i \in 1..Len(messages) \/ i = n \/ i = n + 1
  BY <1>1, <1>2, <1>3
<1>5. \A i \in 1..Len(messages) : messages[i].type = "writenudge" => messages[i].run # r
  BY <1>1 DEF RunInv, Pressed
<1>6. Said(r)' = Said(r) \cup {n}
  <2>1. \A i \in 2..Len(t) : t[i].type # "assistant"
    BY DEF Entry
  <2> QED
    BY <1>1, <1>2, <2>1, Speaks, EntryType
<1> SUFFICES ASSUME NEW i \in 1..Len(messages'), NEW j \in 1..Len(messages'),
                    messages'[i].type = "writenudge"
             PROVE  /\ messages'[j].type = "writenudge" /\ messages'[j].run = messages'[i].run => i = j
                    /\ j < i /\ messages'[j].run = messages'[i].run
                         => messages'[j].calls \subseteq Reads(messages'[j].calls)
                    /\ \A q : q = messages'[i].run
                         => Cardinality({k \in Said(q)' : k < i}) > 1 /\ HasWriteTools(q)'
  BY DEF PressedOnce, Said, Reads, HasWriteTools
<1>7. CASE i \in 1..Len(messages)
  <2>1. messages'[i] = messages[i]
    BY <1>3, <1>7
  <2>2. messages'[j].type = "writenudge" /\ messages'[j].run = messages'[i].run => i = j
    <3>1. CASE j \in 1..Len(messages)
      <4>1. messages'[j] = messages[j] /\ messages[i].type = "writenudge"
        BY <1>3, <2>1, <3>1
      <4>2. messages[j].type = "writenudge" /\ messages[j].run = messages[i].run => i = j
        BY <1>1, <1>7, <3>1, <4>1 DEF PressedOnce
      <4> QED
        BY <2>1, <4>1, <4>2
    <3>2. messages'[i].run # r
      BY <1>5, <1>7, <2>1
    <3> QED
      BY <1>3, <1>4, <3>1, <3>2
  <2>3. ASSUME j < i, messages'[j].run = messages'[i].run
        PROVE  messages'[j].calls \subseteq Reads(messages'[j].calls)
    <3>1. j \in 1..Len(messages) /\ messages'[j] = messages[j]
      BY <1>3, <1>7, <2>3
    <3> QED
      BY <1>1, <1>7, <2>1, <2>3, <3>1 DEF PressedOnce
  <2>4. ASSUME NEW q, q = messages'[i].run
        PROVE  Cardinality({k \in Said(q)' : k < i}) > 1 /\ HasWriteTools(q)'
    <3>1. q = messages[i].run
      BY <2>1, <2>4
    <3>2. Cardinality({k \in Said(q) : k < i}) > 1 /\ HasWriteTools(q)
      BY <1>1, <1>7, <2>1, <3>1 DEF PressedOnce
    <3>3. HasWriteTools(q)'
      BY <3>2 DEF HasWriteTools
    <3> QED
      BY <1>1, <1>7, <3>2, <3>3, BeforeStays
  <2> QED
    BY <2>2, <2>3, <2>4
<1>8. CASE i = n + 1
  <2>1. messages'[i].run = r
    BY <1>3, <1>8
  <2>2. messages'[j].type = "writenudge" /\ messages'[j].run = r => i = j
    BY <1>3, <1>4, <1>5, <1>8
  <2>3. ASSUME j < i, messages'[j].run = r
        PROVE  messages'[j].calls \subseteq Reads(messages'[j].calls)
    <3>1. CASE j \in 1..Len(messages)
      <4>1. messages[j].calls \subseteq CallsOf(r)
        BY <1>1, <1>3, <2>3, <3>1 DEF RunInv, Spoken
      <4>2. CallsOf(r) \subseteq Reads(CallsOf(r))
        BY <1>1 DEF RunInv, Books
      <4> QED
        BY <1>3, <3>1, <4>1, <4>2 DEF Reads
    <3>2. CASE j = n
      BY <1>3, <3>2
    <3> QED
      BY <1>4, <1>8, <2>3, <3>1, <3>2
  <2>4. Cardinality({k \in Said(r)' : k < i}) > 1
    <3>1. {k \in Said(r)' : k < i} = Said(r)'
      BY <1>2, <1>6, <1>8 DEF Said
    <3>2. Cardinality(Said(r)') = Cardinality(Said(r)) + 1
      BY <1>1, <1>2, <1>6, SaidCount
    <3>3. Cardinality(Said(r)) \in Nat /\ turn[r] <= Cardinality(Said(r)) + 1
      BY <1>1, SaidFinite DEF RunInv, Progress
    <3>4. Cardinality(Said(r)') > 1
      BY <1>1, <3>2, <3>3
    <3> QED
      BY <3>1, <3>4
  <2>5. HasWriteTools(r)'
    BY DEF HasWriteTools
  <2> QED
    BY <2>1, <2>2, <2>3, <2>4, <2>5
<1> QED
  BY <1>3, <1>4, <1>7, <1>8

\* The next turn, or the end of the loop.
LEMMA TurnOrEnd ==
  ASSUME TypeOK, NEW r \in Run, NextTurn(r) \/ Break(r)
  PROVE  /\ pc' \in [Run -> {"unused", "asking", "reading", "finished", "failed"}]
         /\ turn' \in [Run -> 1..MaxTurns]
         /\ pc'[r] \in {"asking", "finished"} /\ turn'[r] <= turn[r] + 1
         /\ \A q \in Run \ {r} : pc'[q] = pc[q] /\ turn'[q] = turn[q]
<1> USE BoundAssumption DEF TypeOK
<1>1. CASE Break(r)
  BY <1>1 DEF Break
<1>2. CASE NextTurn(r)
  <2>1. CASE turn[r] < MaxTurns
    <3>1. pc' = [pc EXCEPT ![r] = "asking"] /\ turn' = [turn EXCEPT ![r] = @ + 1]
      BY <1>2, <2>1 DEF NextTurn
    <3>2. turn[r] + 1 \in 1..MaxTurns
      BY <2>1
    <3> QED
      BY <3>1, <3>2
  <2>2. CASE ~(turn[r] < MaxTurns)
    <3>1. pc' = [pc EXCEPT ![r] = "finished"] /\ turn' = turn
      BY <1>2, <2>2 DEF NextTurn
    <3> QED
      BY <3>1
  <2> QED
    BY <2>1, <2>2
<1> QED
  BY <1>1, <1>2

LEMMA AnswerTextStep ==
  ASSUME IInv, NEW r \in Run, AnswerText(r), UNCHANGED provider
  PROVE  IInv'
<1>1. TypeOK /\ RunInv(r) /\ PressedOnce /\ messages \in Seq(Message) /\ pc[r] = "asking"
  BY DEF IInv, TypeOK, AnswerText
<1>2. PICK a, b, c : /\ a = Entry("assistant", r, {}) /\ b = Entry("toolnudge", r, {})
                     /\ c = Entry("writenudge", r, {})
  OBVIOUS
<1>3. /\ a \in Message /\ a.type = "assistant" /\ a.run = r /\ a.calls = {}
      /\ b \in Message /\ b.type = "toolnudge" /\ b.run = r /\ b.calls = {}
      /\ c \in Message /\ c.type = "writenudge" /\ c.run = r /\ c.calls = {}
  BY <1>2, EntryType DEF Type
<1>4. PICK t \in Seq(Message) :
        /\ Adds(t)
        /\ \/ t = <<a>> /\ UNCHANGED nudged
           \/ t = <<a, b>> /\ nudged' = [nudged EXCEPT ![r] = @ \cup {"tool"}]
           \/ t = <<a, c>> /\ nudged' = [nudged EXCEPT ![r] = @ \cup {"write"}]
                           /\ NudgeWrite(r)
  <2>1. \/ messages' = Append(Append(messages, a), b)
             /\ nudged' = [nudged EXCEPT ![r] = @ \cup {"tool"}]
        \/ messages' = Append(Append(messages, a), c) /\ NudgeWrite(r)
             /\ nudged' = [nudged EXCEPT ![r] = @ \cup {"write"}]
        \/ messages' = Append(messages, a) /\ UNCHANGED nudged
    BY <1>2 DEF AnswerText
  <2>2. messages' = Append(messages, a) => \E t \in Seq(Message) : t = <<a>> /\ Adds(t)
    BY <1>1, <1>3, AddsOne
  <2>3. messages' = Append(Append(messages, a), b)
          => \E t \in Seq(Message) : t = <<a, b>> /\ Adds(t)
    BY <1>1, <1>3, AddsTwo
  <2>4. messages' = Append(Append(messages, a), c)
          => \E t \in Seq(Message) : t = <<a, c>> /\ Adds(t)
    BY <1>1, <1>3, AddsTwo
  <2> QED
    BY <2>1, <2>2, <2>3, <2>4
<1>5. /\ Len(t) \in 1..2 /\ Len(t) > 0 /\ t[1] = a
      /\ \A i \in 1..Len(t) : t[i] \in {a, b, c} /\ (i > 1 => t[i] \in {b, c})
      /\ \A i \in 1..Len(t) : t[i] = c /\ c # a /\ c # b => t = <<a, c>>
  BY <1>4
<1>6. \A i \in 1..Len(t) : t[i].run = r /\ t[i].calls = {} /\ t[i].type # "results"
  BY <1>3, <1>5
<1>7. \A i \in 2..Len(t) : t[i].type # "assistant"
  BY <1>3, <1>5
<1>8. NextTurn(r) \/ Break(r)
  BY DEF AnswerText
<1>9. TypeOK'
  <2>1. nudged' \in [Run -> SUBSET {"tool", "write"}]
    BY <1>1, <1>4 DEF TypeOK
  <2>2. messages' \in Seq(Message)
    BY <1>4 DEF Adds
  <2>3. queue' \in [Run -> Nat]
    BY <1>1 DEF TypeOK, AnswerText
  <2> QED
    BY <1>1, <1>8, <2>1, <2>2, <2>3, TurnOrEnd DEF TypeOK, AnswerText
<1>10. \A q \in Run \ {r} : Same(q)
  <2>1. \A q \in Run \ {r} : nudged'[q] = nudged[q] /\ queue'[q] = queue[q]
    BY <1>1, <1>4 DEF TypeOK, AnswerText
  <2> QED
    BY <1>1, <1>8, <2>1, TurnOrEnd DEF Same, AnswerText
<1>11. PressedOnce'
  <2>1. CASE \A i \in 1..Len(t) : t[i].type # "writenudge"
    BY <1>1, <1>4, <2>1, OnceStays DEF AnswerText
  <2>2. CASE ~ \A i \in 1..Len(t) : t[i].type # "writenudge"
    <3>1. t = <<a, c>> /\ NudgeWrite(r)
      BY <1>3, <1>4, <2>2
    <3>2. Len(t) = 2 /\ t[1] = a /\ t[2] = c
      BY <3>1
    <3> QED
      BY <1>1, <1>2, <1>4, <3>1, <3>2, NudgeOnce DEF NudgeWrite, AnswerText
  <2> QED
    BY <2>1, <2>2
<1>12. Paired' /\ OneRelayed'
  <2>1. \A k \in 1..Len(t) : ~(t[k].type = "assistant" /\ t[k].calls # {})
    BY <1>6
  <2>2. Len(t) \in 1..Len(t)
    BY <1>5
  <2>4. UNCHANGED response
    BY DEF AnswerText
  <2>3. \A k \in 1..Len(t) - 1 : k \in 1..Len(t)
    OBVIOUS
  <2> QED
    BY <1>1, <1>4, <1>5, <2>1, <2>2, <2>3, <2>4, TaskPaired
<1>13. RunInv(r)'
  <2>1. PICK n : n = Len(messages) + 1
    OBVIOUS
  <2>2. Said(r)' = Said(r) \cup {n} /\ CallsOf(r)' = CallsOf(r)
    <3>1. PICK S \in SUBSET Call : S = {}
      OBVIOUS
    <3>2. t[1] = Entry("assistant", r, S) /\ Adds(t) /\ Len(t) > 0
      BY <1>2, <1>4, <1>5, <3>1
    <3>3. Said(r)' = Said(r) \cup {n} /\ CallsOf(r)' = CallsOf(r) \cup S
      BY <1>1, <1>7, <2>1, <3>2, Speaks
    <3> QED
      BY <3>1, <3>3
  <2>3. pc'[r] \in {"asking", "finished"} /\ turn'[r] <= turn[r] + 1
    BY <1>1, <1>8, TurnOrEnd
  <2>4. /\ executed'[r] = executed[r] /\ pending'[r] = pending[r] /\ offered'[r] = offered[r]
        /\ deferred'[r] = deferred[r] /\ made'[r] = made[r] /\ response'[r] = response[r]
    BY DEF AnswerText
  <2>5. Spoken(r)'
    BY <1>1, <1>4, <1>6, <2>2, SpokenStays DEF RunInv
  <2>6. Linked(r)'
    BY <1>1, <2>3, <2>4 DEF RunInv, Linked
  <2>7. Books(r)'
    BY <1>1, <2>2, <2>3, <2>4 DEF RunInv, Books, Reads
  <2>8. Progress(r)'
    <3>1. Cardinality(Said(r)') = Cardinality(Said(r)) + 1 /\ Cardinality(Said(r)) \in Nat
      BY <1>1, <2>1, <2>2, SaidCount, SaidFinite
    <3>2. turn'[r] \in Nat /\ turn[r] \in Nat
      BY <1>1, <1>9, BoundAssumption DEF TypeOK
    <3> QED
      BY <1>1, <2>3, <3>1, <3>2 DEF RunInv, Progress
  <2>9. LockRight(r)'
    <3>1. HasRead(r)' <=> HasRead(r)
      BY <1>1, <1>4, <1>6, ReadStays
    <3> QED
      BY <1>1, <2>3, <2>4, <3>1 DEF RunInv, LockRight
  <2>10. Pressed(r)'
    <3>1. nudged[r] \subseteq nudged'[r]
      BY <1>1, <1>4 DEF TypeOK
    <3>2. \A i \in 1..Len(t) : t[i].type = "writenudge" => "write" \in nudged'[r]
      <4>1. CASE t = <<a, c>>
        <5>1. c # b /\ c # a
          BY <1>3
        <5>2. <<a, c>> # <<a, b>> /\ <<a, c>> # <<a>>
          BY <5>1
        <5>3. nudged' = [nudged EXCEPT ![r] = @ \cup {"write"}]
          BY <1>4, <4>1, <5>2
        <5> QED
          BY <1>1, <5>3 DEF TypeOK
      <4>2. CASE t # <<a, c>>
        BY <1>3, <1>5, <4>2
      <4> QED
        BY <4>1, <4>2
    <3> QED
      BY <1>1, <1>4, <3>1, <3>2, PressedStays DEF RunInv
  <2>11. Quiet(r)' /\ Equipped(r)'
    <3>1. \A i \in 1..Len(t) : t[i].type # "user"
      BY <1>3, <1>5
    <3> QED
      BY <1>1, <1>4, <2>3, <2>4, <3>1, EquippedStays DEF RunInv, Quiet
  <2> QED
    BY <2>5, <2>6, <2>7, <2>8, <2>9, <2>10, <2>11 DEF RunInv
<1>14. \A i \in 1..Len(t) : t[i].run = r /\ IsFiniteSet(t[i].calls)
  BY <1>6, FS_EmptySet
<1> QED
  BY <1>4, <1>9, <1>10, <1>11, <1>12, <1>13, <1>14, StepOf

LEMMA AnswerReadsStep ==
  ASSUME IInv, NEW r \in Run, AnswerReads(r), UNCHANGED provider
  PROVE  IInv'
<1>1. TypeOK /\ RunInv(r) /\ PressedOnce /\ messages \in Seq(Message) /\ pc[r] = "asking"
  BY DEF IInv, TypeOK, AnswerReads
<1>2. PICK S \in SUBSET Call :
        /\ IsFiniteSet(S) /\ Reads(S) # {}
        /\ messages' = Append(messages, Entry("assistant", r, S))
        /\ reading' = [reading EXCEPT ![r] = Reads(S)]
        /\ queue' = [queue EXCEPT ![r] = @ + Cardinality(Reads(S))]
  <2>1. \A S \in Answers(r) : S \in SUBSET Call /\ IsFiniteSet(S)
    BY <1>1, AnswersType DEF TypeOK
  <2> QED
    BY <2>1 DEF AnswerReads
<1>3. S \in SUBSET Call /\ IsFiniteSet(S)
  BY <1>2
<1>4. PICK a : a = Entry("assistant", r, S)
  OBVIOUS
<1>5. a \in Message /\ a.type = "assistant" /\ a.run = r /\ a.calls = S
  BY <1>3, <1>4, EntryType DEF Type
<1>6. PICK t \in Seq(Message) : t = <<a>> /\ Adds(t)
  BY <1>1, <1>2, <1>4, <1>5, AddsOne
<1>7. Len(t) = 1 /\ t[1] = a /\ \A i \in 1..Len(t) : t[i] = a
  BY <1>6
<1>8. pc' = [pc EXCEPT ![r] = "reading"]
  BY DEF AnswerReads
<1>9. TypeOK'
  <2>1. Reads(S) \in SUBSET S
    BY DEF Reads
  <2>2. Cardinality(Reads(S)) \in Nat
    BY <1>3, <2>1, FS_Subset, FS_CardinalityType
  <2>3. queue' \in [Run -> Nat] /\ reading' \in [Run -> SUBSET Call]
    BY <1>1, <1>2, <1>3, <2>1, <2>2 DEF TypeOK
  <2>4. messages' \in Seq(Message)
    BY <1>6 DEF Adds
  <2> QED
    BY <1>1, <1>8, <2>3, <2>4 DEF TypeOK, AnswerReads
<1>10. \A q \in Run \ {r} : Same(q)
  BY <1>1, <1>2, <1>8 DEF TypeOK, Same, AnswerReads
<1>11. PressedOnce'
  <2>1. \A i \in 1..Len(t) : t[i].type # "writenudge"
    BY <1>5, <1>7
  <2> QED
    BY <1>1, <1>6, <2>1, OnceStays DEF AnswerReads
<1>12. Paired' /\ OneRelayed'
  <2>1. pc'[t[Len(t)].run] = "reading"
    BY <1>1, <1>5, <1>7, <1>8 DEF TypeOK
  <2>2. UNCHANGED response
    BY DEF AnswerReads
  <2>3. Len(t) > 0 /\ \A k \in 1..Len(t) - 1 : FALSE
    BY <1>7
  <2> QED
    BY <1>1, <1>6, <2>1, <2>2, <2>3, TaskPaired
<1>13. RunInv(r)'
  <2>1. PICK n : n = Len(messages) + 1
    OBVIOUS
  <2>2. /\ Said(r)' = Said(r) \cup {n} /\ CallsOf(r)' = CallsOf(r) \cup S
        /\ LastSaid(r, n)'
    <3>1. t[1] = Entry("assistant", r, S) /\ Len(t) > 0 /\ Adds(t)
      BY <1>4, <1>6, <1>7
    <3>2. \A i \in 2..Len(t) : t[i].type # "assistant"
      BY <1>7
    <3> QED
      BY <1>1, <1>3, <2>1, <3>1, <3>2, Speaks
  <2>3. /\ pc'[r] = "reading" /\ turn'[r] = turn[r]
        /\ executed'[r] = executed[r] /\ pending'[r] = pending[r] /\ offered'[r] = offered[r]
        /\ deferred'[r] = deferred[r] /\ made'[r] = made[r]
        /\ response'[r] = response[r] /\ nudged'[r] = nudged[r]
        /\ reading'[r] = Reads(S)
    BY <1>1, <1>2, <1>8 DEF TypeOK, AnswerReads
  <2>4. Spoken(r)'
    <3>1. \A i \in 1..Len(t) : t[i].calls \subseteq CallsOf(r)'
      BY <1>5, <1>7, <2>2
    <3> QED
      BY <1>1, <1>6, <2>2, <3>1, SpokenStays DEF RunInv
  <2>5. Linked(r)'
    BY <1>1, <2>3 DEF RunInv, Linked
  <2>6. Books(r)'
    <3>1. n \in 1..Len(messages') /\ messages'[n].calls = S
      BY <1>1, <1>5, <1>6, <1>7, <2>1 DEF Adds
    <3>2. executed[r] = Reads(CallsOf(r)) /\ pending[r] = CallsOf(r) \ Reads(CallsOf(r))
      BY <1>1 DEF RunInv, Books
    <3>3. Reads(S)' = Reads(S) /\ Reads(CallsOf(r))' = Reads(CallsOf(r)) \cup Reads(S)
      BY <2>2 DEF Reads
    <3>4. Waiting(r, n)'
      BY <1>2, <2>2, <2>3, <3>1, <3>2, <3>3 DEF Waiting, Reads
    <3> QED
      BY <2>3, <3>1, <3>4 DEF Books
  <2>7. Progress(r)'
    <3>1. Cardinality(Said(r)') = Cardinality(Said(r)) + 1 /\ Cardinality(Said(r)) \in Nat
      BY <1>1, <2>1, <2>2, SaidCount, SaidFinite
    <3>2. turn'[r] \in Nat /\ turn[r] \in Nat
      BY <1>1, <1>9, BoundAssumption DEF TypeOK
    <3> QED
      BY <1>1, <2>3, <3>1, <3>2 DEF RunInv, Progress
  <2>8. LockRight(r)'
    <3>1. HasRead(r)' <=> HasRead(r)
      BY <1>1, <1>5, <1>6, <1>7, ReadStays
    <3> QED
      BY <1>1, <2>3, <3>1 DEF RunInv, LockRight
  <2>9. Pressed(r)'
    <3>1. \A i \in 1..Len(t) : t[i].type # "writenudge"
      BY <1>5, <1>7
    <3> QED
      BY <1>1, <1>6, <2>3, <3>1, PressedStays DEF RunInv
  <2>10. Quiet(r)' /\ Equipped(r)'
    <3>1. \A i \in 1..Len(t) : t[i].type # "user"
      BY <1>5, <1>7
    <3> QED
      BY <1>1, <1>6, <2>3, <3>1, EquippedStays DEF RunInv, Quiet
  <2> QED
    BY <2>4, <2>5, <2>6, <2>7, <2>8, <2>9, <2>10 DEF RunInv
<1>14. \A i \in 1..Len(t) : t[i].run = r /\ IsFiniteSet(t[i].calls)
  BY <1>3, <1>5, <1>7
<1> QED
  BY <1>6, <1>9, <1>10, <1>11, <1>12, <1>13, <1>14, StepOf

LEMMA AnswerWritesStep ==
  ASSUME IInv, NEW r \in Run, AnswerWrites(r), UNCHANGED provider
  PROVE  IInv'
<1>1. TypeOK /\ RunInv(r) /\ PressedOnce /\ messages \in Seq(Message) /\ pc[r] = "asking"
  BY DEF IInv, TypeOK, AnswerWrites
<1>2. PICK S \in SUBSET Call :
        /\ IsFiniteSet(S) /\ Reads(S) = {}
        /\ messages' = messages \o <<Entry("assistant", r, S), Entry("results", r, S)>>
        /\ pending' = [pending EXCEPT ![r] = @ \cup S]
  <2>1. \A S \in Answers(r) : S \in SUBSET Call /\ IsFiniteSet(S)
    BY <1>1, AnswersType DEF TypeOK
  <2> QED
    BY <2>1 DEF AnswerWrites
<1>3. S \in SUBSET Call /\ IsFiniteSet(S)
  BY <1>2
<1>4. PICK a, b : a = Entry("assistant", r, S) /\ b = Entry("results", r, S)
  OBVIOUS
<1>5. /\ a \in Message /\ a.type = "assistant" /\ a.run = r /\ a.calls = S
      /\ b \in Message /\ b.type = "results" /\ b.run = r /\ b.calls = S
  BY <1>3, <1>4, EntryType DEF Type
<1>6. PICK t \in Seq(Message) : t = <<a, b>> /\ Adds(t)
  <2>1. messages' = messages \o <<a, b>>
    BY <1>2, <1>4
  <2> QED
    BY <1>1, <1>5, <2>1, AddsTwo
<1>7. /\ Len(t) = 2 /\ t[1] = a /\ t[2] = b
      /\ \A i \in 1..Len(t) : t[i] \in {a, b} /\ (i > 1 => t[i] = b)
  BY <1>6
<1>8. pc' = [pc EXCEPT ![r] = "finished"] /\ turn' = turn
  BY DEF AnswerWrites, Break
<1>9. TypeOK'
  <2>1. pending' \in [Run -> SUBSET Call]
    BY <1>1, <1>2, <1>3 DEF TypeOK
  <2>2. messages' \in Seq(Message)
    BY <1>6 DEF Adds
  <2> QED
    BY <1>1, <1>8, <2>1, <2>2 DEF TypeOK, AnswerWrites
<1>10. \A q \in Run \ {r} : Same(q)
  BY <1>1, <1>2, <1>8 DEF TypeOK, Same, AnswerWrites
<1>11. PressedOnce'
  <2>1. \A i \in 1..Len(t) : t[i].type # "writenudge"
    BY <1>5, <1>7
  <2> QED
    BY <1>1, <1>6, <2>1, OnceStays DEF AnswerWrites
<1>12. Paired' /\ OneRelayed'
  <2>1. t[Len(t)].type # "assistant"
    BY <1>5, <1>7
  <2>2. UNCHANGED response
    BY DEF AnswerWrites
  <2>3. \A k \in 1..Len(t) - 1 : t[k + 1].type = "results" /\ t[k + 1].calls = t[k].calls
    BY <1>5, <1>7
  <2>4. Len(t) > 0
    BY <1>7
  <2> QED
    BY <1>1, <1>6, <2>1, <2>2, <2>3, <2>4, TaskPaired
<1>13. RunInv(r)'
  <2>1. PICK n : n = Len(messages) + 1
    OBVIOUS
  <2>2. Said(r)' = Said(r) \cup {n} /\ CallsOf(r)' = CallsOf(r) \cup S
    <3>1. t[1] = Entry("assistant", r, S) /\ Len(t) > 0 /\ Adds(t)
      BY <1>4, <1>6, <1>7
    <3>2. \A i \in 2..Len(t) : t[i].type # "assistant"
      BY <1>5, <1>7
    <3> QED
      BY <1>1, <1>3, <2>1, <3>1, <3>2, Speaks
  <2>3. /\ pc'[r] = "finished" /\ turn'[r] = turn[r]
        /\ executed'[r] = executed[r] /\ pending'[r] = pending[r] \cup S
        /\ response'[r] = response[r] /\ nudged'[r] = nudged[r] /\ made'[r] = made[r]
    BY <1>1, <1>2, <1>8 DEF TypeOK, AnswerWrites
  <2>4. Spoken(r)'
    <3>1. \A i \in 1..Len(t) : t[i].calls \subseteq CallsOf(r)'
      BY <1>5, <1>7, <2>2
    <3> QED
      BY <1>1, <1>6, <2>2, <3>1, SpokenStays DEF RunInv
  <2>5. Linked(r)'
    BY <1>1, <2>3 DEF RunInv, Linked
  <2>6. Books(r)'
    <3>1. executed[r] = Reads(CallsOf(r)) /\ pending[r] = CallsOf(r) \ Reads(CallsOf(r))
      BY <1>1 DEF RunInv, Books
    <3>2. Reads(CallsOf(r))' = Reads(CallsOf(r))
      BY <1>2, <2>2 DEF Reads
    <3> QED
      BY <1>2, <2>2, <2>3, <3>1, <3>2 DEF Books, Reads
  <2>7. Progress(r)'
    <3>1. Cardinality(Said(r)') = Cardinality(Said(r)) + 1 /\ Cardinality(Said(r)) \in Nat
      BY <1>1, <2>1, <2>2, SaidCount, SaidFinite
    <3>2. turn[r] \in Nat
      BY <1>1, BoundAssumption DEF TypeOK
    <3> QED
      BY <1>1, <2>3, <3>1, <3>2 DEF RunInv, Progress
  <2>8. LockRight(r)'
    BY <2>3 DEF LockRight
  <2>9. Pressed(r)'
    <3>1. \A i \in 1..Len(t) : t[i].type # "writenudge"
      BY <1>5, <1>7
    <3> QED
      BY <1>1, <1>6, <2>3, <3>1, PressedStays DEF RunInv
  <2>10. Quiet(r)' /\ Equipped(r)'
    <3>1. \A i \in 1..Len(t) : t[i].type # "user"
      BY <1>5, <1>7
    <3> QED
      BY <1>1, <1>6, <2>3, <3>1, EquippedStays DEF RunInv, Quiet
  <2> QED
    BY <2>4, <2>5, <2>6, <2>7, <2>8, <2>9, <2>10 DEF RunInv
<1>14. \A i \in 1..Len(t) : t[i].run = r /\ IsFiniteSet(t[i].calls)
  BY <1>3, <1>5, <1>7
<1> QED
  BY <1>6, <1>9, <1>10, <1>11, <1>12, <1>13, <1>14, StepOf

LEMMA CollectStep ==
  ASSUME IInv, NEW r \in Run, Collect(r), UNCHANGED provider
  PROVE  IInv'
<1>1. TypeOK /\ RunInv(r) /\ PressedOnce /\ FiniteCalls /\ messages \in Seq(Message)
  BY DEF IInv, TypeOK
<1>2. pc[r] = "reading" /\ reading[r] = {}
  BY DEF Collect
<1>3. PICK k \in 1..Len(messages) : Waiting(r, k)
  BY <1>1, <1>2 DEF RunInv, Books
<1>4. PICK S : S = messages[k].calls
  OBVIOUS
<1>5. LastSaid(r, k) /\ LastCalls(r) = S
  BY <1>1, <1>3, <1>4, LastOne DEF Waiting
<1>6. /\ Reads(S) # {} /\ executed[r] = Reads(CallsOf(r))
      /\ pending[r] \cup (S \ Reads(S)) = CallsOf(r) \ Reads(CallsOf(r))
  BY <1>2, <1>3, <1>4 DEF Waiting
<1>7. S \in SUBSET Call /\ IsFiniteSet(S) /\ S \subseteq CallsOf(r)
  BY <1>1, <1>4, <1>5, MessageType DEF FiniteCalls, CallsOf, LastSaid
<1>8. /\ pending' = [pending EXCEPT ![r] = @ \cup (S \ Reads(S))]
      /\ offered' = [offered EXCEPT ![r] = @ \cup deferred[r]]
      /\ deferred' = [deferred EXCEPT ![r] = {}]
      /\ messages' = Append(messages, Entry("results", r, S))
      /\ queue' = [queue EXCEPT ![r] = @ + Cardinality(Reads(S))]
      /\ NextTurn(r) \/ Break(r)
      /\ UNCHANGED <<open, made, reading, executed, nudged, response>>
  BY <1>5 DEF Collect
<1>9. PICK a : a = Entry("results", r, S)
  OBVIOUS
<1>10. a \in Message /\ a.type = "results" /\ a.run = r /\ a.calls = S
  BY <1>7, <1>9, EntryType DEF Type
<1>11. PICK t \in Seq(Message) : t = <<a>> /\ Adds(t)
  BY <1>1, <1>8, <1>9, <1>10, AddsOne
<1>12. Len(t) = 1 /\ t[1] = a /\ \A i \in 1..Len(t) : t[i] = a
  BY <1>11
<1>13. TypeOK'
  <2>1. Reads(S) \in SUBSET S
    BY DEF Reads
  <2>2. Cardinality(Reads(S)) \in Nat
    BY <1>7, <2>1, FS_Subset, FS_CardinalityType
  <2>3. queue' \in [Run -> Nat] /\ pending' \in [Run -> SUBSET Call]
    BY <1>1, <1>7, <1>8, <2>2 DEF TypeOK
  <2>4. messages' \in Seq(Message)
    BY <1>11 DEF Adds
  <2>5. offered' \in [Run -> SUBSET Tool]
    <3>1. offered[r] \cup deferred[r] \in SUBSET Tool
      BY <1>1 DEF TypeOK
    <3> QED
      BY <1>1, <1>8, <3>1 DEF TypeOK
  <2>6. deferred' \in [Run -> SUBSET Tool]
    BY <1>1, <1>8 DEF TypeOK
  <2> QED
    BY <1>1, <1>8, <2>3, <2>4, <2>5, <2>6, TurnOrEnd DEF TypeOK
<1>14. \A q \in Run \ {r} : Same(q)
  <2>1. \A q \in Run \ {r} : /\ pending'[q] = pending[q] /\ offered'[q] = offered[q]
                             /\ deferred'[q] = deferred[q] /\ queue'[q] = queue[q]
    BY <1>1, <1>8 DEF TypeOK
  <2>2. UNCHANGED <<made, reading, executed, nudged, response>>
    BY <1>8
  <2> QED
    BY <1>1, <1>8, <2>1, <2>2, TurnOrEnd DEF Same
<1>15. PressedOnce'
  <2>1. \A i \in 1..Len(t) : t[i].type # "writenudge"
    BY <1>10, <1>12
  <2> QED
    BY <1>1, <1>11, <2>1, OnceStays DEF Collect
<1>16. Paired' /\ OneRelayed'
  <2>1. t[Len(t)].type # "assistant"
    BY <1>10, <1>12
  <2>2. UNCHANGED response
    BY <1>8
  <2>3. Len(t) > 0 /\ \A i \in 1..Len(t) - 1 : FALSE
    BY <1>12
  <2>4. /\ t[1].type = "results"
        /\ \A i \in 1..Len(messages) : LastSaid(r, i) => t[1].calls = messages[i].calls
    <3>1. \A i \in 1..Len(messages) : LastSaid(r, i) => i = k
      BY <1>5 DEF LastSaid, Said
    <3> QED
      BY <1>4, <1>10, <1>12, <3>1
  <2> QED
    BY <1>2, <1>11, <2>1, <2>2, <2>3, <2>4, TaskPaired
<1>17. RunInv(r)'
  <2>1. Said(r)' = Said(r) /\ CallsOf(r)' = CallsOf(r)
    <3>1. \A i \in 1..Len(t) : ~(t[i].type = "assistant" /\ t[i].run = r)
      BY <1>10, <1>12
    <3> QED
      BY <1>1, <1>11, <3>1, StaysQuiet
  <2>2. pc'[r] \in {"asking", "finished"} /\ turn'[r] <= turn[r] + 1
    BY <1>1, <1>8, TurnOrEnd
  <2>3. /\ executed'[r] = executed[r] /\ pending'[r] = pending[r] \cup (S \ Reads(S))
        /\ response'[r] = response[r] /\ nudged'[r] = nudged[r] /\ made'[r] = made[r]
    BY <1>1, <1>8 DEF TypeOK
  <2>4. Spoken(r)'
    <3>1. \A i \in 1..Len(t) : t[i].calls \subseteq CallsOf(r)'
      BY <1>7, <1>10, <1>12, <2>1
    <3> QED
      BY <1>1, <1>11, <2>1, <3>1, SpokenStays DEF RunInv
  <2>5. Linked(r)'
    BY <1>1, <1>2, <2>2, <2>3 DEF RunInv, Linked
  <2>6. Books(r)'
    <3>1. Reads(CallsOf(r))' = Reads(CallsOf(r))
      BY <2>1 DEF Reads
    <3> QED
      BY <1>6, <2>1, <2>2, <2>3, <3>1 DEF Books
  <2>7. Progress(r)'
    <3>1. Cardinality(Said(r)) \in Nat /\ turn[r] \in Nat /\ turn'[r] \in Nat
      BY <1>1, <1>13, SaidFinite, BoundAssumption DEF TypeOK
    <3>2. turn[r] <= Cardinality(Said(r))
      BY <1>1, <1>2 DEF RunInv, Progress
    <3> QED
      BY <2>1, <2>2, <3>1, <3>2 DEF Progress
  <2>8. LockRight(r)'
    <3>1. HasRead(r)'
      <4>1. PICK n : n = Len(messages) + 1
        OBVIOUS
      <4>2. n \in 1..Len(messages') /\ messages'[n] = a
        BY <1>1, <1>11, <1>12, <4>1 DEF Adds
      <4> QED
        BY <1>6, <1>10, <4>2 DEF HasRead, Reads
    <3>2. deferred'[r] = {} /\ offered'[r] = offered[r] \cup deferred[r]
      BY <1>1, <1>8 DEF TypeOK
    <3>3. offered'[r] = made[r].tools \cup made[r].later
      BY <1>1, <1>2, <3>2 DEF RunInv, LockRight
    <3> QED
      BY <2>3, <3>1, <3>2, <3>3 DEF LockRight
  <2>9. Pressed(r)'
    <3>1. \A i \in 1..Len(t) : t[i].type # "writenudge"
      BY <1>10, <1>12
    <3> QED
      BY <1>1, <1>11, <2>3, <3>1, PressedStays DEF RunInv
  <2>10. Quiet(r)' /\ Equipped(r)'
    <3>1. \A i \in 1..Len(t) : t[i].type # "user"
      BY <1>10, <1>12
    <3> QED
      BY <1>1, <1>11, <2>2, <2>3, <3>1, EquippedStays DEF RunInv, Quiet
  <2> QED
    BY <2>4, <2>5, <2>6, <2>7, <2>8, <2>9, <2>10 DEF RunInv
<1>18. \A i \in 1..Len(t) : t[i].run = r /\ IsFiniteSet(t[i].calls)
  BY <1>7, <1>10, <1>12
<1> QED
  BY <1>11, <1>13, <1>14, <1>15, <1>16, <1>17, <1>18, StepOf

\* A runner gets tools of its context only, and all of them when it answers a
\* message that sets a proposal aside.
LEMMA RunnersType ==
  ASSUME NEW A \in Contexts, NEW m \in Runners(A)
  PROVE  /\ m \in [base: SUBSET Tool, tools: SUBSET Tool, later: SUBSET Tool]
         /\ m.tools \cup m.later \subseteq m.base
         /\ open => m.tools = m.base
<1>1. A \in SUBSET Tool
  BY ToolAssumption
<1>2. CASE open
  <2>1. m = [base |-> A, tools |-> A, later |-> {}]
    BY <1>2 DEF Runners
  <2> QED
    BY <1>1, <2>1
<1>3. CASE ~open
  <2>1. PICK S \in Selections :
          m = [base |-> A, tools |-> S \cap A, later |-> DeferredFor(S \cap A, A)]
    BY <1>3 DEF Runners
  <2>2. DeferredFor(S \cap A, A) \subseteq A
    BY DEF DeferredFor
  <2> QED
    BY <1>1, <1>3, <2>1, <2>2
<1> QED
  BY <1>2, <1>3

\* The user's next message: his entries are not answers, and nobody works.
LEMMA StartStep ==
  ASSUME IInv, NEW r \in Run, Start(r), UNCHANGED provider
  PROVE  IInv'
<1>1. TypeOK /\ RunInv(r) /\ PressedOnce /\ messages \in Seq(Message) /\ response[r] = "none"
  BY DEF IInv, TypeOK, Start
<1>2. PICK a, b : a = Entry("notice", r, {}) /\ b = Entry("user", r, {})
  OBVIOUS
<1>3. /\ a \in Message /\ a.type = "notice" /\ a.run = r /\ a.calls = {}
      /\ b \in Message /\ b.type = "user" /\ b.run = r /\ b.calls = {}
  BY <1>2, EntryType DEF Type
<1>4. PICK t \in Seq(Message) : (t = <<b>> \/ (t = <<a, b>> /\ open)) /\ Adds(t)
  <2>1. CASE open
    <3>1. messages' = messages \o <<a>> \o <<b>>
      BY <1>2, <2>1 DEF Start
    <3>2. messages' = Append(Append(messages, a), b)
      <4>1. PICK h : h = messages \o <<a>>
        OBVIOUS
      <4>2. h = Append(messages, a) /\ h \in Seq(Message)
        BY <1>1, <1>3, <4>1
      <4>3. messages' = Append(h, b)
        BY <1>3, <3>1, <4>1, <4>2
      <4> QED
        BY <4>2, <4>3
    <3> QED
      BY <1>1, <1>3, <2>1, <3>2, AddsTwo
  <2>2. CASE ~open
    <3>1. messages' = messages \o <<>> \o <<b>>
      BY <1>2, <2>2 DEF Start
    <3>2. messages' = Append(messages, b)
      BY <1>1, <1>3, <3>1
    <3> QED
      BY <1>1, <1>3, <3>2, AddsOne
  <2> QED
    BY <2>1, <2>2
<1>5. Len(t) > 0 /\ \A i \in 1..Len(t) : t[i] \in {a, b}
  BY <1>4
<1>6. \A i \in 1..Len(t) : t[i].run = r /\ t[i].calls = {} /\ t[i].type \in {"notice", "user"}
  BY <1>3, <1>5
<1>7. /\ pc' = [pc EXCEPT ![r] = "asking"] /\ response' = [response EXCEPT ![r] = "relaying"]
      /\ UNCHANGED <<turn, reading, executed, pending, nudged, queue>>
      /\ open' = FALSE /\ \A q \in Run : response[q] # "relaying"
  BY DEF Start
<1>0. PICK A \in Contexts : \E m \in Runners(A) :
         /\ made' = [made EXCEPT ![r] = m]
         /\ offered' = [offered EXCEPT ![r] = m.tools]
         /\ deferred' = [deferred EXCEPT ![r] = m.later]
  BY DEF Start
<1>15. PICK m \in Runners(A) :
         /\ made' = [made EXCEPT ![r] = m]
         /\ offered' = [offered EXCEPT ![r] = m.tools]
         /\ deferred' = [deferred EXCEPT ![r] = m.later]
  BY <1>0
<1>16. /\ m \in [base: SUBSET Tool, tools: SUBSET Tool, later: SUBSET Tool]
       /\ m.tools \cup m.later \subseteq m.base
       /\ open => m.tools = m.base
  BY ToolAssumption, RunnersType
<1>17. made'[r] = m /\ offered'[r] = m.tools /\ deferred'[r] = m.later
  BY <1>1, <1>15 DEF TypeOK
<1>18. \A i \in 1..Len(messages) : messages[i].run # r
  BY <1>1 DEF RunInv, Linked, Quiet
<1>8. TypeOK'
  BY <1>1, <1>4, <1>7, <1>15, <1>16 DEF TypeOK, Adds
<1>9. \A q \in Run \ {r} : Same(q)
  BY <1>1, <1>7, <1>15 DEF TypeOK, Same
<1>10. PressedOnce'
  <2>1. \A i \in 1..Len(messages) : made'[messages[i].run] = made[messages[i].run]
    BY <1>1, <1>9, <1>18, MessageType DEF Same
  <2> QED
    BY <1>1, <1>4, <1>6, <2>1, OnceStays
<1>11. OneRelayed'
  BY <1>1, <1>7 DEF TypeOK, OneRelayed
<1>12. Paired'
  <2>1. Abandoned' = Abandoned
    BY <1>1, <1>7 DEF TypeOK, Abandoned
  <2> QED
    BY <1>4, <1>5, <1>6, <1>7, <2>1, UserPaired
<1>13. RunInv(r)'
  <2>1. Said(r)' = Said(r) /\ CallsOf(r)' = CallsOf(r)
    BY <1>1, <1>4, <1>6, StaysQuiet
  <2>2. pc[r] = "unused" /\ pc'[r] = "asking" /\ response'[r] = "relaying"
    BY <1>1, <1>7 DEF TypeOK, RunInv, Linked
  <2>3. ~HasRead(r)'
    <3>1. ~HasRead(r)
      BY <1>18 DEF HasRead
    <3> QED
      BY <1>1, <1>4, <1>6, <3>1, ReadStays
  <2>4. Spoken(r)'
    BY <1>1, <1>4, <1>6, <2>1, SpokenStays DEF RunInv
  <2>5. Linked(r)'
    BY <2>2 DEF Linked
  <2>6. Books(r)'
    BY <1>1, <1>7, <2>1, <2>2 DEF RunInv, Books, Reads
  <2>7. Progress(r)'
    BY <1>1, <1>7, <2>1, <2>2 DEF RunInv, Progress
  <2>8. LockRight(r)'
    BY <1>17, <2>3 DEF LockRight
  <2>9. Pressed(r)'
    BY <1>1, <1>4, <1>6, <1>7, PressedStays DEF RunInv
  <2>10. Quiet(r)'
    BY <2>2 DEF Quiet
  <2>11. Equipped(r)'
    <3> SUFFICES ASSUME NEW i \in 1..Len(messages') - 1, SetAside(r, i)'
                 PROVE  m.tools = m.base
      BY <1>16, <1>17 DEF Equipped
    <3>1. i \in 1..Len(messages')
      BY <1>4 DEF Adds
    <3>2. i \notin 1..Len(messages)
      BY <1>4, <1>18 DEF SetAside, Adds
    <3>3. PICK k \in 1..Len(t) : i = Len(messages) + k /\ messages'[i] = t[k]
      BY <1>1, <1>4, <3>1, <3>2, OldOrNew
    <3>4. t # <<b>>
      BY <1>3, <3>3 DEF SetAside
    <3> QED
      BY <1>4, <1>16, <3>4
  <2> QED
    BY <2>4, <2>5, <2>6, <2>7, <2>8, <2>9, <2>10, <2>11 DEF RunInv
<1>14. \A i \in 1..Len(t) : t[i].run = r /\ IsFiniteSet(t[i].calls)
  BY <1>6, FS_EmptySet
<1> QED
  BY <1>4, <1>8, <1>9, <1>10, <1>11, <1>12, <1>13, <1>14, StepOf

\* The decision on the open proposal is one more notice.
LEMMA SettleStep ==
  ASSUME IInv, NEW r \in Run, Settle(r), UNCHANGED provider
  PROVE  IInv'
<1>1. TypeOK /\ RunInv(r) /\ PressedOnce /\ messages \in Seq(Message)
  BY DEF IInv, TypeOK
<1>2. PICK a : a = Entry("notice", r, {})
  OBVIOUS
<1>3. a \in Message /\ a.type = "notice" /\ a.run = r /\ a.calls = {}
  BY <1>2, EntryType DEF Type
<1>4. PICK t \in Seq(Message) : t = <<a>> /\ Adds(t)
  BY <1>1, <1>2, <1>3, AddsOne DEF Settle
<1>5. Len(t) > 0 /\ \A i \in 1..Len(t) : t[i] = a
  BY <1>4
<1>6. \A i \in 1..Len(t) : t[i].run = r /\ t[i].calls = {} /\ t[i].type = "notice"
  BY <1>3, <1>5
<1>7. /\ UNCHANGED <<pc, turn, made, offered, deferred, reading, executed, pending, nudged, queue, response>>
      /\ open' = FALSE /\ \A q \in Run : response[q] # "relaying"
      /\ response[r] = "ended"
  BY DEF Settle, taskVars
<1>8. TypeOK'
  BY <1>1, <1>4, <1>7 DEF TypeOK, Adds
<1>9. \A q \in Run \ {r} : Same(q)
  BY <1>7 DEF Same
<1>10. PressedOnce'
  BY <1>1, <1>4, <1>6, <1>7, OnceStays
<1>11. OneRelayed'
  BY <1>7 DEF OneRelayed
<1>12. Paired'
  <2>1. Abandoned' = Abandoned
    BY <1>7 DEF Abandoned
  <2> QED
    BY <1>4, <1>5, <1>6, <1>7, <2>1, UserPaired
<1>13. RunInv(r)'
  <2>1. Said(r)' = Said(r) /\ CallsOf(r)' = CallsOf(r)
    BY <1>1, <1>4, <1>6, StaysQuiet
  <2>2. pc[r] = "finished" /\ pc'[r] = "finished"
    BY <1>1, <1>7 DEF RunInv, Linked
  <2>3. Spoken(r)'
    BY <1>1, <1>4, <1>6, <2>1, SpokenStays DEF RunInv
  <2>4. Linked(r)'
    BY <1>1, <1>7 DEF RunInv, Linked
  <2>5. Books(r)'
    BY <1>1, <1>7, <2>1, <2>2 DEF RunInv, Books, Reads
  <2>6. Progress(r)'
    BY <1>1, <1>7, <2>1 DEF RunInv, Progress
  <2>7. LockRight(r)'
    BY <2>2 DEF LockRight
  <2>8. Pressed(r)'
    BY <1>1, <1>4, <1>6, <1>7, PressedStays DEF RunInv
  <2>9. Quiet(r)' /\ Equipped(r)'
    BY <1>1, <1>4, <1>6, <1>7, <2>2, EquippedStays DEF RunInv, Quiet
  <2> QED
    BY <2>3, <2>4, <2>5, <2>6, <2>7, <2>8, <2>9 DEF RunInv
<1>14. \A i \in 1..Len(t) : t[i].run = r /\ IsFiniteSet(t[i].calls)
  BY <1>6, FS_EmptySet
<1> QED
  BY <1>4, <1>8, <1>9, <1>10, <1>11, <1>12, <1>13, <1>14, StepOf

-----------------------------------------------------------------------------
(***************************************************************************)
(* The theorems.                                                           *)
(***************************************************************************)
LEMMA StutterStep ==
  ASSUME IInv, UNCHANGED vars PROVE IInv'
<1> USE DEF vars, taskVars
<1>1. TypeOK'
  BY DEF IInv, TypeOK
<1>2. FiniteCalls' /\ OneRelayed'
  BY DEF IInv, FiniteCalls, OneRelayed
<1>4. Paired'
  BY DEF IInv, Paired, Abandoned, HistoryPaired, LastAnswered
<1>5. PressedOnce'
  BY DEF IInv, PressedOnce, Said, Reads, HasWriteTools
<1>3. ASSUME NEW r \in Run PROVE RunInv(r)'
  <2>1. RunInv(r) /\ messages \in Seq(Message) /\ Same(r)
    BY DEF IInv, TypeOK, Same
  <2>2. PICK t \in Seq(Message) : t = <<>> /\ Adds(t)
    BY <2>1, AddsNone
  <2>3. \A i \in 1..Len(t) : t[i].run # r
    BY <2>2
  <2> QED
    BY <2>1, <2>2, <2>3, Others
<1> QED
  BY <1>1, <1>2, <1>3, <1>4, <1>5 DEF IInv

LEMMA NextIInv == IInv /\ [Next]_vars => IInv'
<1> SUFFICES ASSUME IInv, [Next]_vars PROVE IInv'
  OBVIOUS
<1>1. CASE UNCHANGED vars
  BY <1>1, StutterStep
<1>2. CASE Next
  <2>1. PICK r \in Run :
          Start(r) \/ Settle(r) \/ Task(r) \/ Relay(r) \/ Conclude(r) \/ Abandon(r)
    BY <1>2 DEF Next
  <2>2. UNCHANGED provider
    BY <1>2 DEF Next
  <2>3. CASE Start(r)
    BY <2>2, <2>3, StartStep
  <2>4. CASE Settle(r)
    BY <2>2, <2>4, SettleStep
  <2>5. CASE Relay(r)
    BY <2>2, <2>5, RelayStep
  <2>6. CASE Conclude(r)
    BY <2>2, <2>6, ConcludeStep
  <2>7. CASE Abandon(r)
    BY <2>2, <2>7, AbandonStep
  <2>8. CASE AnswerText(r)
    BY <2>2, <2>8, AnswerTextStep
  <2>9. CASE AnswerReads(r)
    BY <2>2, <2>9, AnswerReadsStep
  <2>10. CASE AnswerWrites(r)
    BY <2>2, <2>10, AnswerWritesStep
  <2>11. CASE Fail(r)
    BY <2>2, <2>11, FailStep
  <2>12. CASE \E c \in reading[r] : FinishRead(r, c)
    BY <2>2, <2>12, FinishReadStep
  <2>13. CASE Collect(r)
    BY <2>2, <2>13, CollectStep
  <2> QED
    BY <2>1, <2>3, <2>4, <2>5, <2>6, <2>7, <2>8, <2>9, <2>10, <2>11, <2>12, <2>13
    DEF Task, Answer
<1> QED
  BY <1>1, <1>2

\* Every variable keeps its type, whatever the models answer and whichever
\* responses are abandoned; in particular the queue of a run only ever counts
\* finitely many events.
THEOREM TypeCorrect == Spec => []TypeOK
<1>1. IInv => TypeOK
  BY DEF IInv
<1> QED
  BY InitIInv, NextIInv, <1>1, PTL DEF Spec

\* When a run of the loop has finished, each tool call the model made in it
\* was dealt with in one way: a readonly tool was executed, a write became a
\* proposed action.  It holds with abandoned responses too, because a run's
\* books are its own even where its history is not.
THEOREM EveryCallDealtWith == Spec => []ProposalComplete
<1>1. IInv => ProposalComplete
  BY DEF IInv, RunInv, Books, ProposalComplete
<1> QED
  BY InitIInv, NextIInv, <1>1, PTL DEF Spec

\* A response ends with "done" only when the client has every event of it,
\* because the generator drains the queue and its task adds no more.
THEOREM NothingUnread == Spec => []EventsDelivered
<1>1. IInv => EventsDelivered
  BY DEF IInv, RunInv, Linked, EventsDelivered
<1> QED
  BY InitIInv, NextIInv, <1>1, PTL DEF Spec

\* A run is pressed for a write at most once, after its first turn, before it
\* proposed one and only if it can be offered one; the deferred tools of the
\* message's selection are offered exactly from the first request that carries
\* the result of a readonly tool; and a message that sets a proposal aside is
\* answered with all tools of its context: with any tools, contexts,
\* selections, turns and answers.
THEOREM NudgesInOrder == Spec => []NudgeRules
<1>1. IInv => UnlockedByReading
  BY DEF IInv, RunInv, LockRight, UnlockedByReading
<1>2. IInv => RevisionsUnrestricted
  <2> SUFFICES ASSUME IInv PROVE RevisionsUnrestricted
    OBVIOUS
  <2>1. ASSUME NEW r \in Run, pc[r] = "asking"
        PROVE  /\ offered[r] \subseteq made[r].base
               /\ made[r].tools = made[r].base => offered[r] = made[r].base
    BY <2>1 DEF IInv, RunInv, LockRight, Equipped
  <2>2. ASSUME NEW i \in 1..Len(messages) - 1, NEW r, r = messages[i].run, SetAside(r, i)
        PROVE  made[r].tools = made[r].base /\ r \in Run
    <3>1. messages \in Seq(Message) /\ i \in 1..Len(messages)
      BY DEF IInv, TypeOK
    <3>2. r \in Run
      BY <2>2, <3>1, MessageType
    <3> QED
      BY <2>2, <3>2 DEF IInv, RunInv, Equipped
  <2> QED
    BY <2>1, <2>2 DEF RevisionsUnrestricted, SetAside
<1>3. IInv => NudgeRules
  BY <1>1, <1>2 DEF IInv, NudgeRules
<1> QED
  BY InitIInv, NextIInv, <1>3, PTL DEF Spec

\* As long as no client has left a response that was being relayed, each
\* assistant message with tool calls is followed by their results: the loop
\* writes them in the same step or is the only one at work until it does.
THEOREM PairedUnlessAbandoned == Spec => [](Abandoned = {} => HistoryPaired)
<1>1. IInv => (Abandoned = {} => HistoryPaired)
  BY DEF IInv, Paired
<1> QED
  BY InitIInv, NextIInv, <1>1, PTL DEF Spec

\* Where no client leaves a response before it has ended, the history the
\* model API is sent is always paired, for any number of runs and turns.
THEOREM HistoryStaysPaired ==
  ASSUME MaxAbandoned = 0
  PROVE  Spec => []HistoryPaired
<1>1. Init => Abandoned = {}
  BY DEF Init, Abandoned
<1>2. Abandoned = {} /\ IInv /\ [Next]_vars => (Abandoned = {})'
  <2> SUFFICES ASSUME Abandoned = {}, IInv, [Next]_vars PROVE Abandoned' = {}
    OBVIOUS
  <2>1. \A r \in Run : ~Abandon(r)
    BY FS_EmptySet DEF Abandon
  <2>2. TypeOK
    BY DEF IInv
  <2>3. ASSUME NEW q \in Run PROVE response'[q] = response[q] \/ response'[q] # "abandoned"
    <3>1. CASE UNCHANGED vars
      BY <3>1 DEF vars
    <3>2. ASSUME NEW r \in Run,
                 Start(r) \/ Settle(r) \/ Task(r) \/ Relay(r) \/ Conclude(r)
          PROVE  response'[q] = response[q] \/ response'[q] # "abandoned"
      <4>1. CASE Start(r)
        BY <2>2, <4>1 DEF Start, TypeOK
      <4>2. CASE Conclude(r)
        BY <2>2, <4>2 DEF Conclude, TypeOK
      <4>3. CASE Settle(r) \/ Relay(r)
        BY <4>3 DEF Settle, Relay
      <4>4. CASE Task(r)
        BY <4>4 DEF Task, Answer, AnswerText, AnswerReads, AnswerWrites, Fail, FinishRead, Collect
      <4> QED
        BY <3>2, <4>1, <4>2, <4>3, <4>4
    <3> QED
      BY <2>1, <3>1, <3>2 DEF Next
  <2> QED
    BY <2>3 DEF Abandoned
<1>3. IInv /\ Abandoned = {} => HistoryPaired
  BY DEF IInv, Paired
<1> QED
  BY InitIInv, NextIInv, <1>1, <1>2, <1>3, PTL DEF Spec
=============================================================================

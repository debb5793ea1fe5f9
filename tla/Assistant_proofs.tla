-------------------------- MODULE Assistant_proofs --------------------------
(***************************************************************************)
(* For any numbers of requests, advices, attempts and user steps, and any  *)
(* proposals, conversations, periods and blocks: the types of the panel,   *)
(* the review and the advice card, that the log of the panel is one        *)
(* conversation (PanelIsOneConversation), that a card shows what it would  *)
(* have approved (ChoiceIsSeen), and that reviews and advices are about    *)
(* what they say (GeneratedIsTrue).                                        *)
(***************************************************************************)
EXTENDS Assistant, SequenceTheorems, FiniteSetTheorems, TLAPS

(***************************************************************************)
(* The review.                                                             *)
(***************************************************************************)
ReportType ==
  [period : Periods \cup {NoPeriod}, loading : BOOLEAN, error : BOOLEAN,
   sums : Periods \cup {NoPeriod},
   review : [of : Periods \cup {NoPeriod}, from : Periods \cup {NoPeriod}],
   generating : BOOLEAN, texts : SUBSET (1..MaxRetries)]
JobType ==
  [of : Periods \cup {NoPeriod}, from : Periods \cup {NoPeriod}, attempt : 0..MaxRetries]

\* While requests do not overlap, the one under way is for the page's period,
\* and what the store holds when none is under way is its answer.
FetchOK ==
  ~overlap =>
    /\ Len(fetches) <= 1
    /\ report.period # NoPeriod =>
         IF fetches = <<>> THEN ~report.loading /\ (~report.error => report.sums = report.period)
         ELSE report.loading /\ fetches[1] = report.period
    /\ report.review.of = report.review.from /\ job.of = job.from

\* The text on the page is that of the attempt under way.
TextOK ==
  /\ report.generating <=> Writing
  /\ Writing => job.attempt >= 1 /\ report.texts \subseteq {job.attempt} /\ report.review = NoReview
  /\ \A a, b \in report.texts : a = b
  /\ report.review # NoReview => report.texts = {}

ReviewInv == ReviewTypeOK /\ FetchOK /\ TextOK

\* What is left of a sequence of periods is one.
LEMMA RemoveType ==
  ASSUME NEW S, NEW s \in Seq(S), NEW i \in DOMAIN s
  PROVE  /\ RemoveAt(s, i) \in Seq(S)
         /\ Len(s) <= 1 => i = 1 /\ RemoveAt(s, i) = <<>>
<1> DEFINE a == SubSeq(s, 1, i - 1)
           b == SubSeq(s, i + 1, Len(s))
<1>1. Len(s) \in Nat /\ i \in 1..Len(s)
  OBVIOUS
<1>2. a \in Seq(S) /\ Len(a) = i - 1
  BY <1>1, SubSeqProperties
<1>3. b \in Seq(S) /\ Len(b) = Len(s) - i
  BY <1>1, SubSeqProperties
<1>4. RemoveAt(s, i) = a \o b
  BY DEF RemoveAt
<1>5. a \o b \in Seq(S) /\ Len(a \o b) = Len(a) + Len(b)
  BY <1>2, <1>3, ConcatProperties
<1>6. Len(s) <= 1 => i = 1 /\ Len(a \o b) = 0
  BY <1>1, <1>2, <1>3, <1>5
<1>7. Len(s) <= 1 => a \o b = <<>>
  BY <1>5, <1>6, EmptySeq
<1> QED
  BY <1>4, <1>5, <1>6, <1>7

LEMMA InitReview == ReviewInit => ReviewInv
<1> SUFFICES ASSUME ReviewInit PROVE ReviewInv
  OBVIOUS
<1> USE PeriodAssumption, RetryAssumption
<1>1. /\ report = [period |-> NoPeriod, loading |-> FALSE, error |-> FALSE, sums |-> NoPeriod,
                   review |-> NoReview, generating |-> FALSE, texts |-> {}]
      /\ fetches = <<>> /\ job = NoJob /\ overlap = FALSE
  BY DEF ReviewInit
<1>2. ReviewTypeOK
  <2>1. fetches \in Seq(Periods)
    BY <1>1, EmptySeq
  <2>2. NoReview \in [of : Periods \cup {NoPeriod}, from : Periods \cup {NoPeriod}]
    BY DEF NoReview
  <2>3. NoJob \in JobType
    BY DEF NoJob, JobType
  <2>5. overlap \in BOOLEAN
    BY <1>1, Zenon
  <2>4. report \in ReportType
    BY <1>1, <2>2 DEF ReportType
  <2> QED
    BY <1>1, <2>1, <2>3, <2>4, <2>5 DEF ReviewTypeOK, JobType, ReportType
<1>3. FetchOK
  BY <1>1 DEF FetchOK, NoReview, NoJob
<1>4. TextOK
  BY <1>1 DEF TextOK, Writing
<1> QED
  BY <1>2, <1>3, <1>4 DEF ReviewInv

LEMMA FetchReview ==
  ASSUME ReviewInv, NEW p \in Periods, Fetch(p)
  PROVE  ReviewInv'
<1> USE PeriodAssumption, RetryAssumption DEF ReviewInv
<1>1. /\ report' = [report EXCEPT !.period = p, !.loading = TRUE, !.error = FALSE]
      /\ fetches' = Append(fetches, p) /\ overlap' = (overlap \/ fetches # <<>>) /\ job' = job
  BY DEF Fetch
<1>2. /\ report'.period = p /\ report'.loading = TRUE /\ report'.error = FALSE
      /\ report'.sums = report.sums /\ report'.review = report.review
      /\ report'.generating = report.generating /\ report'.texts = report.texts
  BY <1>1 DEF ReviewTypeOK
<1>3. fetches \in Seq(Periods)
  BY DEF ReviewTypeOK
<1>7. /\ fetches' \in Seq(Periods) /\ fetches' # <<>>
      /\ fetches = <<>> => Len(fetches') = 1 /\ fetches'[1] = p
  BY <1>1, <1>3, AppendProperties
<1>4. ReviewTypeOK'
  BY <1>1, <1>7 DEF ReviewTypeOK
<1>5. FetchOK'
  <2> SUFFICES ASSUME ~overlap' PROVE FetchOK'
    BY DEF FetchOK
  <2>1. ~overlap
    BY <1>1, Zenon
  <2>4. fetches = <<>>
    BY <1>1, Zenon
  <2>2. Len(fetches') <= 1 /\ fetches' # <<>> /\ fetches'[1] = p
    BY <1>7, <2>4
  <2>3. report'.review.of = report'.review.from /\ job'.of = job'.from
    BY <1>1, <1>2, <2>1 DEF FetchOK
  <2> QED
    BY <1>2, <2>2, <2>3 DEF FetchOK
<1>6. TextOK'
  BY <1>1, <1>2 DEF TextOK, Writing
<1> QED
  BY <1>4, <1>5, <1>6

\* The answer to a request for sums.
LEMMA SumsReview ==
  ASSUME ReviewInv, NEW i \in DOMAIN fetches, SumsArrive(i) \/ SumsFail(i)
  PROVE  ReviewInv'
<1> USE PeriodAssumption, RetryAssumption DEF ReviewInv
<1>1. /\ fetches' = RemoveAt(fetches, i) /\ overlap' = overlap /\ job' = job
      /\ fetches[i] \in Periods
  BY DEF SumsArrive, SumsFail, ReviewTypeOK
<1>2. /\ fetches' \in Seq(Periods)
      /\ Len(fetches) <= 1 => i = 1 /\ fetches' = <<>> /\ fetches # <<>>
  BY <1>1, RemoveType DEF ReviewTypeOK
<1>3. /\ report' \in ReportType
      /\ report'.period = report.period /\ report'.review = report.review
      /\ report'.generating = report.generating /\ report'.texts = report.texts
      /\ report'.loading = FALSE
      /\ report'.sums = fetches[i] \/ report'.error = TRUE
  BY <1>1 DEF SumsArrive, SumsFail, ReviewTypeOK, ReportType
<1>4. ReviewTypeOK'
  BY <1>1, <1>2, <1>3 DEF ReviewTypeOK, ReportType
<1>5. FetchOK'
  BY <1>1, <1>2, <1>3 DEF FetchOK, ReviewTypeOK
<1>6. TextOK'
  BY <1>1, <1>3 DEF TextOK, Writing
<1> QED
  BY <1>4, <1>5, <1>6

LEMMA CloseReview == ReviewInv /\ CloseReport => ReviewInv'
<1> SUFFICES ASSUME ReviewInv, CloseReport PROVE ReviewInv'
  OBVIOUS
<1> USE PeriodAssumption, RetryAssumption DEF ReviewInv
<1>1. /\ report' \in ReportType /\ report'.period = NoPeriod /\ report'.review = report.review
      /\ report'.generating = report.generating /\ report'.texts = report.texts
      /\ fetches' = fetches /\ overlap' = overlap /\ job' = job
  BY DEF CloseReport, ReviewTypeOK, ReportType
<1>2. ReviewTypeOK'
  BY <1>1 DEF ReviewTypeOK, ReportType
<1>3. FetchOK'
  BY <1>1 DEF FetchOK
<1>4. TextOK'
  BY <1>1 DEF TextOK, Writing
<1> QED
  BY <1>2, <1>3, <1>4

\* handleGenerate and the attempts of its loop.
LEMMA WritingReview ==
  ASSUME ReviewInv, GenerateReview \/ ReviewText \/ ReviewParsed \/ ReviewFails
  PROVE  ReviewInv'
<1> USE PeriodAssumption, RetryAssumption DEF ReviewInv
<1>1. CASE GenerateReview
  <2>1. /\ job' = [of |-> report.period, from |-> report.sums, attempt |-> 1]
        /\ fetches' = fetches /\ overlap' = overlap
        /\ report.period # NoPeriod /\ ~report.loading /\ ~report.error
    BY <1>1 DEF GenerateReview, ReportShown
  <2>2. /\ report' \in ReportType /\ report'.period = report.period
        /\ report'.loading = report.loading /\ report'.error = report.error
        /\ report'.sums = report.sums /\ report'.review = NoReview
        /\ report'.generating = TRUE /\ report'.texts = {}
    BY <1>1 DEF GenerateReview, ReviewTypeOK, ReportType, NoReview
  <2>3. ReviewTypeOK'
    BY <2>1, <2>2 DEF ReviewTypeOK, ReportType
  <2>4. job' # NoJob
    BY <2>1 DEF NoJob
  <2>5. FetchOK'
    BY <2>1, <2>2 DEF FetchOK, NoReview
  <2>6. TextOK'
    BY <2>1, <2>2, <2>4 DEF TextOK, Writing
  <2> QED
    BY <2>3, <2>5, <2>6
<1>2. CASE ReviewText
  <2>1. /\ Writing /\ job.attempt \notin report.texts /\ job.attempt \in 1..MaxRetries
        /\ fetches' = fetches /\ overlap' = overlap /\ job' = job
    BY <1>2 DEF ReviewText, TextOK, ReviewTypeOK
  <2>2. /\ report' \in ReportType /\ report'.period = report.period
        /\ report'.loading = report.loading /\ report'.error = report.error
        /\ report'.sums = report.sums /\ report'.review = report.review
        /\ report'.generating = report.generating
        /\ report'.texts = report.texts \cup {job.attempt}
    BY <1>2, <2>1 DEF ReviewText, ReviewTypeOK, ReportType
  <2>3. ReviewTypeOK'
    BY <2>1, <2>2 DEF ReviewTypeOK, ReportType
  <2>4. FetchOK'
    BY <2>1, <2>2 DEF FetchOK
  <2>5. TextOK'
    BY <2>1, <2>2 DEF TextOK, Writing
  <2> QED
    BY <2>3, <2>4, <2>5
<1>3. CASE ReviewParsed
  <2>1. job' = NoJob /\ fetches' = fetches /\ overlap' = overlap
    BY <1>3 DEF ReviewParsed
  <2>2. /\ report' \in ReportType /\ report'.period = report.period
        /\ report'.loading = report.loading /\ report'.error = report.error
        /\ report'.sums = report.sums
        /\ report'.review.of = job.of /\ report'.review.from = job.from
        /\ report'.generating = FALSE /\ report'.texts = {}
    BY <1>3 DEF ReviewParsed, ReviewTypeOK, ReportType
  <2>3. ReviewTypeOK'
    BY <2>1, <2>2 DEF ReviewTypeOK, ReportType, NoJob
  <2>4. FetchOK'
    BY <2>1, <2>2 DEF FetchOK, NoJob
  <2>5. TextOK'
    BY <2>1, <2>2 DEF TextOK, Writing
  <2> QED
    BY <2>3, <2>4, <2>5
<1>4. CASE ReviewFails
  <2>4. Writing /\ fetches' = fetches /\ overlap' = overlap
    BY <1>4 DEF ReviewFails
  <2>1. Writing /\ fetches' = fetches /\ overlap' = overlap /\ job.attempt \in 1..MaxRetries
    BY <2>4 DEF TextOK, ReviewTypeOK
  <2>2. CASE job.attempt < MaxRetries
    <3>1. job' = [job EXCEPT !.attempt = @ + 1] /\ report' = [report EXCEPT !.texts = {}]
      BY <1>4, <2>2 DEF ReviewFails
    <3>2. /\ job' \in JobType /\ job'.attempt = job.attempt + 1
          /\ job'.of = job.of /\ job'.from = job.from
      BY <2>1, <2>2, <3>1 DEF ReviewTypeOK, JobType
    <3>3. /\ report' \in ReportType /\ report'.period = report.period
          /\ report'.loading = report.loading /\ report'.error = report.error
          /\ report'.sums = report.sums /\ report'.review = report.review
          /\ report'.generating = report.generating /\ report'.texts = {}
      BY <3>1 DEF ReviewTypeOK, ReportType
    <3>4. ReviewTypeOK'
      BY <2>1, <3>2, <3>3 DEF ReviewTypeOK, ReportType, JobType
    <3>5. job'.attempt >= 1 /\ job' # NoJob
      BY <2>1, <3>2 DEF NoJob
    <3>6. FetchOK'
      BY <2>1, <3>2, <3>3 DEF FetchOK
    <3>7. TextOK'
      BY <2>1, <3>3, <3>5 DEF TextOK, Writing
    <3> QED
      BY <3>4, <3>6, <3>7
  <2>3. CASE ~(job.attempt < MaxRetries)
    <3>6. job' = NoJob /\ \E said \in BOOLEAN :
            report' = [report EXCEPT !.generating = FALSE,
                                     !.texts = IF said THEN @ \cup {MaxRetries} ELSE @]
      BY <1>4, <2>3 DEF ReviewFails
    <3>1. job' = NoJob /\ job.attempt = MaxRetries
      BY <3>6, <2>1, <2>3
    <3>7. PICK said \in BOOLEAN :
            report' = [report EXCEPT !.generating = FALSE,
                                     !.texts = IF said THEN @ \cup {MaxRetries} ELSE @]
      BY <3>6
    <3>2. /\ report' \in ReportType /\ report'.period = report.period
          /\ report'.loading = report.loading /\ report'.error = report.error
          /\ report'.sums = report.sums /\ report'.review = report.review
          /\ report'.generating = FALSE /\ report'.texts \subseteq report.texts \cup {MaxRetries}
      <4> DEFINE texts == IF said THEN report.texts \cup {MaxRetries} ELSE report.texts
      <4>1. texts \in SUBSET (1..MaxRetries) /\ texts \subseteq report.texts \cup {MaxRetries}
        BY DEF ReviewTypeOK
      <4>2. report' = [report EXCEPT !.generating = FALSE, !.texts = texts]
        BY <3>7
      <4> HIDE DEF texts
      <4> QED
        BY <4>1, <4>2 DEF ReviewTypeOK, ReportType
    <3>3. ReviewTypeOK'
      BY <2>1, <3>1, <3>2 DEF ReviewTypeOK, ReportType, NoJob
    <3>4. FetchOK'
      BY <2>1, <3>1, <3>2 DEF FetchOK, NoJob
    <3>5. TextOK'
      BY <2>1, <3>1, <3>2 DEF TextOK, Writing
    <3> QED
      BY <3>3, <3>4, <3>5
  <2> QED
    BY <2>2, <2>3
<1> QED
  BY <1>1, <1>2, <1>3, <1>4

LEMMA StayReview == ReviewInv /\ UNCHANGED reviewVars => ReviewInv'
BY DEF ReviewInv, ReviewTypeOK, FetchOK, TextOK, Writing, reviewVars

LEMMA ReviewTrue == ReviewInv => ReviewIsOfItsPeriod
<1> SUFFICES ASSUME ReviewInv PROVE ReviewIsOfItsPeriod
  OBVIOUS
<1>1. ~overlap => (ReportShown => report.sums = report.period) /\ report.review.of = report.review.from
  BY DEF ReviewInv, FetchOK, ReportShown
<1>2. report.generating \in BOOLEAN
  BY DEF ReviewInv, ReviewTypeOK
<1>3. report.generating <=> Writing
  BY DEF ReviewInv, TextOK
<1>4. report.generating = Writing
  BY <1>2, <1>3, Zenon DEF Writing
<1>5. /\ \A a, b \in report.texts : a = b
      /\ report.review # NoReview => report.texts = {} /\ ~report.generating
  BY <1>3 DEF ReviewInv, TextOK
<1> QED
  BY <1>1, <1>4, <1>5 DEF ReviewIsOfItsPeriod

(***************************************************************************)
(* The advice card.                                                        *)
(***************************************************************************)
CardType ==
  [visit : Nat, reading : {0} \cup Advices, text : BOOLEAN, result : {0} \cup Advices,
   selected : SUBSET Blocks, applying : BOOLEAN, applied : 0..Cardinality(Blocks)]
LoopType ==
  [visit : Nat, of : Advices, left : (SUBSET Blocks) \ {{}}, count : 1..Cardinality(Blocks)]

\* The blocks of an advice that were added.
Did(n) == {b \in Blocks : added[n][b] = 1}
Untouched(n) == (\A l \in applies : l.of # n) /\ \A b \in Blocks : added[n][b] = 0

\* A loop has not added what it still has to add, and is alone with its advice
\* and its visit of the page.
LoopsOK ==
  /\ \A l \in applies : l.visit \in 1..visits /\ l.of <= advices
  /\ \A l \in applies : \A b \in l.left : added[l.of][b] = 0
  /\ \A l, m \in applies : l.of = m.of \/ l.visit = m.visit => l = m
  /\ \A n \in Advices, b \in Blocks : added[n][b] <= 1
  /\ \A n \in Advices : n > advices => Untouched(n)

\* The card offers only an advice of which nothing was added yet.
CardOK ==
  /\ visits \in Nat /\ advice.visit \in 0..visits
  /\ advice.visit = 0 => advice.reading = 0 /\ advice.result = 0
  /\ advice.applying <=> \E l \in applies : l.visit = advice.visit
  /\ advice.reading # 0 =>
       advice.reading <= advices /\ Untouched(advice.reading) /\ advice.result = 0
  /\ advice.result <= advices
  /\ advice.result # 0 /\ ~advice.applying /\ advice.applied = 0 => Untouched(advice.result)

\* As long as nothing failed: what a loop has added and has left is what it
\* began with, and the card counts what was added of the advice it shows.
CountOK ==
  ~disturbed =>
    /\ \A l \in applies : l.count = Cardinality(Did(l.of)) + Cardinality(l.left)
    /\ \A l \in applies : l.visit = advice.visit => l.of = advice.result
    /\ advice.reading # 0 => ~advice.applying /\ advice.applied = 0
    /\ advice.applied > 0 =>
         /\ ~advice.applying /\ advice.result # 0 /\ (\A l \in applies : l.of # advice.result)
         /\ advice.applied = Cardinality(Did(advice.result))

AdviceInv == AdviceTypeOK /\ LoopsOK /\ CardOK /\ CountOK

LEMMA SomeBlocks ==
  ASSUME NEW S \in SUBSET Blocks
  PROVE  /\ IsFiniteSet(S) /\ Cardinality(S) \in 0..Cardinality(Blocks)
         /\ S # {} => Cardinality(S) \in 1..Cardinality(Blocks)
<1>1. IsFiniteSet(S) /\ Cardinality(S) <= Cardinality(Blocks)
  BY AdviceAssumption, FS_Subset
<1>2. Cardinality(S) \in Nat /\ Cardinality(Blocks) \in Nat
  BY <1>1, AdviceAssumption, FS_CardinalityType
<1>3. Cardinality(S) = 0 <=> S = {}
  BY <1>1, FS_EmptySet
<1> QED
  BY <1>1, <1>2, <1>3

LEMMA BlocksCount == Cardinality(Blocks) \in Nat
BY AdviceAssumption, FS_CardinalityType

LEMMA AdviceInvType ==
  ASSUME AdviceInv
  PROVE  /\ advice \in CardType /\ advices \in Nat /\ advices <= MaxAdvice
         /\ applies \subseteq LoopType
         /\ added \in [Advices -> [Blocks -> Nat]] /\ disturbed \in BOOLEAN
         /\ Advices \subseteq Nat \ {0}
BY AdviceAssumption DEF AdviceInv, AdviceTypeOK, CardType, LoopType, Advices

LEMMA InitAdvice == AdviceInit /\ visits = 0 => AdviceInv
<1> SUFFICES ASSUME AdviceInit, visits = 0 PROVE AdviceInv
  OBVIOUS
<1>1. /\ advice.visit = 0 /\ advice.reading = 0 /\ advice.result = 0 /\ advice.applying = FALSE
      /\ advice.applied = 0 /\ applies = {} /\ advices = 0
      /\ added = [n \in Advices |-> [b \in Blocks |-> 0]]
  BY DEF AdviceInit, NewCard
<1>2. disturbed \in BOOLEAN
  BY Zenon DEF AdviceInit
<1>3. advice \in CardType
  BY BlocksCount DEF AdviceInit, NewCard, CardType
<1>4. AdviceTypeOK
  BY <1>1, <1>2, <1>3 DEF AdviceTypeOK, CardType
<1>5. LoopsOK
  BY <1>1 DEF LoopsOK, Untouched
<1>6. CardOK
  BY <1>1 DEF CardOK
<1>7. CountOK
  BY <1>1 DEF CountOK
<1> QED
  BY <1>4, <1>5, <1>6, <1>7 DEF AdviceInv

LEMMA StayAdvice == AdviceInv /\ UNCHANGED <<adviceVars, visits>> => AdviceInv'
BY DEF AdviceInv, AdviceTypeOK, LoopsOK, CardOK, CountOK, Untouched, Did, adviceVars

\* A new card has nothing of the loops that go on.
LEMMA ShowAdvice ==
  ASSUME AdviceInv, NEW v \in Nat, ShowCard(v),
         (v = 0 /\ visits' = visits) \/ (v = visits + 1 /\ visits' = v)
  PROVE  AdviceInv'
<1>1. /\ advice'.visit = v /\ advice'.reading = 0 /\ advice'.result = 0
      /\ advice'.applying = FALSE /\ advice'.applied = 0
      /\ advices' = advices /\ applies' = applies /\ added' = added /\ disturbed' = disturbed
  BY DEF ShowCard, NewCard
<1>2. visits \in Nat /\ visits' \in Nat /\ visits <= visits'
  BY DEF AdviceInv, CardOK
<1>3. \A l \in applies : l.visit \in 1..visits
  BY DEF AdviceInv, LoopsOK
<1>4. \A l \in applies : l.visit # v
  BY <1>2, <1>3
<1>5. advice' \in CardType
  BY BlocksCount DEF ShowCard, NewCard, CardType
<1>6. AdviceTypeOK'
  BY <1>1, <1>5 DEF AdviceInv, AdviceTypeOK, CardType
<1>7. LoopsOK'
  BY <1>1, <1>2, <1>3 DEF AdviceInv, LoopsOK, Untouched
<1>8. CardOK'
  <2>1. 0 <= advices
    BY AdviceInvType
  <2> QED
    BY <1>1, <1>2, <1>4, <2>1 DEF CardOK
<1>9. CountOK'
  BY <1>1, <1>4 DEF AdviceInv, CountOK, Did
<1> QED
  BY <1>6, <1>7, <1>8, <1>9 DEF AdviceInv

LEMMA AskedCard ==
  ASSUME NEW c \in CardType, NEW n \in Advices
  PROVE  LET d == [c EXCEPT !.reading = n, !.text = FALSE, !.result = 0,
                            !.selected = {}, !.applied = 0]
         IN  /\ d \in CardType /\ d.visit = c.visit /\ d.reading = n
             /\ d.result = 0 /\ d.applied = 0 /\ d.applying = c.applying
<1>1. 0 \in 0..Cardinality(Blocks) /\ {} \in SUBSET Blocks
  BY BlocksCount
<1> QED
  BY <1>1 DEF CardType

LEMMA GenerateAdvice ==
  ASSUME AdviceInv, Generate, visits' = visits
  PROVE  AdviceInv'
<1>1. /\ advice.visit # 0 /\ advice.reading = 0 /\ advices < MaxAdvice /\ advices' = advices + 1
      /\ applies' = applies /\ added' = added
  BY DEF Generate
<1>8. advice' = [advice EXCEPT !.reading = advices', !.text = FALSE, !.result = 0,
                               !.selected = {}, !.applied = 0]
  BY DEF Generate
<1>9. disturbed' = (disturbed \/ advice.applying)
  BY DEF Generate
<1>2. advice \in CardType /\ advices \in Nat /\ advices' \in Advices /\ advices' \in Nat
  BY <1>1, AdviceInvType, AdviceAssumption DEF Advices
<1>10. disturbed \in BOOLEAN /\ disturbed' \in BOOLEAN
  BY <1>9, AdviceInvType, Zenon
<1>3. /\ advice' \in CardType /\ advice'.visit = advice.visit /\ advice'.reading = advices'
      /\ advice'.result = 0 /\ advice'.applied = 0 /\ advice'.applying = advice.applying
  BY <1>2, <1>8, AskedCard
<1>4. AdviceTypeOK'
  BY <1>1, <1>2, <1>3, <1>10 DEF AdviceInv, AdviceTypeOK, CardType
<1>5. LoopsOK'
  <2>1. \A l \in applies : l.visit \in 1..visits /\ l.of <= advices'
    <3> SUFFICES ASSUME NEW l \in applies PROVE l.visit \in 1..visits /\ l.of <= advices'
      OBVIOUS
    <3>1. l.visit \in 1..visits /\ l.of <= advices /\ l.of \in Nat
      BY AdviceInvType DEF AdviceInv, LoopsOK, LoopType
    <3> QED
      BY <1>1, <1>2, <3>1
  <2>2. \A n \in Advices : n > advices' => Untouched(n)'
    BY <1>1, <1>2, AdviceInvType DEF AdviceInv, LoopsOK, Untouched
  <2> QED
    BY <1>1, <2>1, <2>2 DEF AdviceInv, LoopsOK
<1>6. CardOK'
  <2>1. \A n \in Advices : n = advices' => Untouched(n)'
    BY <1>1, <1>2, AdviceInvType DEF AdviceInv, LoopsOK, Untouched
  <2>2. (advice.reading # 0 => advice.reading <= advices /\ Untouched(advice.reading))'
    BY <1>2, <1>3, <2>1 DEF Untouched
  <2>3. /\ visits' \in Nat /\ advice'.visit \in 0..visits' /\ advice'.visit # 0
        /\ advice'.applying <=> \E l \in applies' : l.visit = advice'.visit
    BY <1>1, <1>3 DEF AdviceInv, CardOK
  <2>4. advice'.result <= advices'
    BY <1>2, <1>3, AdviceInvType
  <2> QED
    BY <1>3, <2>2, <2>3, <2>4 DEF CardOK
<1>7. CountOK'
  <2> SUFFICES ASSUME ~disturbed' PROVE CountOK'
    BY DEF CountOK
  <2>1. ~disturbed /\ ~advice.applying
    BY <1>9, Zenon
  <2>2. \A l \in applies : l.visit # advice.visit
    BY <2>1 DEF AdviceInv, CardOK
  <2> QED
    BY <1>1, <1>3, <2>1, <2>2 DEF AdviceInv, CountOK, Did
<1> QED
  BY <1>4, <1>5, <1>6, <1>7 DEF AdviceInv

\* A step of the card that leaves the loops alone: it may end the reading of an
\* advice, and show that advice.
LEMMA CardStep ==
  ASSUME AdviceInv, UNCHANGED <<advices, applies, added, disturbed, visits>>,
         advice' \in CardType, advice'.visit = advice.visit,
         advice'.applying = advice.applying, advice'.applied = advice.applied,
         \/ advice'.reading = advice.reading /\ advice'.result = advice.result
         \/ advice'.reading = 0 /\ advice'.result = advice.result
         \/ advice.reading # 0 /\ advice'.reading = 0 /\ advice'.result = advice.reading
  PROVE  AdviceInv'
<1> USE DEF AdviceInv
<1>1. AdviceTypeOK'
  BY DEF AdviceTypeOK, CardType
<1>2. LoopsOK'
  BY DEF LoopsOK, Untouched
<1>3. \A n \in Advices : Untouched(n)' <=> Untouched(n)
  BY DEF Untouched
<1>4. CardOK'
  <2>1. CASE advice'.reading = advice.reading /\ advice'.result = advice.result
    BY <2>1 DEF CardOK, Untouched
  <2>2. CASE advice'.reading = 0 /\ advice'.result = advice.result
    BY <2>2 DEF CardOK, Untouched
  <2>3. CASE advice.reading # 0 /\ advice'.reading = 0 /\ advice'.result = advice.reading
    BY <2>3 DEF CardOK, Untouched
  <2> QED
    BY <2>1, <2>2, <2>3
<1>5. CountOK'
  <2> SUFFICES ASSUME ~disturbed PROVE CountOK'
    BY DEF CountOK
  <2>1. CASE advice'.result = advice.result
    BY <2>1 DEF CountOK, Did
  <2>2. CASE advice.reading # 0 /\ advice'.reading = 0 /\ advice'.result = advice.reading
    <3>1. ~advice.applying /\ ~(advice.applied > 0)
      BY <2>2 DEF CountOK
    <3>2. \A l \in applies : l.visit # advice.visit
      BY <3>1 DEF CardOK
    <3> QED
      BY <2>2, <3>1, <3>2 DEF CountOK, Did
  <2> QED
    BY <2>1, <2>2
<1> QED
  BY <1>1, <1>2, <1>4, <1>5

LEMMA ReadAdvice ==
  ASSUME AdviceInv, AdviceText \/ AdviceParsed \/ AdviceFails \/ ToggleBlock, visits' = visits
  PROVE  AdviceInv'
<1>0. advice \in CardType /\ Blocks \in SUBSET Blocks
  BY AdviceInvType
<1>1. CASE AdviceText
  <2>1. /\ advice' = [advice EXCEPT !.text = TRUE]
        /\ UNCHANGED <<advices, applies, added, disturbed>>
    BY <1>1 DEF AdviceText
  <2>2. /\ advice' \in CardType /\ advice'.visit = advice.visit
        /\ advice'.applying = advice.applying /\ advice'.applied = advice.applied
        /\ advice'.reading = advice.reading /\ advice'.result = advice.result
    BY <1>0, <2>1 DEF CardType
  <2> QED
    BY <2>1, <2>2, CardStep
<1>2. CASE AdviceParsed
  <2>1. /\ advice.reading # 0
        /\ advice' = [advice EXCEPT !.reading = 0, !.text = FALSE, !.result = advice.reading,
                                    !.selected = Blocks]
        /\ UNCHANGED <<advices, applies, added, disturbed>>
    BY <1>2 DEF AdviceParsed, Reads
  <2>2. /\ advice' \in CardType /\ advice'.visit = advice.visit
        /\ advice'.applying = advice.applying /\ advice'.applied = advice.applied
        /\ advice'.reading = 0 /\ advice'.result = advice.reading
    BY <1>0, <2>1 DEF CardType
  <2> QED
    BY <2>1, <2>2, CardStep
<1>3. CASE AdviceFails
  <2>1. /\ \E t \in {advice.text, TRUE} : advice' = [advice EXCEPT !.reading = 0, !.text = t]
        /\ UNCHANGED <<advices, applies, added, disturbed>>
    BY <1>3 DEF AdviceFails
  <2>2. PICK t \in {advice.text, TRUE} : advice' = [advice EXCEPT !.reading = 0, !.text = t]
    BY <2>1
  <2>3. t \in BOOLEAN
    BY <1>0 DEF CardType
  <2>4. /\ advice' \in CardType /\ advice'.visit = advice.visit
        /\ advice'.applying = advice.applying /\ advice'.applied = advice.applied
        /\ advice'.reading = 0 /\ advice'.result = advice.result
    BY <1>0, <2>2, <2>3 DEF CardType
  <2> QED
    BY <2>1, <2>4, CardStep
<1>4. CASE ToggleBlock
  <2>1. /\ \E b \in Blocks : advice' = [advice EXCEPT
             !.selected = IF b \in @ THEN @ \ {b} ELSE @ \cup {b}]
        /\ UNCHANGED <<advices, applies, added, disturbed>>
    BY <1>4 DEF ToggleBlock
  <2>2. PICK b \in Blocks : advice' = [advice EXCEPT
             !.selected = IF b \in @ THEN @ \ {b} ELSE @ \cup {b}]
    BY <2>1
  <2> DEFINE S == IF b \in advice.selected THEN advice.selected \ {b} ELSE advice.selected \cup {b}
  <2>3. S \in SUBSET Blocks
    BY <1>0 DEF CardType
  <2>4. advice' = [advice EXCEPT !.selected = S]
    BY <2>2
  <2> HIDE DEF S
  <2>5. /\ advice' \in CardType /\ advice'.visit = advice.visit
        /\ advice'.applying = advice.applying /\ advice'.applied = advice.applied
        /\ advice'.reading = advice.reading /\ advice'.result = advice.result
    BY <1>0, <2>3, <2>4 DEF CardType
  <2> QED
    BY <2>1, <2>5, CardStep
<1> QED
  BY <1>1, <1>2, <1>3, <1>4

\* A loop begins with an advice of which nothing was added yet.
LEMMA ApplyAdvice ==
  ASSUME AdviceInv, Apply, visits' = visits
  PROVE  AdviceInv'
<1> DEFINE new == [visit |-> advice.visit, of |-> advice.result,
                   left |-> advice.selected, count |-> Cardinality(advice.selected)]
<1>1. /\ advice.result # 0 /\ advice.reading = 0 /\ advice.applied = 0
      /\ advice.selected # {} /\ ~advice.applying
      /\ advice' = [advice EXCEPT !.applying = TRUE]
      /\ applies' = applies \cup {new}
      /\ UNCHANGED <<advices, added, disturbed>>
  BY DEF Apply, Shown, Reads
<1>2. /\ advice \in CardType /\ applies \subseteq LoopType /\ advices \in Nat
      /\ Advices \subseteq Nat \ {0} /\ added \in [Advices -> [Blocks -> Nat]]
  BY AdviceInvType
<1>3. /\ advice' \in CardType /\ advice'.visit = advice.visit /\ advice'.reading = 0
      /\ advice'.result = advice.result /\ advice'.applied = 0 /\ advice'.applying = TRUE
  BY <1>1, <1>2 DEF CardType
<1>4. /\ advice.visit \in 1..visits /\ advice.result \in Advices /\ advice.result <= advices
      /\ Untouched(advice.result) /\ \A l \in applies : l.visit # advice.visit
  BY <1>1, <1>2 DEF AdviceInv, CardOK, CardType
<1>5. /\ advice.selected \in (SUBSET Blocks) \ {{}}
      /\ Cardinality(advice.selected) \in 1..Cardinality(Blocks)
  BY <1>1, <1>2, SomeBlocks DEF CardType
<1>6. new \in LoopType
  BY <1>2, <1>4, <1>5 DEF LoopType, CardType
<1>7. new.visit = advice.visit /\ new.of = advice.result /\ new.left = advice.selected
  OBVIOUS
<1>8. AdviceTypeOK'
  BY <1>1, <1>2, <1>3, <1>6 DEF AdviceInv, AdviceTypeOK, CardType, LoopType
<1>9. LoopsOK'
  <2>1. \A l \in applies' : l.visit \in 1..visits /\ l.of <= advices
    BY <1>1, <1>4, <1>7 DEF AdviceInv, LoopsOK
  <2>2. \A l \in applies' : \A b \in l.left : added[l.of][b] = 0
    BY <1>1, <1>4, <1>5, <1>7 DEF AdviceInv, LoopsOK, Untouched
  <2>3. \A l, m \in applies' : l.of = m.of \/ l.visit = m.visit => l = m
    BY <1>1, <1>4, <1>7 DEF AdviceInv, LoopsOK, Untouched
  <2>4. \A n \in Advices : n > advices => Untouched(n)'
    BY <1>1, <1>2, <1>4, <1>7 DEF AdviceInv, LoopsOK, Untouched
  <2> QED
    BY <1>1, <2>1, <2>2, <2>3, <2>4 DEF AdviceInv, LoopsOK
<1>10. CardOK'
  BY <1>1, <1>3, <1>4, <1>7 DEF AdviceInv, CardOK
<1>11. CountOK'
  <2> SUFFICES ASSUME ~disturbed PROVE CountOK'
    BY <1>1 DEF CountOK
  <2>1. Did(advice.result) = {}
    BY <1>4 DEF Did, Untouched
  <2>6. Cardinality({}) = 0 /\ Cardinality(advice.selected) \in Int
    BY <1>5, BlocksCount, FS_EmptySet
  <2>2. new.count = Cardinality(Did(new.of)) + Cardinality(new.left)
    BY <2>1, <2>6
  <2>3. \A n : Did(n)' = Did(n)
    BY <1>1 DEF Did
  <2> HIDE DEF new
  <2>4. \A l \in applies' : l.count = Cardinality(Did(l.of)) + Cardinality(l.left)
    BY <1>1, <2>2 DEF AdviceInv, CountOK
  <2>5. \A l \in applies' : l.visit = advice.visit => l.of = advice.result
    BY <1>1, <1>4, <1>7
  <2> QED
    BY <1>1, <1>3, <2>3, <2>4, <2>5 DEF CountOK
<1> QED
  BY <1>8, <1>9, <1>10, <1>11 DEF AdviceInv

\* addTimeBlock of one block of a loop.
LEMMA AddAdvice ==
  ASSUME AdviceInv, NEW l \in applies, AddOne(l), visits' = visits
  PROVE  AdviceInv'
<1>1. PICK b \in l.left, done \in BOOLEAN, known \in BOOLEAN :
        LET rest == l.left \ {b} IN
        /\ added' = [added EXCEPT ![l.of][b] = IF done THEN @ + 1 ELSE @]
        /\ disturbed' = (disturbed \/ ~(done /\ known))
        /\ applies' = (applies \ {l}) \cup (IF rest = {} THEN {} ELSE {[l EXCEPT !.left = rest]})
        /\ advice' = IF rest = {} /\ l.visit = advice.visit
                     THEN [advice EXCEPT !.applied = l.count, !.applying = FALSE] ELSE advice
        /\ advices' = advices
  BY DEF AddOne
<1> DEFINE rest == l.left \ {b}
           less == [l EXCEPT !.left = rest]
           ends == rest = {} /\ l.visit = advice.visit
           Now(n) == {c \in Blocks : added'[n][c] = 1}
<1>2. /\ advice \in CardType /\ applies \subseteq LoopType /\ advices \in Nat
      /\ Advices \subseteq Nat \ {0} /\ added \in [Advices -> [Blocks -> Nat]]
      /\ disturbed \in BOOLEAN
  BY AdviceInvType
<1>3. /\ l \in LoopType /\ l.of \in Advices /\ l.left \in SUBSET Blocks /\ b \in Blocks
      /\ l.count \in Nat /\ l.count >= 1 /\ l.count \in 1..Cardinality(Blocks)
      /\ l.visit \in 1..visits /\ l.of <= advices
  BY <1>2, BlocksCount DEF LoopType, AdviceInv, LoopsOK
<1>4. /\ \A c \in l.left : added[l.of][c] = 0
      /\ \A m \in applies : m.of = l.of \/ m.visit = l.visit => m = l
      /\ \A m, k \in applies : m.of = k.of \/ m.visit = k.visit => m = k
  BY DEF AdviceInv, LoopsOK
\* What is added, and what is left.
<1>5. /\ added' \in [Advices -> [Blocks -> Nat]]
      /\ \A n \in Advices, c \in Blocks :
           added'[n][c] = IF n = l.of /\ c = b THEN (IF done THEN 1 ELSE 0) ELSE added[n][c]
  <2>1. added[l.of][b] = 0
    BY <1>4
  <2>2. added' = [added EXCEPT ![l.of] = [@ EXCEPT ![b] = IF done THEN 1 ELSE 0]]
    BY <1>1, <1>2, <1>3, <2>1
  <2> QED
    BY <1>2, <1>3, <2>1, <2>2
<1>6. /\ less \in [visit : Nat, of : Advices, left : SUBSET Blocks, count : 1..Cardinality(Blocks)]
      /\ less.visit = l.visit /\ less.of = l.of /\ less.count = l.count /\ less.left = rest
  BY <1>3 DEF LoopType
<1>7. applies' = (applies \ {l}) \cup (IF rest = {} THEN {} ELSE {less})
  BY <1>1
<1>8. advices' = advices /\ (ends => advice' = [advice EXCEPT !.applied = l.count, !.applying = FALSE])
      /\ (~ends => advice' = advice)
  BY <1>1
<1> HIDE DEF less
<1>9. \A m \in applies' : \/ m \in applies /\ m # l
                          \/ m = less /\ rest # {}
  BY <1>7
<1>10. \A m \in applies : m # l => m \in applies'
  BY <1>7
<1>11. rest # {} => less \in applies'
  BY <1>7
<1>12. /\ advice' \in CardType /\ advice'.visit = advice.visit
       /\ advice'.reading = advice.reading /\ advice'.result = advice.result
       /\ ends => advice'.applied = l.count /\ advice'.applying = FALSE
  <2>1. CASE ends
    <3>1. advice' = [advice EXCEPT !.applied = l.count, !.applying = FALSE]
      BY <1>8, <2>1
    <3>2. l.count \in 0..Cardinality(Blocks)
      BY <1>3, BlocksCount
    <3> QED
      BY <1>2, <3>1, <3>2 DEF CardType
  <2>2. CASE ~ends
    BY <1>2, <1>8, <2>2
  <2> QED
    BY <2>1, <2>2
<1> HIDE DEF ends
<1>13. AdviceTypeOK'
  <2>1. disturbed' \in BOOLEAN
    BY <1>1, Zenon
  <2>2. applies' \subseteq LoopType
    <3> SUFFICES ASSUME NEW m \in applies' PROVE m \in LoopType
      OBVIOUS
    <3>1. CASE m \in applies
      BY <1>2, <3>1
    <3>2. CASE m = less /\ rest # {}
      BY <1>6, <3>2 DEF LoopType
    <3> QED
      BY <1>9, <3>1, <3>2
  <2> QED
    BY <1>5, <1>8, <1>12, <2>1, <2>2 DEF AdviceInv, AdviceTypeOK, CardType, LoopType
<1>14. LoopsOK'
  <2>1. \A m \in applies' : m.visit \in 1..visits /\ m.of <= advices
    BY <1>3, <1>6, <1>9 DEF AdviceInv, LoopsOK
  <2>2. ASSUME NEW m \in applies', NEW c \in m.left PROVE added'[m.of][c] = 0
    <3>1. CASE m \in applies /\ m # l
      <4>1. m.of # l.of /\ added[m.of][c] = 0 /\ m.of \in Advices /\ c \in Blocks
        BY <1>2, <1>4, <2>2, <3>1 DEF AdviceInv, LoopsOK, LoopType
      <4> QED
        BY <1>5, <4>1
    <3>2. CASE m = less
      <4>1. m.of = l.of /\ c \in l.left /\ c # b
        BY <1>6, <2>2, <3>2
      <4>2. c \in Blocks /\ added[l.of][c] = 0
        BY <1>3, <1>4, <4>1
      <4> QED
        BY <1>3, <1>5, <4>1, <4>2
    <3> QED
      BY <1>9, <3>1, <3>2
  <2>3. \A m, k \in applies' : m.of = k.of \/ m.visit = k.visit => m = k
    <3> SUFFICES ASSUME NEW m \in applies', NEW k \in applies', m.of = k.of \/ m.visit = k.visit
                 PROVE  m = k
      OBVIOUS
    <3> QED
      BY <1>4, <1>6, <1>9
  <2>4. \A n \in Advices, c \in Blocks : added'[n][c] <= 1
    BY <1>2, <1>5 DEF AdviceInv, LoopsOK
  <2>5. ASSUME NEW n \in Advices, n > advices PROVE Untouched(n)'
    <3>1. n # l.of
      BY <1>2, <1>3, <2>5
    <3>2. Untouched(n)
      BY <2>5 DEF AdviceInv, LoopsOK
    <3> QED
      BY <1>5, <1>6, <1>9, <3>1, <3>2 DEF Untouched
  <2> QED
    BY <1>8, <2>1, <2>2, <2>3, <2>4, <2>5 DEF LoopsOK
\* What the card knows of the other advices stays true.
<1>15. ASSUME NEW n \in Advices, Untouched(n) PROVE n # l.of /\ Untouched(n)'
  <2>1. n # l.of
    BY <1>15 DEF Untouched
  <2> QED
    BY <1>5, <1>6, <1>9, <1>15, <2>1 DEF Untouched
<1>16. ASSUME NEW n \in Advices, n # l.of PROVE Now(n) = Did(n)
  BY <1>5, <1>16 DEF Did
<1>17. /\ \E m \in applies : m.visit = advice.visit
       <=> advice.applying
  BY DEF AdviceInv, CardOK
<1>18. advice.reading \in {0} \cup Advices /\ advice.result \in {0} \cup Advices
       /\ advice.applying \in BOOLEAN
  BY <1>2 DEF CardType
<1>19. advice'.applying <=> \E m \in applies' : m.visit = advice.visit
  <2>1. CASE l.visit # advice.visit
    <3>1. advice' = advice
      BY <1>8, <2>1 DEF ends
    <3> QED
      BY <1>6, <1>9, <1>10, <1>17, <2>1, <3>1
  <2>2. CASE l.visit = advice.visit /\ rest # {}
    <3>1. advice' = advice
      BY <1>8, <2>2 DEF ends
    <3> QED
      BY <1>6, <1>11, <1>17, <2>2, <3>1
  <2>3. CASE ends
    BY <1>4, <1>9, <1>12, <2>3 DEF ends
  <2> QED
    BY <2>1, <2>2, <2>3 DEF ends
<1>20. CardOK'
  <2>1. /\ visits' \in Nat /\ advice'.visit \in 0..visits'
        /\ advice'.visit = 0 => advice'.reading = 0 /\ advice'.result = 0
        /\ advice'.result <= advices'
    BY <1>8, <1>12 DEF AdviceInv, CardOK
  <2>2. (advice.reading # 0 =>
           advice.reading <= advices /\ Untouched(advice.reading) /\ advice.result = 0)'
    <3>1. advice.reading # 0 =>
            advice.reading <= advices /\ Untouched(advice.reading) /\ advice.result = 0
      BY DEF AdviceInv, CardOK
    <3>2. advice.reading # 0 => \A n : n = advice.reading => Untouched(n)'
      BY <1>15, <1>18, <3>1
    <3> QED
      BY <1>8, <1>12, <3>1, <3>2 DEF Untouched
  <2>3. (advice.result # 0 /\ ~advice.applying /\ advice.applied = 0 => Untouched(advice.result))'
    <3>1. CASE ends
      BY <1>3, <1>12, <3>1
    <3>2. CASE ~ends
      <4>1. advice' = advice
        BY <1>8, <3>2
      <4>2. advice.result # 0 /\ ~advice.applying /\ advice.applied = 0 =>
              \A n : n = advice.result => Untouched(n)'
        BY <1>15, <1>18 DEF AdviceInv, CardOK
      <4> QED
        BY <4>1, <4>2 DEF Untouched
    <3> QED
      BY <3>1, <3>2
  <2> QED
    BY <1>12, <1>19, <2>1, <2>2, <2>3 DEF CardOK
<1>21. CountOK'
  <2> SUFFICES ASSUME ~disturbed' PROVE CountOK'
    BY DEF CountOK
  <2>1. ~disturbed
    BY <1>1, Zenon
  <2>2. done
    BY <1>1, Zenon
  \* The block goes from what is left to what was added.
  <2>3. Now(l.of) = Did(l.of) \cup {b} /\ b \notin Did(l.of)
    BY <1>3, <1>4, <1>5, <2>2 DEF Did
  <2>4. /\ IsFiniteSet(Did(l.of)) /\ Cardinality(Did(l.of)) \in Nat
        /\ IsFiniteSet(l.left) /\ Cardinality(l.left) \in Nat
    <3>1. Did(l.of) \in SUBSET Blocks
      BY DEF Did
    <3> QED
      BY <1>3, <3>1, SomeBlocks, BlocksCount
  <2>5. /\ Cardinality(Now(l.of)) = Cardinality(Did(l.of)) + 1
        /\ Cardinality(rest) = Cardinality(l.left) - 1
    <3>1. Cardinality(Did(l.of) \cup {b}) = Cardinality(Did(l.of)) + 1
      BY <2>3, <2>4, FS_AddElement
    <3>2. Cardinality(l.left \ {b}) = Cardinality(l.left) - 1
      BY <2>4, FS_RemoveElement
    <3> QED
      BY <2>3, <3>1, <3>2
  <2>6. l.count = Cardinality(Did(l.of)) + Cardinality(l.left)
    BY <2>1 DEF AdviceInv, CountOK
  <2>7. Cardinality(Now(l.of)) + Cardinality(rest) = l.count
    BY <2>4, <2>5, <2>6
  <2>8. ASSUME NEW m \in applies' PROVE m.count = Cardinality(Now(m.of)) + Cardinality(m.left)
    <3>1. CASE m \in applies /\ m # l
      <4>1. m.of # l.of /\ m.of \in Advices
        BY <1>2, <1>4, <3>1 DEF LoopType
      <4>2. Now(m.of) = Did(m.of)
        BY <1>16, <2>8, <4>1
      <4> QED
        BY <2>1, <3>1, <4>2 DEF AdviceInv, CountOK
    <3>2. CASE m = less
      BY <1>6, <2>7, <3>2
    <3> QED
      BY <1>9, <3>1, <3>2
  <2>9. \A m \in applies' : m.visit = advice.visit => m.of = advice.result
    BY <1>6, <1>9, <2>1 DEF AdviceInv, CountOK
  <2>10. advice.reading # 0 => ~ends /\ ~advice.applying /\ advice.applied = 0
    BY <1>17, <2>1 DEF AdviceInv, CountOK, ends
  <2>11. CASE ends
    <3>1. l.of = advice.result /\ advice.result # 0
      BY <1>2, <1>3, <2>1, <2>11 DEF AdviceInv, CountOK, ends
    <3>2. rest = {}
      BY <2>11 DEF ends
    <3>3. \A m \in applies' : m.of # advice.result
      BY <1>4, <1>9, <3>1, <3>2
    <3>4. Cardinality(rest) = 0
      BY <3>2, FS_EmptySet
    <3>5. l.count = Cardinality(Now(l.of))
      BY <2>4, <2>5, <2>7, <3>4
    <3>6. ~advice'.applying /\ advice'.applied = l.count
      BY <1>12, <2>11
    <3>7. advice'.reading = 0
      BY <1>12, <2>10, <2>11
    <3>8. advice'.applied = Cardinality(Now(advice'.result))
      BY <1>12, <3>1, <3>5, <3>6
    <3> QED
      BY <1>12, <2>8, <2>9, <3>1, <3>3, <3>6, <3>7, <3>8 DEF CountOK, Did
  <2>12. CASE ~ends
    <3>1. advice' = advice
      BY <1>8, <2>12
    <3>2. ASSUME advice.applied > 0
          PROVE  /\ ~advice.applying /\ advice.result # 0 /\ (\A m \in applies' : m.of # advice.result)
                 /\ advice.applied = Cardinality(Now(advice.result))
      <4>1. /\ ~advice.applying /\ advice.result # 0 /\ (\A m \in applies : m.of # advice.result)
            /\ advice.applied = Cardinality(Did(advice.result))
        BY <2>1, <3>2 DEF AdviceInv, CountOK
      <4>2. l.of # advice.result /\ Now(advice.result) = Did(advice.result)
        BY <1>16, <1>18, <4>1
      <4> QED
        BY <1>6, <1>9, <4>1, <4>2
    <3> QED
      BY <2>8, <2>9, <2>10, <3>1, <3>2 DEF CountOK, Did
  <2> QED
    BY <2>11, <2>12
<1> QED
  BY <1>13, <1>14, <1>20, <1>21 DEF AdviceInv

LEMMA AdviceTrue == AdviceInv => AdviceIsAdded
BY DEF AdviceInv, LoopsOK, CountOK, AdviceIsAdded, Did

(***************************************************************************)
(* Least and greatest members: those of a finite set of integers exist.    *)
(***************************************************************************)
LEMMA SomeLeast ==
  ASSUME NEW S, IsFiniteSet(S), S \subseteq Int, S # {}
  PROVE  \E x \in S : \A y \in S : x <= y
<1> DEFINE Below(x) == {y \in S : y < x}
           R == StrictSubsetOrdering(S)
           T == {Below(x) : x \in S}
<1>1. IsWellFoundedOn(R, FiniteSubsetsOf(S))
  BY FS_StrictSubsetOrderingWellFounded
<1>2. T \subseteq FiniteSubsetsOf(S) /\ T # {}
  <2>1. FiniteSubsetsOf(S) = SUBSET S
    BY FS_FiniteSubsetsOfFinite
  <2>2. T \subseteq SUBSET S /\ T # {}
    OBVIOUS
  <2> QED
    BY <2>1, <2>2
<1> HIDE DEF R
<1>3. PICK t \in T : \A u \in T : ~(<<u, t>> \in R)
  BY <1>1, <1>2, WFMin
<1>4. PICK x \in S : t = Below(x)
  BY <1>3
<1>5. ASSUME NEW y \in S, y < x PROVE FALSE
  <2>1. Below(y) \in T /\ Below(y) \in SUBSET S /\ t \in SUBSET S
    BY <1>4
  <2>2. \A z \in S : z < y => z < x
    <3> SUFFICES ASSUME NEW z \in S, z < y PROVE z < x
      OBVIOUS
    <3> QED
      BY <1>5
  <2>6. Below(y) \subseteq t
    BY <1>4, <2>2
  <2>7. y \in t
    BY <1>4, <1>5
  <2>8. y \notin Below(y)
    <3>1. ~(y < y)
      OBVIOUS
    <3> QED
      BY <3>1
  <2>3. Below(y) \subseteq t /\ y \in t /\ y \notin Below(y)
    BY <2>6, <2>7, <2>8
  <2>4. Below(y) # t
    BY <2>3
  <2>5. <<Below(y), t>> \in R
    BY <2>1, <2>3, <2>4 DEF R, StrictSubsetOrdering
  <2> QED
    BY <1>3, <2>1, <2>5
<1> QED
  BY <1>5

LEMMA LeastOf ==
  ASSUME NEW S, IsFiniteSet(S), S \subseteq Int, S # {}
  PROVE  Min(S) \in S /\ \A y \in S : Min(S) <= y
BY SomeLeast DEF Min

\* The greatest is the least of the negative numbers.
LEMMA GreatestOf ==
  ASSUME NEW S, IsFiniteSet(S), S \subseteq Int, S # {}
  PROVE  Max(S) \in S /\ \A y \in S : Max(S) >= y
<1> DEFINE N == {-x : x \in S}
           f == [x \in S |-> -x]
<1>1. f \in Surjection(S, N)
  <2>1. f \in [S -> N]
    OBVIOUS
  <2>2. \A t \in N : \E x \in S : f[x] = t
    OBVIOUS
  <2> QED
    BY <2>1, <2>2 DEF Surjection
<1>2. IsFiniteSet(N)
  BY <1>1, FS_Surjection
<1>3. N \subseteq Int /\ N # {}
  <2>1. N \subseteq Int
    OBVIOUS
  <2>2. PICK x \in S : TRUE
    OBVIOUS
  <2>3. -x \in N
    BY <2>2
  <2> QED
    BY <2>1, <2>3
<1>4. PICK n \in N : \A m \in N : n <= m
  BY <1>2, <1>3, SomeLeast
<1>5. PICK x \in S : n = -x
  BY <1>4
<1>6. \A y \in S : x >= y
  <2> SUFFICES ASSUME NEW y \in S PROVE x >= y
    OBVIOUS
  <2>1. -x <= -y
    BY <1>4, <1>5
  <2> QED
    BY <2>1
<1> QED
  BY <1>6 DEF Max

LEMMA OneOfTwo ==
  ASSUME NEW a \in Int, NEW b \in Int
  PROVE  Min({a, b}) \in {a, b} /\ Max({a, b}) \in {a, b}
<1> DEFINE S == {a, b}
<1>1. IsFiniteSet({a} \cup {b})
  BY FS_Singleton, FS_AddElement
<1>2. S = {a} \cup {b} /\ S \subseteq Int /\ S # {}
  OBVIOUS
<1> HIDE DEF S
<1>3. IsFiniteSet(S)
  BY <1>1, <1>2
<1>4. Min(S) \in S
  BY <1>2, <1>3, LeastOf
<1>5. Max(S) \in S
  BY <1>2, <1>3, GreatestOf
<1> QED
  BY <1>4, <1>5 DEF S

\* The images of a finite set of blocks or numbers.
LEMMA FiniteImage ==
  ASSUME NEW S, IsFiniteSet(S), NEW f, f = [x \in S |-> f[x]]
  PROVE  IsFiniteSet({f[x] : x \in S})
<1> DEFINE T == {f[x] : x \in S}
<1>1. f \in Surjection(S, T)
  BY Zenon DEF Surjection
<1> QED
  BY <1>1, FS_Surjection

(***************************************************************************)
(* What a card draws.                                                      *)
(***************************************************************************)
\* expandToFullWeek: the seven days from Monday to Sunday around a day.
LEMMA WeekOfDay ==
  ASSUME NEW d \in Int
  PROVE  /\ WeekRange(d) = (7 * (d \div 7)) .. (7 * (d \div 7) + 6)
         /\ \A e \in Int : e \in WeekRange(d) <=> e \div 7 = d \div 7
         /\ d \in WeekRange(d)
<1>1. d = 7 * (d \div 7) + (d % 7) /\ d % 7 \in 0..6 /\ d \div 7 \in Int
  OBVIOUS
<1>2. (d + 1) % 7 = IF d % 7 = 6 THEN 0 ELSE (d % 7) + 1
  BY <1>1
<1>3. DaysToMonday(d) = d % 7
  BY <1>1, <1>2 DEF DaysToMonday, DayOfWeek
<1>4. WeekRange(d) = (7 * (d \div 7)) .. (7 * (d \div 7) + 6)
  BY <1>1, <1>3 DEF WeekRange
<1>5. \A e \in Int : e \in (7 * (d \div 7)) .. (7 * (d \div 7) + 6) <=> e \div 7 = d \div 7
  <2> SUFFICES ASSUME NEW e \in Int
               PROVE  e \in (7 * (d \div 7)) .. (7 * (d \div 7) + 6) <=> e \div 7 = d \div 7
    OBVIOUS
  <2>1. e = 7 * (e \div 7) + (e % 7) /\ e % 7 \in 0..6 /\ e \div 7 \in Int
    OBVIOUS
  <2> QED
    BY <1>1, <2>1
<1> QED
  BY <1>4, <1>5

\* The first and the last day of the tabs outside the current week.
LEMMA WeekEnds ==
  ASSUME NEW d \in Int
  PROVE  /\ Min(WeekRange(d)) \in Int /\ Min(WeekRange(d)) <= d
         /\ Max(WeekRange(d)) \in Int /\ d <= Max(WeekRange(d))
<1>1. d \in WeekRange(d) /\ WeekRange(d) \subseteq Int /\ IsFiniteSet(WeekRange(d))
  <2>1. 7 * (d \div 7) \in Int /\ 7 * (d \div 7) + 6 \in Int
    OBVIOUS
  <2> QED
    BY <2>1, WeekOfDay, FS_Interval
<1>2. Min(WeekRange(d)) \in WeekRange(d) /\ Min(WeekRange(d)) <= d
  BY <1>1, LeastOf
<1>3. Max(WeekRange(d)) \in WeekRange(d) /\ Max(WeekRange(d)) >= d
  BY <1>1, GreatestOf
<1> QED
  BY <1>1, <1>2, <1>3

\* A number of a set against its least and its greatest.
Numbers(S) == IsFiniteSet(S) /\ S \subseteq Int

LEMMA AtLeast ==
  ASSUME NEW S, Numbers(S), NEW x \in S
  PROVE  Min(S) \in Int /\ Min(S) <= x
<1>1. Min(S) \in S /\ \A y \in S : Min(S) <= y
  BY LeastOf DEF Numbers
<1> QED
  BY <1>1 DEF Numbers

LEMMA AtMost ==
  ASSUME NEW S, Numbers(S), NEW x \in S
  PROVE  Max(S) \in Int /\ x <= Max(S)
<1>1. Max(S) \in S /\ \A y \in S : Max(S) >= y
  BY GreatestOf DEF Numbers
<1> QED
  BY <1>1 DEF Numbers

\* The hour before the first block's, and the hour after the last block's.
LEMMA FirstHour ==
  ASSUME NEW m \in Int, NEW x \in Int, 0 <= x, m <= x \div 60
  PROVE  Max({0, m - 1}) * 60 <= x
<1> DEFINE c == m - 1
           y == Max({0, c})
<1>1. c \in Int /\ c * 60 <= x
  OBVIOUS
<1> HIDE DEF c
<1>2. y \in {0, c}
  BY <1>1, OneOfTwo
<1> HIDE DEF y
<1>3. y * 60 <= x
  BY <1>1, <1>2
<1> QED
  BY <1>3 DEF y, c

LEMMA LastHour ==
  ASSUME NEW n \in Int, NEW x \in Int, x <= 1440, (x + 59) \div 60 <= n
  PROVE  x <= Min({24, n + 1}) * 60
<1> DEFINE c == n + 1
           y == Min({24, c})
<1>1. c \in Int /\ x <= c * 60
  OBVIOUS
<1> HIDE DEF c
<1>2. y \in {24, c}
  BY <1>1, OneOfTwo
<1> HIDE DEF y
<1>3. x <= y * 60
  BY <1>1, <1>2
<1> QED
  BY <1>3 DEF y, c

\* The hours in which blocks start and end, and the hours drawn of them.
Starts(blocks) == {24} \cup {b.start \div 60 : b \in blocks}
Ends(blocks) == {0} \cup {(b.end + 59) \div 60 : b \in blocks}

LEMMA HoursAre ==
  ASSUME NEW blocks, blocks # {}
  PROVE  /\ DrawnHours(blocks).from = Max({0, Min(Starts(blocks)) - 1})
         /\ DrawnHours(blocks).to = Min({24, Max(Ends(blocks)) + 1})
<1>1. DrawnHours(blocks) = [from |-> Max({0, Min(Starts(blocks)) - 1}),
                            to |-> Min({24, Max(Ends(blocks)) + 1})]
  BY Zenon DEF DrawnHours, Starts, Ends
<1> QED
  BY <1>1

LEMMA StartsAre ==
  ASSUME NEW blocks, IsFiniteSet(blocks), \A b \in blocks : b.start \in Int
  PROVE  Numbers(Starts(blocks)) /\ \A b \in blocks : b.start \div 60 \in Starts(blocks)
<1> DEFINE f == [b \in blocks |-> b.start \div 60]
<1>1. IsFiniteSet({f[b] : b \in blocks})
  <2>1. f = [b \in blocks |-> f[b]]
    OBVIOUS
  <2> HIDE DEF f
  <2> QED
    BY <2>1, FiniteImage
<1>2. Starts(blocks) = {f[b] : b \in blocks} \cup {24}
  BY DEF Starts
<1>3. IsFiniteSet(Starts(blocks))
  BY <1>1, <1>2, FS_AddElement
<1>4. Starts(blocks) \subseteq Int /\ \A b \in blocks : b.start \div 60 \in Starts(blocks)
  BY DEF Starts
<1> QED
  BY <1>3, <1>4 DEF Numbers

LEMMA EndsAre ==
  ASSUME NEW blocks, IsFiniteSet(blocks), \A b \in blocks : b.end \in Int
  PROVE  Numbers(Ends(blocks)) /\ \A b \in blocks : (b.end + 59) \div 60 \in Ends(blocks)
<1> DEFINE f == [b \in blocks |-> (b.end + 59) \div 60]
<1>1. IsFiniteSet({f[b] : b \in blocks})
  <2>1. f = [b \in blocks |-> f[b]]
    OBVIOUS
  <2> HIDE DEF f
  <2> QED
    BY <2>1, FiniteImage
<1>2. Ends(blocks) = {f[b] : b \in blocks} \cup {0}
  BY DEF Ends
<1>3. IsFiniteSet(Ends(blocks))
  BY <1>1, <1>2, FS_AddElement
<1>4. Ends(blocks) \subseteq Int /\ \A b \in blocks : (b.end + 59) \div 60 \in Ends(blocks)
  BY DEF Ends
<1> QED
  BY <1>3, <1>4 DEF Numbers

\* The hours drawn contain every block of a day.
LEMMA HoursOfBlock ==
  ASSUME NEW blocks, IsFiniteSet(blocks), \A b \in blocks : b.start \in Int /\ b.end \in Int,
         NEW a \in blocks, 0 <= a.start, a.end <= 1440
  PROVE  DrawnHours(blocks).from * 60 <= a.start /\ a.end <= DrawnHours(blocks).to * 60
<1>1. Numbers(Starts(blocks)) /\ a.start \div 60 \in Starts(blocks)
  BY StartsAre
<1>2. Numbers(Ends(blocks)) /\ (a.end + 59) \div 60 \in Ends(blocks)
  BY EndsAre
<1>3. Min(Starts(blocks)) \in Int /\ Min(Starts(blocks)) <= a.start \div 60
  BY <1>1, AtLeast
<1>4. Max(Ends(blocks)) \in Int /\ (a.end + 59) \div 60 <= Max(Ends(blocks))
  BY <1>2, AtMost
<1>5. a.start \in Int /\ a.end \in Int
  OBVIOUS
<1>6. Max({0, Min(Starts(blocks)) - 1}) * 60 <= a.start
  BY <1>3, <1>5, FirstHour
<1>7. a.end <= Min({24, Max(Ends(blocks)) + 1}) * 60
  BY <1>4, <1>5, LastHour
<1> QED
  BY <1>6, <1>7, HoursAre

\* The days of a proposal are finitely many numbers.
LEMMA DatesOf ==
  ASSUME NEW A \in Proposals
  PROVE  /\ IsFiniteSet(ProposalDates(A)) /\ ProposalDates(A) \subseteq Int
         /\ ProposalDates(A) \cap WeekRange(Today) = ProposalDates(A) \cap ThisWeek
<1> DEFINE f == [b \in A |-> b.day]
<1>1. IsFiniteSet(A) /\ \A b \in A : b.day # None => b.day \in Int
  BY ProposalsAssumption
<1>2. IsFiniteSet({f[b] : b \in A})
  <2>1. f = [b \in A |-> f[b]]
    OBVIOUS
  <2> HIDE DEF f
  <2> QED
    BY <1>1, <2>1, FiniteImage
<1>3. {f[b] : b \in A} = {b.day : b \in A}
  OBVIOUS
<1>4. IsFiniteSet(ProposalDates(A))
  BY <1>2, <1>3, FS_RemoveElement DEF ProposalDates
<1>5. ProposalDates(A) \subseteq Int
  BY <1>1 DEF ProposalDates
<1>6. ProposalDates(A) \subseteq ProposalDates(UNION Proposals)
  BY DEF ProposalDates
<1>7. \A d \in ProposalDates(A) : d \in WeekRange(Today) <=> d \div 7 = Today \div 7
  BY <1>5, TodayAssumption, WeekOfDay
<1>8. \A d \in ProposalDates(A) : d \in ThisWeek <=> d \div 7 = Today \div 7
  BY <1>6 DEF ThisWeek
<1> QED
  BY <1>4, <1>5, <1>7, <1>8

\* A proposed block has a tab, unless it is outside the current week and the
\* tabs are those of that week.
LEMMA DayHasTab ==
  ASSUME NEW A \in Proposals, NEW a \in A, a.day # None
  PROVE  a.day \in SortedDates(A) \/ (a.day \notin ThisWeek /\ MostlyThisWeek(A))
<1> DEFINE dates == ProposalDates(A)
           most == 2 * Cardinality(dates \cap WeekRange(Today)) >= Cardinality(dates)
<1>1. a.day \in dates /\ dates # {}
  BY DEF ProposalDates
<1>2. IsFiniteSet(dates) /\ dates \subseteq Int /\ dates \cap WeekRange(Today) = dates \cap ThisWeek
  BY DatesOf
<1>3. most => SortedDates(A) = WeekRange(Today)
  BY <1>1, Zenon DEF SortedDates
<1>4. ~most => SortedDates(A) = Min(WeekRange(Min(dates))) .. Max(WeekRange(Max(dates)))
  BY <1>1, Zenon DEF SortedDates
<1>5. most => MostlyThisWeek(A)
  BY <1>2 DEF MostlyThisWeek
<1> HIDE DEF most, dates
<1>6. CASE most
  <2>1. CASE a.day \in WeekRange(Today)
    BY <1>3, <1>6, <2>1
  <2>2. CASE a.day \notin WeekRange(Today)
    BY <1>1, <1>2, <1>5, <1>6, <2>2
  <2> QED
    BY <2>1, <2>2
<1>7. CASE ~most
  <2>1. Min(dates) \in Int /\ Min(dates) <= a.day
    BY <1>1, <1>2, LeastOf
  <2>2. Max(dates) \in Int /\ Max(dates) >= a.day
    BY <1>1, <1>2, GreatestOf
  <2>3. Min(WeekRange(Min(dates))) \in Int /\ Min(WeekRange(Min(dates))) <= Min(dates)
    BY <2>1, WeekEnds
  <2>4. Max(WeekRange(Max(dates))) \in Int /\ Max(dates) <= Max(WeekRange(Max(dates)))
    BY <2>2, WeekEnds
  <2>5. a.day \in Int
    BY <1>1, <1>2
  <2>6. a.day \in Min(WeekRange(Min(dates))) .. Max(WeekRange(Max(dates)))
    BY <2>1, <2>2, <2>3, <2>4, <2>5
  <2> QED
    BY <1>4, <1>7, <2>6
<1> QED
  BY <1>6, <1>7

\* And then it is within the hours that are drawn.
LEMMA CardShows ==
  ASSUME NEW A \in Proposals, NEW a \in A
  PROVE  IsDrawn(a, A, Existing) \/ (a.day \notin ThisWeek /\ MostlyThisWeek(A))
<1>1. CASE a.day = None
  BY <1>1 DEF IsDrawn
<1>2. CASE a.day # None
  <2> DEFINE blocks == OnDay(A, a.day) \cup OnDay(Existing, a.day)
  <2>1. IsFiniteSet(blocks) /\ a \in blocks
    <3>1. IsFiniteSet(A) /\ IsFiniteSet(Existing)
      BY ProposalsAssumption
    <3>2. OnDay(A, a.day) \in SUBSET A /\ OnDay(Existing, a.day) \in SUBSET Existing
      BY DEF OnDay
    <3>3. IsFiniteSet(OnDay(A, a.day)) /\ IsFiniteSet(OnDay(Existing, a.day))
      BY <3>1, <3>2, FS_Subset
    <3>4. IsFiniteSet(blocks)
      BY <3>3, FS_Union
    <3> QED
      BY <3>4 DEF OnDay
  <2>2. \A b \in blocks : b.start \in Int /\ b.end \in Int
    BY <1>2, ProposalsAssumption DEF OnDay
  <2>3. 0 <= a.start /\ a.end <= 1440
    BY <1>2, ProposalsAssumption
  <2> HIDE DEF blocks
  <2>4. DrawnHours(blocks).from * 60 <= a.start /\ a.end <= DrawnHours(blocks).to * 60
    BY <2>1, <2>2, <2>3, HoursOfBlock
  <2>5. a.day \in SortedDates(A) => IsDrawn(a, A, Existing)
    BY <2>4 DEF IsDrawn, blocks
  <2> QED
    BY <1>2, <2>5, DayHasTab
<1> QED
  BY <1>1, <1>2

(***************************************************************************)
(* The chat panel.                                                         *)
(***************************************************************************)
EntryType == {e \in Entries : e.checked \subseteq e.actions}
LogType == Seq(EntryType)
PanelType ==
  [open : BOOLEAN, listing : BOOLEAN, viewing : BOOLEAN, loading : BOOLEAN, rated : BOOLEAN,
   rating : BOOLEAN, asked : BOOLEAN, conv : Convs \cup {None}, log : LogType,
   busy : BOOLEAN, pending : BOOLEAN, current : {0} \cup CallIds]
Kinds == {"message", "approve", "rate", "list", "load"}
Stages == {"sent", "calling", "answered", "proposed", "closing", "told", "over"}
ToolSets == SUBSET (1..MaxTools)
CallType ==
  {NoCall} \cup
  {c \in [kind : Kinds, of : Convs \cup {None}, stage : Stages, tools : ToolSets, waiting : ToolSets] :
     c.kind # "list" => c.of \in Convs}
CallsType == [CallIds -> CallType]
StateType == [p : PanelType, cs : CallsType, mixed : BOOLEAN, idle : BOOLEAN]

\* The conversations of a log, and all that the panel shows, reads or goes on with.
Ofs(log) == {log[i].of : i \in DOMAIN log}
InView(p, cs) == ({p.conv} \ {None}) \cup Ofs(p.log) \cup {cs[r].of : r \in Reading(cs)}

\* Why the log is one conversation: what is being read belongs to it too, as
\* does a rating, and while it has no name its first answer is being read.
Linked(p, cs) ==
  /\ \A c, d \in InView(p, cs) : c = d
  /\ \A r \in Underway(cs, {"rate"}) : cs[r].of = p.conv
  /\ p.conv = None => (Ofs(p.log) # {} => Reading(cs) # {})
  /\ p.conv = None => \A r \in Reading(cs) : cs[r].stage # "told"
  /\ p.viewing => Reading(cs) = {} /\ ~p.pending /\ Ofs(p.log) # {}
  /\ p.rated /\ ~p.viewing => \E r \in CallIds : cs[r].kind = "rate" /\ cs[r].of = p.conv

\* A step before the question is looked at, and a state of the panel.
Fine(s) ==
  /\ s \in StateType
  /\ ~s.mixed => Linked(s.p, s.cs)
  /\ s.p.asked => CallIds \ Started(s.cs) # {}
Good(s) == Fine(s) /\ (s.p.asked /\ s.p.open /\ ~s.p.busy => s.idle)

ChatInv == Good(State)

\* What a log's conversations are after a message, and when messages change
\* but not whose they are.
LEMMA OfsAppend ==
  ASSUME NEW log \in LogType, NEW e \in EntryType
  PROVE  /\ Append(log, e) \in LogType
         /\ Ofs(Append(log, e)) = Ofs(log) \cup {e.of}
<1>1. Append(log, e) \in LogType
  BY AppendProperties DEF LogType
<1>2. DOMAIN log = 1..Len(log) /\ Len(log) \in Nat
  BY LenProperties DEF LogType
<1>3. DOMAIN Append(log, e) = 1..(Len(log) + 1)
  BY <1>1, AppendProperties, LenProperties DEF LogType
<1>4. \A i \in 1..Len(log) : Append(log, e)[i] = log[i]
  BY AppendProperties DEF LogType
<1>5. Append(log, e)[Len(log) + 1] = e
  BY AppendProperties DEF LogType
<1> DEFINE new == Append(log, e)
<1> HIDE DEF new
<1>6. ASSUME NEW i \in DOMAIN new PROVE new[i].of \in Ofs(log) \cup {e.of}
  <2>1. i \in 1..Len(log) \/ i = Len(log) + 1
    BY <1>2, <1>3, <1>6 DEF new
  <2>2. CASE i \in 1..Len(log)
    BY <1>2, <1>4, <2>2 DEF new, Ofs
  <2>3. CASE i = Len(log) + 1
    BY <1>5, <2>3 DEF new
  <2> QED
    BY <2>1, <2>2, <2>3
<1>7. ASSUME NEW i \in DOMAIN log PROVE log[i].of \in Ofs(new)
  <2>1. i \in DOMAIN new /\ new[i] = log[i]
    BY <1>2, <1>3, <1>4 DEF new
  <2> QED
    BY <2>1 DEF Ofs
<1>8. e.of \in Ofs(new)
  <2>1. Len(log) + 1 \in DOMAIN new /\ new[Len(log) + 1] = e
    BY <1>2, <1>3, <1>5 DEF new
  <2> QED
    BY <2>1 DEF Ofs
<1>9. Ofs(new) = Ofs(log) \cup {e.of}
  BY <1>6, <1>7, <1>8 DEF Ofs
<1> QED
  BY <1>1, <1>9 DEF new

LEMMA OfsSame ==
  ASSUME NEW log \in LogType, NEW new, DOMAIN new = DOMAIN log,
         \A i \in DOMAIN log : new[i] \in EntryType /\ new[i].of = log[i].of,
         new = [i \in DOMAIN log |-> new[i]]
  PROVE  new \in LogType /\ Ofs(new) = Ofs(log)
<1>1. DOMAIN log = 1..Len(log) /\ Len(log) \in Nat
  BY LenProperties DEF LogType
<1>2. new \in [1..Len(log) -> EntryType]
  BY <1>1
<1>3. new \in LogType
  BY <1>1, <1>2 DEF LogType
<1> QED
  BY <1>3 DEF Ofs

LEMMA OfsEmpty ==
  /\ <<>> \in LogType /\ Ofs(<<>>) = {}
  /\ \A log \in LogType : Ofs(log) = {} <=> log = <<>>
<1>1. <<>> \in LogType /\ Ofs(<<>>) = {}
  BY EmptySeq DEF LogType, Ofs
<1>2. ASSUME NEW log \in LogType, Ofs(log) = {} PROVE log = <<>>
  <2>1. DOMAIN log = 1..Len(log) /\ Len(log) \in Nat
    BY LenProperties DEF LogType
  <2>2. DOMAIN log = {}
    BY <1>2 DEF Ofs
  <2>3. Len(log) = 0
    BY <2>1, <2>2
  <2> QED
    BY <2>3, EmptySeq DEF LogType
<1> QED
  BY <1>1, <1>2

LEMMA OfsPair ==
  ASSUME NEW e \in EntryType, NEW f \in EntryType, e.of = f.of
  PROVE  <<e, f>> \in LogType /\ Ofs(<<e, f>>) = {e.of}
BY DEF LogType, Ofs

LEMMA EntryIsOne ==
  ASSUME NEW c \in Convs, NEW k \in {"user", "text"}
  PROVE  Entry(k, c) \in EntryType /\ Entry(k, c).of = c
<1>1. {} \subseteq {} /\ {} \in SUBSET UNION Proposals /\ 0 \in 0..MaxTools
  BY ChatAssumption
<1> QED
  BY <1>1 DEF Entry, EntryType, Entries

-----------------------------------------------------------------------------
\* The next request has a number that no request has.
LEMMA NextCall ==
  ASSUME NEW cs, CallIds \ Started(cs) # {}
  PROVE  Min(CallIds \ Started(cs)) \in CallIds \ Started(cs)
<1>1. IsFiniteSet(CallIds)
  BY ChatAssumption, FS_Interval DEF CallIds
<1>2. IsFiniteSet(CallIds \ Started(cs))
  BY <1>1, FS_Difference
<1>3. CallIds \ Started(cs) \subseteq Int
  BY DEF CallIds
<1> QED
  BY <1>2, <1>3, LeastOf

\* A request that was made, and one that goes on.
LEMMA CallsMade ==
  ASSUME NEW cs \in CallsType, NEW r \in CallIds \ Started(cs),
         NEW k \in Kinds, NEW c \in Convs \cup {None}, k # "list" => c \in Convs
  PROVE  LET new == [cs EXCEPT ![r] = NewCall(k, c)]
         IN  /\ new \in CallsType
             /\ Started(new) = Started(cs) \cup {r}
             /\ new[r] = NewCall(k, c)
             /\ \A q \in CallIds : q # r => new[q] = cs[q]
             /\ cs[r].kind = "none"
             /\ \A ks : Underway(new, ks) = Underway(cs, ks) \cup (IF k \in ks THEN {r} ELSE {})
<1> DEFINE new == [cs EXCEPT ![r] = NewCall(k, c)]
<1>1. r \in CallIds \ Started(cs)
  OBVIOUS
<1>2. NewCall(k, c) \in CallType
  BY DEF CallType, Stages, NewCall, ToolSets
<1>3. new \in CallsType
  BY <1>1, <1>2 DEF CallsType
<1>4. new[r] = NewCall(k, c) /\ \A q \in CallIds : q # r => new[q] = cs[q]
  BY <1>1 DEF CallsType
<1>5. cs[r].kind = "none"
  <2>1. cs[r].stage = "unused" /\ cs[r] \in CallType
    BY <1>1 DEF CallsType, Started
  <2> QED
    BY <2>1 DEF CallType, NoCall, Stages
<1> HIDE DEF new
<1>6. Started(new) = Started(cs) \cup {r}
  BY <1>1, <1>4 DEF Started, NewCall
<1>7. ASSUME NEW ks PROVE Underway(new, ks) = Underway(cs, ks) \cup (IF k \in ks THEN {r} ELSE {})
  <2>1. r \notin Underway(cs, ks)
    BY <1>1 DEF Underway
  <2>2. r \in Underway(new, ks) <=> k \in ks
    BY <1>4, <1>6 DEF Underway, NewCall
  <2>3. ASSUME NEW q, q # r PROVE q \in Underway(new, ks) <=> q \in Underway(cs, ks)
    <3>1. q \in Started(new) <=> q \in Started(cs)
      BY <1>6, <2>3
    <3>2. q \in Started(cs) => new[q] = cs[q]
      BY <1>4, <2>3 DEF Started
    <3> QED
      BY <3>1, <3>2 DEF Underway
  <2>4. \A q : q \in Underway(new, ks) => q = r \/ q \in Underway(cs, ks)
    BY <2>3
  <2>5. Underway(cs, ks) \subseteq Underway(new, ks)
    BY <2>1, <2>3
  <2> QED
    BY <2>2, <2>4, <2>5
<1> QED
  BY <1>3, <1>4, <1>5, <1>6, <1>7 DEF new

Staged(cs, new, r, x) ==
  /\ Started(new) = Started(cs)
  /\ new[r].stage = x
  /\ \A q \in CallIds : /\ new[q].kind = cs[q].kind /\ new[q].of = cs[q].of
                        /\ q # r => new[q].stage = cs[q].stage
  /\ \A ks : Underway(new, ks) = IF x = "over" THEN Underway(cs, ks) \ {r} ELSE Underway(cs, ks)

LEMMA CallsStaged ==
  ASSUME NEW cs \in CallsType, NEW r \in Started(cs), NEW x \in Stages, cs[r].stage # "over"
  PROVE  [cs EXCEPT ![r].stage = x] \in CallsType /\ Staged(cs, [cs EXCEPT ![r].stage = x], r, x)
<1> DEFINE new == [cs EXCEPT ![r].stage = x]
<1>1. r \in CallIds /\ cs[r] \in CallType /\ cs[r].stage # "unused"
  BY DEF Started, CallsType
<1>2. [cs[r] EXCEPT !.stage = x] \in CallType
  BY <1>1 DEF CallType, NoCall
<1>3. new \in CallsType
  BY <1>1, <1>2 DEF CallsType
<1>4. new[r] = [cs[r] EXCEPT !.stage = x] /\ \A q \in CallIds : q # r => new[q] = cs[q]
  BY <1>1 DEF CallsType
<1> HIDE DEF new
<1>5. new[r].stage = x /\ new[r].kind = cs[r].kind /\ new[r].of = cs[r].of
  BY <1>1, <1>4 DEF CallType, NoCall
<1>6. \A q \in CallIds : /\ new[q].kind = cs[q].kind /\ new[q].of = cs[q].of
                         /\ q # r => new[q].stage = cs[q].stage
  BY <1>4, <1>5
<1>7. Started(new) = Started(cs)
  BY <1>1, <1>5, <1>6 DEF Started, Stages
<1>8. ASSUME NEW ks
      PROVE  Underway(new, ks) = IF x = "over" THEN Underway(cs, ks) \ {r} ELSE Underway(cs, ks)
  <2>1. \A q \in Started(cs) : q \in CallIds
    BY DEF Started
  <2>2. ASSUME NEW q, q # r PROVE q \in Underway(new, ks) <=> q \in Underway(cs, ks)
    BY <1>6, <1>7, <2>1, <2>2 DEF Underway
  <2>3. r \in Underway(new, ks) <=> cs[r].kind \in ks /\ x # "over"
    BY <1>1, <1>5, <1>7 DEF Underway
  <2>4. r \in Underway(cs, ks) <=> cs[r].kind \in ks
    BY <1>1 DEF Underway
  <2>5. CASE x = "over"
    BY <2>2, <2>3, <2>5
  <2>6. CASE x # "over"
    BY <2>2, <2>3, <2>4, <2>6
  <2> QED
    BY <2>5, <2>6
<1> QED
  BY <1>3, <1>5, <1>6, <1>7, <1>8 DEF new, Staged

\* The requests that reset aborts.
LEMMA CallsAborted ==
  ASSUME NEW cs \in CallsType, NEW A \in SUBSET Reading(cs)
  PROVE  LET new == [r \in CallIds |-> IF r \in A THEN [cs[r] EXCEPT !.stage = "over"] ELSE cs[r]]
         IN  /\ new \in CallsType
             /\ Started(new) = Started(cs)
             /\ \A q \in CallIds : new[q].kind = cs[q].kind /\ new[q].of = cs[q].of
             /\ \A ks : Underway(new, ks) = Underway(cs, ks) \ A
<1> DEFINE new == [r \in CallIds |-> IF r \in A THEN [cs[r] EXCEPT !.stage = "over"] ELSE cs[r]]
<1>1. \A q \in CallIds : cs[q] \in CallType
  BY DEF CallsType
<1>2. \A q \in A : q \in CallIds /\ cs[q].stage # "unused"
  BY DEF Reading, Underway, Started
<1>3. \A q \in A : [cs[q] EXCEPT !.stage = "over"] \in CallType
  BY <1>1, <1>2 DEF CallType, NoCall, Stages
<1>4. new \in CallsType
  BY <1>1, <1>3 DEF CallsType
<1>5. \A q \in A : new[q] = [cs[q] EXCEPT !.stage = "over"]
  BY <1>2
<1>6. \A q \in CallIds \ A : new[q] = cs[q]
  OBVIOUS
<1> HIDE DEF new
<1>7. \A q \in A : new[q].stage = "over" /\ new[q].kind = cs[q].kind /\ new[q].of = cs[q].of
  BY <1>1, <1>2, <1>5 DEF CallType, NoCall
<1>8. \A q \in CallIds : new[q].kind = cs[q].kind /\ new[q].of = cs[q].of
  BY <1>6, <1>7
<1>9. Started(new) = Started(cs)
  BY <1>2, <1>6, <1>7 DEF Started
<1>10. ASSUME NEW ks PROVE Underway(new, ks) = Underway(cs, ks) \ A
  <2>1. \A q \in Started(cs) : q \in CallIds
    BY DEF Started
  <2>2. \A q \in A : q \notin Underway(new, ks)
    BY <1>7 DEF Underway
  <2>3. \A q : q \notin A => (q \in Underway(new, ks) <=> q \in Underway(cs, ks))
    BY <1>6, <1>9, <2>1 DEF Underway
  <2> QED
    BY <2>2, <2>3
<1> QED
  BY <1>4, <1>8, <1>9, <1>10 DEF new

\* What a message does to the state.
LEMMA SayIs ==
  ASSUME NEW s \in StateType, NEW e \in EntryType
  PROVE  /\ Say(s, e) \in StateType
         /\ Say(s, e) = [s EXCEPT !.p = [s.p EXCEPT !.log = Append(s.p.log, e)]]
<1>1. s.p \in PanelType /\ s.p.log \in LogType
  BY DEF StateType, PanelType
<1>2. Append(s.p.log, e) \in LogType
  BY <1>1, OfsAppend
<1>3. Say(s, e) = [s EXCEPT !.p = [s.p EXCEPT !.log = Append(s.p.log, e)]]
  BY DEF Say, StateType
<1>4. [s.p EXCEPT !.log = Append(s.p.log, e)] \in PanelType
  BY <1>1, <1>2 DEF PanelType
<1> QED
  BY <1>3, <1>4 DEF StateType

LEMMA SaidIs ==
  ASSUME NEW s \in StateType, NEW e \in EntryType, NEW q, q = [s.p EXCEPT !.log = Append(s.p.log, e)]
  PROVE  Say(s, e) = [p |-> q, cs |-> s.cs, mixed |-> s.mixed, idle |-> s.idle]
<1>1. Say(s, e) = [s EXCEPT !.p = q]
  BY SayIs
<1> QED
  BY <1>1 DEF StateType

\* sendMessage.
LEMMA SentIs ==
  ASSUME NEW s \in StateType, CallIds \ Started(s.cs) # {}
  PROVE  LET r == Min(CallIds \ Started(s.cs))
             c == IF s.p.conv = None THEN r ELSE s.p.conv
         IN  /\ Sent(s) \in StateType
             /\ Sent(s).p = [s.p EXCEPT !.log = Append(s.p.log, Entry("user", c)),
                                        !.busy = TRUE, !.current = r]
             /\ Sent(s).cs = [s.cs EXCEPT ![r] = NewCall("message", c)]
             /\ Sent(s).mixed <=> s.mixed \/ Underway(s.cs, Streams \cup {"load"}) # {}
             /\ Sent(s).idle = s.idle
             /\ c \in Convs
<1> DEFINE r == Min(CallIds \ Started(s.cs))
           c == IF s.p.conv = None THEN r ELSE s.p.conv
           t == Say(s, Entry("user", c))
           m == s.mixed \/ Underway(s.cs, Streams \cup {"load"}) # {}
           cs == [s.cs EXCEPT ![r] = NewCall("message", c)]
           p == [s.p EXCEPT !.log = Append(s.p.log, Entry("user", c)), !.busy = TRUE, !.current = r]
<1>1. s.p \in PanelType /\ s.cs \in CallsType /\ s.p.conv \in Convs \cup {None} /\ s.mixed \in BOOLEAN
  BY DEF StateType, PanelType
<1>2. "message" \in Kinds /\ "message" # "list"
  BY DEF Kinds
<1>3. r \in CallIds \ Started(s.cs)
  BY NextCall
<1>4. c \in Convs
  BY <1>1, <1>3 DEF Convs
<1>5. cs \in CallsType
  <2> HIDE DEF r, c
  <2>1. NewCall("message", c) \in CallType
    BY <1>4 DEF CallType, Kinds, Stages, NewCall, ToolSets
  <2> QED
    BY <1>1, <1>3, <2>1 DEF CallsType
<1>6. Entry("user", c) \in EntryType
  BY <1>4, EntryIsOne
<1>7. t \in StateType /\ t = [s EXCEPT !.p = [s.p EXCEPT !.log = Append(s.p.log, Entry("user", c))]]
  BY <1>6, SayIs
<1>8. t.cs = s.cs /\ t.p = [s.p EXCEPT !.log = Append(s.p.log, Entry("user", c))]
      /\ t.mixed = s.mixed /\ t.idle = s.idle
  BY <1>7 DEF StateType
<1>9. Sent(s) = [Called(t, "message", c) EXCEPT !.p.busy = TRUE, !.p.current = r,
                   !.mixed = @ \/ Underway(s.cs, Streams \cup {"load"}) # {}]
  BY DEF Sent
<1> HIDE DEF t
<1>10. Called(t, "message", c) = [t EXCEPT !.cs = cs]
  BY <1>7, <1>8 DEF Called, StateType
<1>11. [t EXCEPT !.cs = cs] \in StateType /\ [t EXCEPT !.cs = cs].p = t.p
       /\ [t EXCEPT !.cs = cs].cs = cs /\ [t EXCEPT !.cs = cs].mixed = s.mixed
       /\ [t EXCEPT !.cs = cs].idle = s.idle
  BY <1>5, <1>7, <1>8 DEF StateType
<1> DEFINE u == [t EXCEPT !.cs = cs]
<1> HIDE DEF u, cs, c, r
<1>12. Sent(s) = [u EXCEPT !.p = [[t.p EXCEPT !.busy = TRUE] EXCEPT !.current = r], !.mixed = m]
  BY <1>9, <1>10, <1>11 DEF StateType, u
<1>13. [[t.p EXCEPT !.busy = TRUE] EXCEPT !.current = r] = p
  BY <1>8, <1>1 DEF PanelType
<1>14. p \in PanelType
  <2>1. t.p \in PanelType
    BY <1>7 DEF StateType
  <2> QED
    BY <1>3, <1>13, <2>1 DEF PanelType
<1>15. m \in BOOLEAN
  BY <1>1
<1> HIDE DEF m, p
<1>16. Sent(s) = [u EXCEPT !.p = p, !.mixed = m]
  BY <1>12, <1>13
<1>17. Sent(s) \in StateType /\ Sent(s).p = p /\ Sent(s).cs = cs /\ Sent(s).mixed = m /\ Sent(s).idle = s.idle
  BY <1>11, <1>14, <1>15, <1>16 DEF StateType, u
<1>18. Sent(s).mixed <=> s.mixed \/ Underway(s.cs, Streams \cup {"load"}) # {}
  BY <1>17, Zenon DEF m
<1> QED
  BY <1>4, <1>17, <1>18 DEF c, r, p, cs

LEMMA SentFine ==
  ASSUME NEW s, Fine(s), CallIds \ Started(s.cs) # {},
         s.p.asked => \A r \in CallIds \ Started(s.cs) : (CallIds \ Started(s.cs)) \ {r} # {},
         s.mixed \/ ~s.p.viewing
  PROVE  /\ Fine(Sent(s))
         /\ Sent(s).p.busy /\ Sent(s).p.open = s.p.open /\ Sent(s).p.asked = s.p.asked
         /\ Sent(s).idle = s.idle
<1> DEFINE r == Min(CallIds \ Started(s.cs))
           c == IF s.p.conv = None THEN r ELSE s.p.conv
           t == Sent(s)
           K == Streams \cup {"load"}
<1>1. s \in StateType
  BY DEF Fine
<1>2. /\ t \in StateType
      /\ t.p = [s.p EXCEPT !.log = Append(s.p.log, Entry("user", c)), !.busy = TRUE, !.current = r]
      /\ t.cs = [s.cs EXCEPT ![r] = NewCall("message", c)]
      /\ t.mixed <=> s.mixed \/ Underway(s.cs, K) # {}
      /\ t.idle = s.idle /\ c \in Convs
  BY <1>1, SentIs
<1>3. s.p \in PanelType /\ s.cs \in CallsType /\ "message" \in Kinds /\ s.p.log \in LogType
  BY <1>1 DEF StateType, PanelType, Kinds
<1>4. r \in CallIds \ Started(s.cs)
  BY NextCall
<1> HIDE DEF r, c, t
<1>9. /\ Started(t.cs) = Started(s.cs) \cup {r}
      /\ t.cs[r] = NewCall("message", c)
      /\ \A q \in CallIds : q # r => t.cs[q] = s.cs[q]
      /\ s.cs[r].kind = "none"
      /\ \A ks : Underway(t.cs, ks) = Underway(s.cs, ks) \cup (IF "message" \in ks THEN {r} ELSE {})
  <2>1. c \in Convs /\ c \in Convs \cup {None} /\ "message" # "list"
    BY <1>2
  <2> QED
    BY <1>2, <1>3, <1>4, <2>1, CallsMade
<1>5. Ofs(t.p.log) = Ofs(s.p.log) \cup {c}
  <2>1. Entry("user", c) \in EntryType /\ Entry("user", c).of = c
    BY <1>2, EntryIsOne
  <2>2. t.p.log = Append(s.p.log, Entry("user", c))
    BY <1>2, <1>3 DEF PanelType
  <2> QED
    BY <1>3, <2>1, <2>2, OfsAppend
<1>6. /\ t.p.busy = TRUE /\ t.p.open = s.p.open /\ t.p.asked = s.p.asked /\ t.p.conv = s.p.conv
      /\ t.p.viewing = s.p.viewing /\ t.p.rated = s.p.rated
  BY <1>2, <1>3 DEF PanelType
<1>7. t.p.asked => CallIds \ Started(t.cs) # {}
  BY <1>4, <1>6, <1>9
<1>8. ASSUME ~t.mixed PROVE Linked(t.p, t.cs)
  <2>1. Linked(s.p, s.cs) /\ Underway(s.cs, K) = {} /\ ~s.p.viewing
    BY <1>2, <1>8 DEF Fine
  <2>2. Reading(s.cs) = {}
    BY <2>1 DEF Reading, Underway
  <2>3. Reading(t.cs) = {r}
    BY <1>9, <2>2 DEF Reading, Streams
  <2>4. Underway(t.cs, {"rate"}) = Underway(s.cs, {"rate"}) /\ r \notin Underway(s.cs, {"rate"})
    <3>1. ~("message" \in {"rate"})
      OBVIOUS
    <3>2. Underway(t.cs, {"rate"}) = Underway(s.cs, {"rate"})
      BY <1>9, <3>1
    <3> QED
      BY <1>4, <3>2 DEF Underway
  <2>5. s.p.conv = None => Ofs(s.p.log) = {} /\ c = r
    BY <2>1, <2>2 DEF Linked, c
  <2>6. s.p.conv # None => c = s.p.conv
    BY DEF c
  <2>7. \A d \in InView(t.p, t.cs) : d = c
    <3>1. t.cs[r].of = c
      BY <1>9 DEF NewCall
    <3>2. InView(t.p, t.cs) = ({s.p.conv} \ {None}) \cup Ofs(s.p.log) \cup {c}
      BY <1>5, <1>6, <2>3, <3>1 DEF InView
    <3>3. s.p.conv # None => \A d \in Ofs(s.p.log) : d = s.p.conv
      BY <2>1 DEF Linked, InView
    <3> QED
      BY <2>5, <2>6, <3>2, <3>3
  <2>8. \A q \in Underway(t.cs, {"rate"}) : t.cs[q].of = t.p.conv
    <3>1. \A q \in Underway(s.cs, {"rate"}) : q # r /\ q \in CallIds /\ s.cs[q].of = s.p.conv
      BY <2>1, <2>4 DEF Linked, Underway, Started
    <3> QED
      BY <1>6, <1>9, <2>4, <3>1
  <2>9. t.cs[r].stage # "told"
    BY <1>9 DEF NewCall
  <2>10. t.p.rated => \E q \in CallIds : t.cs[q].kind = "rate" /\ t.cs[q].of = t.p.conv
    <3>1. ASSUME t.p.rated PROVE \E q \in CallIds : t.cs[q].kind = "rate" /\ t.cs[q].of = t.p.conv
      <4>1. PICK q \in CallIds : s.cs[q].kind = "rate" /\ s.cs[q].of = s.p.conv
        BY <1>6, <2>1, <3>1 DEF Linked
      <4>2. q # r
        BY <1>9, <4>1
      <4> QED
        BY <1>6, <1>9, <4>1, <4>2
    <3> QED
      BY <3>1
  <2> QED
    BY <1>6, <2>1, <2>3, <2>7, <2>8, <2>9, <2>10 DEF Linked
<1> QED
  BY <1>2, <1>6, <1>7, <1>8 DEF Fine, t

\* A panel with nothing in it.
LEMMA FreshLinked ==
  ASSUME NEW p, NEW cs, p.conv = None, Ofs(p.log) = {}, Reading(cs) = {},
         Underway(cs, {"rate"}) = {}, ~p.viewing, ~p.rated
  PROVE  Linked(p, cs)
<1>1. InView(p, cs) = {}
  BY DEF InView
<1> QED
  BY <1>1 DEF Linked

\* reset.
LEMMA ResetIs ==
  ASSUME NEW s \in StateType
  PROVE  /\ Reset(s) \in StateType
         /\ Reset(s).p = [s.p EXCEPT !.log = <<>>, !.conv = None, !.busy = FALSE, !.pending = FALSE]
         /\ Started(Reset(s).cs) = Started(s.cs)
         /\ Reset(s).idle = s.idle
         /\ s.mixed => Reset(s).mixed
         /\ ~Reset(s).mixed => Reading(Reset(s).cs) = {} /\ Underway(Reset(s).cs, {"rate"}) = {}
<1> DEFINE A == Aborted(s)
           rest == Underway(s.cs, Streams \cup {"load", "rate"}) \ A
           cs == [r \in CallIds |-> IF r \in A THEN [s.cs[r] EXCEPT !.stage = "over"] ELSE s.cs[r]]
           p == [s.p EXCEPT !.log = <<>>, !.conv = None, !.busy = FALSE, !.pending = FALSE]
           m == s.mixed \/ rest # {}
           t == Reset(s)
<1>1. s.p \in PanelType /\ s.cs \in CallsType /\ s.mixed \in BOOLEAN
  BY DEF StateType
<1>2. A \in SUBSET Reading(s.cs)
  BY DEF Aborted
<1>3. /\ cs \in CallsType
      /\ Started(cs) = Started(s.cs)
      /\ \A ks : Underway(cs, ks) = Underway(s.cs, ks) \ A
  BY <1>1, <1>2, CallsAborted
<1>4. p \in PanelType
  BY <1>1, OfsEmpty DEF PanelType
<1>5. t = [s EXCEPT !.cs = cs, !.p = p, !.mixed = m]
  <2>1. t = [s EXCEPT !.cs = cs, !.p.log = <<>>, !.p.conv = None, !.p.busy = FALSE,
                      !.p.pending = FALSE, !.mixed = @ \/ rest # {}]
    BY DEF Reset
  <2> HIDE DEF t, cs, rest
  <2> QED
    BY <2>1 DEF StateType
<1> HIDE DEF cs, p, m, A, rest
<1>6. t \in StateType /\ t.p = p /\ t.cs = cs /\ t.mixed = m /\ t.idle = s.idle
  <2>1. m \in BOOLEAN
    BY <1>1 DEF m
  <2> HIDE DEF t
  <2> QED
    BY <1>3, <1>4, <1>5, <2>1 DEF StateType
<1>7. s.mixed => m
  BY <1>1, Zenon DEF m
<1>8. ASSUME ~m PROVE Reading(cs) = {} /\ Underway(cs, {"rate"}) = {}
  <2>1. Underway(s.cs, Streams \cup {"load", "rate"}) \ A = {}
    BY <1>8, Zenon DEF m, rest
  <2>2. Reading(s.cs) \subseteq Underway(s.cs, Streams \cup {"load", "rate"})
    BY DEF Reading, Underway
  <2>3. Underway(s.cs, {"rate"}) \subseteq Underway(s.cs, Streams \cup {"load", "rate"})
    BY DEF Underway
  <2>4. Reading(cs) = Reading(s.cs) \ A /\ Underway(cs, {"rate"}) = Underway(s.cs, {"rate"}) \ A
    BY <1>3 DEF Reading
  <2> QED
    BY <2>1, <2>2, <2>3, <2>4
<1> HIDE DEF t
<1>9. ~t.mixed => Reading(t.cs) = {} /\ Underway(t.cs, {"rate"}) = {}
  BY <1>6, <1>8
<1> QED
  BY <1>3, <1>6, <1>7, <1>9 DEF t, p

\* The question in a new conversation.
LEMMA AskGood ==
  ASSUME NEW s, Fine(s), CallIds \ Started(s.cs) # {}
  PROVE  Good(Ask(s))
<1> DEFINE m == s.mixed \/ s.p.viewing \/ s.p.rated
           u == [s EXCEPT !.p.asked = FALSE, !.idle = FALSE, !.mixed = @ \/ s.p.viewing \/ s.p.rated]
           v == Reset(u)
           t == Sent(v)
<1>1. s \in StateType /\ s.p \in PanelType /\ s.mixed \in BOOLEAN
  BY DEF StateType, Fine
<1>2. m \in BOOLEAN
  BY <1>1
<1>3. u = [s EXCEPT !.p = [s.p EXCEPT !.asked = FALSE], !.idle = FALSE, !.mixed = m]
  <2>1. (s.mixed \/ s.p.viewing \/ s.p.rated) = m
    OBVIOUS
  <2> QED
    BY <1>1, <2>1 DEF StateType
<1> HIDE DEF m, u
<1>4. u \in StateType /\ u.p = [s.p EXCEPT !.asked = FALSE] /\ u.cs = s.cs /\ u.mixed = m /\ u.idle = FALSE
  BY <1>1, <1>2, <1>3 DEF StateType, PanelType
<1>5. ~u.p.asked /\ u.p.viewing = s.p.viewing /\ u.p.rated = s.p.rated
  BY <1>1, <1>4 DEF PanelType
<1>6. /\ v \in StateType
      /\ v.p = [u.p EXCEPT !.log = <<>>, !.conv = None, !.busy = FALSE, !.pending = FALSE]
      /\ Started(v.cs) = Started(u.cs) /\ v.idle = u.idle
      /\ u.mixed => v.mixed
      /\ ~v.mixed => Reading(v.cs) = {} /\ Underway(v.cs, {"rate"}) = {}
  BY <1>4, ResetIs
<1> HIDE DEF v
<1>7. /\ ~v.p.asked /\ v.p.viewing = s.p.viewing /\ v.p.rated = s.p.rated
      /\ v.p.conv = None /\ v.p.log = <<>>
  BY <1>4, <1>5, <1>6 DEF StateType, PanelType
<1>8. Ofs(v.p.log) = {}
  BY <1>7, OfsEmpty
<1>9. ~v.mixed => ~s.p.viewing /\ ~s.p.rated
  BY <1>4, <1>6, Zenon DEF m
<1>10. Fine(v)
  BY <1>6, <1>7, <1>8, <1>9, FreshLinked DEF Fine
<1>11. CallIds \ Started(v.cs) # {} /\ (v.mixed \/ ~v.p.viewing)
  BY <1>4, <1>6, <1>7, <1>9
<1>12. Fine(t) /\ t.p.asked = v.p.asked
  BY <1>7, <1>10, <1>11, SentFine
<1>13. Ask(s) = IF Aborted(s) = {} THEN t ELSE [t EXCEPT !.p.busy = FALSE]
  BY DEF Ask, t, v, u
<1> HIDE DEF t
<1>14. CASE Aborted(s) = {}
  BY <1>7, <1>12, <1>13, <1>14 DEF Good
<1>15. CASE Aborted(s) # {}
  <2> DEFINE w == [t EXCEPT !.p.busy = FALSE]
  <2>1. t \in StateType /\ t.p \in PanelType
    BY <1>12 DEF Fine, StateType
  <2>2. w \in StateType /\ w.cs = t.cs /\ w.mixed = t.mixed /\ w.p = [t.p EXCEPT !.busy = FALSE]
    BY <2>1 DEF StateType, PanelType
  <2> HIDE DEF w
  <2>3. /\ w.p.conv = t.p.conv /\ w.p.log = t.p.log /\ w.p.viewing = t.p.viewing
        /\ w.p.rated = t.p.rated /\ w.p.pending = t.p.pending /\ w.p.asked = t.p.asked
    BY <2>1, <2>2 DEF PanelType
  <2>4. Linked(t.p, t.cs) => Linked(w.p, t.cs)
    BY <2>3 DEF Linked, InView
  <2>5. Fine(w)
    BY <1>12, <2>2, <2>3, <2>4 DEF Fine
  <2>6. Ask(s) = w
    BY <1>13, <1>15 DEF w
  <2> QED
    BY <1>7, <1>12, <2>3, <2>5, <2>6 DEF Good
<1> QED
  BY <1>14, <1>15

\* Whatever a step does before the question is looked at, the end of the step
\* asks it if that is due.
LEMMA BecomeGood ==
  ASSUME NEW s, Fine(s), Become(s),
         s.p.asked /\ s.p.open /\ ~s.p.busy /\ s.p.open = panel.open /\ s.p.busy = panel.busy => s.idle
  PROVE  ChatInv'
<1> DEFINE due == (s.p.open # panel.open \/ s.p.busy # panel.busy)
                  /\ s.p.asked /\ s.p.open /\ ~s.p.busy
           t == IF due THEN Ask(s) ELSE s
           Now(x) == panel' = x.p /\ calls' = x.cs /\ mixed' = x.mixed /\ askedIdle' = x.idle
<1>1. Now(t)
  BY DEF Become
<1>2. Good(t)
  <2>1. CASE due
    <3>1. CallIds \ Started(s.cs) # {}
      BY <2>1 DEF Fine
    <3> QED
      BY <2>1, <3>1, AskGood
  <2>2. CASE ~due
    BY <2>2 DEF Good
  <2> QED
    BY <2>1, <2>2
<1> HIDE DEF t
<1>3. t \in StateType
  BY <1>2 DEF Good, Fine
<1>4. t = [p |-> panel', cs |-> calls', mixed |-> mixed', idle |-> askedIdle']
  BY <1>1, <1>3 DEF StateType
<1> QED
  BY <1>2, <1>4 DEF ChatInv, State

\* The steps of which all others are made keep the panel linked: a request that
\* is made, goes on or ends, a message, a change of the rest of the panel.
LEMMA CalledFine ==
  ASSUME NEW s, Fine(s), CallIds \ Started(s.cs) # {},
         s.p.asked => \A r \in CallIds \ Started(s.cs) : (CallIds \ Started(s.cs)) \ {r} # {},
         NEW k \in Kinds \ {"message"}, NEW c \in Convs \cup {None}, k # "list" => c \in Convs,
         k \in {"approve", "rate"} => c = s.p.conv,
         k = "approve" => s.p.pending
  PROVE  LET t == Called(s, k, c)
         IN  Fine(t) /\ t.p = s.p /\ t.mixed = s.mixed /\ t.idle = s.idle
<1> DEFINE r == Min(CallIds \ Started(s.cs))
           ds == [s.cs EXCEPT ![r] = NewCall(k, c)]
           t == Called(s, k, c)
<1>1. s \in StateType /\ s.p \in PanelType /\ s.cs \in CallsType
  BY DEF Fine, StateType
<1>2. t = [s EXCEPT !.cs = ds]
  BY <1>1 DEF Called, StateType
<1>3. r \in CallIds \ Started(s.cs)
  BY NextCall
<1> HIDE DEF r, t
<1>4. /\ ds \in CallsType
      /\ Started(ds) = Started(s.cs) \cup {r}
      /\ ds[r] = NewCall(k, c)
      /\ \A q \in CallIds : q # r => ds[q] = s.cs[q]
      /\ s.cs[r].kind = "none"
      /\ \A ks : Underway(ds, ks) = Underway(s.cs, ks) \cup (IF k \in ks THEN {r} ELSE {})
  BY <1>1, <1>3, CallsMade
<1> HIDE DEF ds
<1>5. t \in StateType /\ t.p = s.p /\ t.cs = ds /\ t.mixed = s.mixed /\ t.idle = s.idle
  BY <1>1, <1>2, <1>4 DEF StateType
<1>6. s.p.asked => CallIds \ Started(ds) # {}
  BY <1>3, <1>4
<1>7. ASSUME Linked(s.p, s.cs) PROVE Linked(s.p, ds)
  <2>1. Reading(ds) = Reading(s.cs) \cup (IF k = "approve" THEN {r} ELSE {})
    <3>1. k \in Streams <=> k = "approve"
      BY DEF Streams
    <3> QED
      BY <1>4, <3>1 DEF Reading
  <2>2. Underway(ds, {"rate"}) = Underway(s.cs, {"rate"}) \cup (IF k = "rate" THEN {r} ELSE {})
    BY <1>4
  <2>3. \A q \in Reading(s.cs) \cup Underway(s.cs, {"rate"}) : q \in CallIds /\ q # r /\ ds[q] = s.cs[q]
    BY <1>3, <1>4 DEF Reading, Underway, Started
  <2>4. k = "approve" => s.p.conv # None /\ c = s.p.conv /\ ~s.p.viewing
    <3>1. k = "approve" => c \in Convs /\ c = s.p.conv /\ s.p.pending
      OBVIOUS
    <3>2. s.p.pending => ~s.p.viewing
      BY <1>7 DEF Linked
    <3> QED
      BY <3>1, <3>2, ChatAssumption DEF Convs, CallIds
  <2>5. InView(s.p, ds) \subseteq InView(s.p, s.cs)
    <3>1. {ds[q].of : q \in Reading(ds)} \subseteq {s.cs[q].of : q \in Reading(s.cs)} \cup ({s.p.conv} \ {None})
      BY <1>4, <2>1, <2>3, <2>4 DEF NewCall
    <3> QED
      BY <3>1 DEF InView
  <2>6. \A q \in Underway(ds, {"rate"}) : ds[q].of = s.p.conv
    BY <1>4, <1>7, <2>2, <2>3 DEF Linked, NewCall
  <2>7. s.p.conv = None => Reading(ds) = Reading(s.cs) /\ \A q \in Reading(ds) : ds[q].stage # "told"
    BY <1>7, <2>1, <2>3, <2>4 DEF Linked
  <2>8. s.p.viewing => Reading(ds) = {}
    BY <1>7, <2>1, <2>4 DEF Linked
  <2>9. s.p.rated /\ ~s.p.viewing => \E q \in CallIds : ds[q].kind = "rate" /\ ds[q].of = s.p.conv
    <3>1. \A q \in CallIds : s.cs[q].kind = "rate" => ds[q] = s.cs[q]
      BY <1>4
    <3> QED
      BY <1>7, <3>1 DEF Linked
  <2> QED
    BY <1>7, <2>5, <2>6, <2>7, <2>8, <2>9 DEF Linked
<1> QED
  BY <1>5, <1>6, <1>7 DEF Fine, t

\* What a request that goes on changes.
LEMMA StagedIs ==
  ASSUME NEW s \in StateType, NEW r \in Started(s.cs), NEW x \in Stages, s.cs[r].stage # "over"
  PROVE  LET t == To(s, r, x)
         IN  /\ t \in StateType /\ t.p = s.p /\ t.mixed = s.mixed /\ t.idle = s.idle
             /\ Staged(s.cs, t.cs, r, x)
<1> DEFINE ds == [s.cs EXCEPT ![r].stage = x]
           t == To(s, r, x)
<1>1. s.p \in PanelType /\ s.cs \in CallsType
  BY DEF StateType
<1>2. ds \in CallsType /\ Staged(s.cs, ds, r, x)
  BY <1>1, CallsStaged
<1>3. t = [s EXCEPT !.cs = ds]
  BY DEF To, StateType
<1> HIDE DEF t, ds
<1>4. t \in StateType /\ t.p = s.p /\ t.cs = ds /\ t.mixed = s.mixed /\ t.idle = s.idle
  BY <1>2, <1>3 DEF StateType
<1> QED
  BY <1>2, <1>4 DEF t

LEMMA StagedFine ==
  ASSUME NEW s, Fine(s), NEW t \in StateType, NEW r, NEW x \in Stages \ {"told"},
         t.p = s.p, t.mixed = s.mixed, Staged(s.cs, t.cs, r, x),
         x = "over" /\ r \in Reading(s.cs) /\ ~s.mixed => s.p.conv # None
  PROVE  Fine(t)
<1>2. /\ Started(t.cs) = Started(s.cs)
      /\ t.cs[r].stage = x
      /\ \A q \in CallIds : /\ t.cs[q].kind = s.cs[q].kind /\ t.cs[q].of = s.cs[q].of
                            /\ q # r => t.cs[q].stage = s.cs[q].stage
      /\ \A ks : Underway(t.cs, ks) = IF x = "over" THEN Underway(s.cs, ks) \ {r}
                                                    ELSE Underway(s.cs, ks)
  BY DEF Staged
<1>3. ASSUME ~s.mixed PROVE Linked(s.p, t.cs)
  <2>1. Linked(s.p, s.cs)
    BY <1>3 DEF Fine
  <2>2. Reading(t.cs) = IF x = "over" THEN Reading(s.cs) \ {r} ELSE Reading(s.cs)
    BY <1>2 DEF Reading
  <2>3. Underway(t.cs, {"rate"}) \subseteq Underway(s.cs, {"rate"})
    BY <1>2
  <2>4. \A q \in Reading(s.cs) \cup Underway(s.cs, {"rate"}) : q \in CallIds
    BY DEF Reading, Underway, Started
  <2>5. Reading(t.cs) \subseteq Reading(s.cs) /\ \A q \in Reading(t.cs) : t.cs[q].of = s.cs[q].of
    BY <1>2, <2>2, <2>4
  <2>6. InView(s.p, t.cs) \subseteq InView(s.p, s.cs)
    <3>1. {t.cs[q].of : q \in Reading(t.cs)} \subseteq {s.cs[q].of : q \in Reading(s.cs)}
      BY <2>5
    <3> QED
      BY <3>1 DEF InView
  <2>7. \A q \in Underway(t.cs, {"rate"}) : t.cs[q].of = s.p.conv
    BY <1>2, <2>1, <2>3, <2>4 DEF Linked
  <2>8. s.p.conv = None => Reading(t.cs) = Reading(s.cs)
    BY <1>3, <2>2
  <2>9. s.p.conv = None => \A q \in Reading(t.cs) : t.cs[q].stage # "told"
    BY <1>2, <2>1, <2>4, <2>5 DEF Linked
  <2>10. s.p.rated /\ ~s.p.viewing => \E q \in CallIds : t.cs[q].kind = "rate" /\ t.cs[q].of = s.p.conv
    BY <1>2, <2>1 DEF Linked
  <2> QED
    BY <2>1, <2>5, <2>6, <2>7, <2>8, <2>9, <2>10 DEF Linked
<1> QED
  BY <1>2, <1>3 DEF Fine

LEMMA ToFine ==
  ASSUME NEW s, Fine(s), NEW r \in Started(s.cs), s.cs[r].stage # "over",
         NEW x \in Stages \ {"told"},
         x = "over" /\ r \in Reading(s.cs) /\ ~s.mixed => s.p.conv # None
  PROVE  Fine(To(s, r, x))
<1> DEFINE t == To(s, r, x)
<1>1. s \in StateType /\ x \in Stages
  BY DEF Fine
<1>2. t \in StateType /\ t.p = s.p /\ t.mixed = s.mixed /\ Staged(s.cs, t.cs, r, x)
  BY <1>1, StagedIs
<1> HIDE DEF t
<1>3. Fine(t)
  BY <1>2, StagedFine
<1> QED
  BY <1>3 DEF t

\* A response that tells of calls of tools and their results.
LEMMA ToolsOfCall ==
  ASSUME NEW c \in CallType, c.stage # "unused", NEW T \in ToolSets, NEW W \in ToolSets
  PROVE  LET d == [c EXCEPT !.tools = T, !.waiting = W]
             e == [c EXCEPT !.waiting = W]
         IN  /\ d \in CallType /\ d.kind = c.kind /\ d.of = c.of /\ d.stage = c.stage
             /\ e \in CallType /\ e.kind = c.kind /\ e.of = c.of /\ e.stage = c.stage
<1> DEFINE b == [c EXCEPT !.tools = T]
           d == [b EXCEPT !.waiting = W]
           e == [c EXCEPT !.waiting = W]
<1>1. e \in CallType /\ e.kind = c.kind /\ e.of = c.of /\ e.stage = c.stage
  BY DEF CallType, NoCall
<1>2. b \in CallType /\ b.kind = c.kind /\ b.of = c.of /\ b.stage = c.stage
  BY DEF CallType, NoCall
<1> HIDE DEF b
<1>3. d \in CallType /\ d.kind = b.kind /\ d.of = b.of /\ d.stage = b.stage
  BY <1>2 DEF CallType, NoCall
<1>4. d = [c EXCEPT !.tools = T, !.waiting = W]
  BY DEF b
<1> HIDE DEF d, e
<1> QED
  BY <1>1, <1>2, <1>3, <1>4 DEF e

LEMMA ToolsFine ==
  ASSUME NEW s, Fine(s), NEW r \in Started(s.cs), s.cs[r].stage \notin {"told", "over"},
         NEW d \in CallType,
         d.kind = s.cs[r].kind, d.of = s.cs[r].of, d.stage = s.cs[r].stage
  PROVE  LET t == [s EXCEPT !.cs = [s.cs EXCEPT ![r] = d]]
         IN  /\ Fine(t) /\ t.p = s.p /\ t.mixed = s.mixed /\ t.idle = s.idle
             /\ Started(t.cs) = Started(s.cs) /\ Reading(t.cs) = Reading(s.cs)
             /\ \A q \in CallIds : t.cs[q].of = s.cs[q].of /\ t.cs[q].stage = s.cs[q].stage
<1> DEFINE ds == [s.cs EXCEPT ![r] = d]
           t == [s EXCEPT !.cs = ds]
           x == s.cs[r].stage
<1>1. s \in StateType /\ s.cs \in CallsType
  BY DEF Fine, StateType
<1>2. r \in CallIds /\ s.cs[r] \in CallType /\ x # "unused"
  BY <1>1 DEF Started, CallsType
<1>3. x \in Stages \ {"told"} /\ x # "over"
  BY <1>2 DEF CallType, NoCall
<1>4. ds \in CallsType /\ ds[r] = d /\ \A q \in CallIds : q # r => ds[q] = s.cs[q]
  BY <1>1, <1>2 DEF CallsType
<1>5. \A q \in CallIds : ds[q].kind = s.cs[q].kind /\ ds[q].of = s.cs[q].of /\ ds[q].stage = s.cs[q].stage
  BY <1>4
<1> HIDE DEF ds
<1>6. t \in StateType /\ t.p = s.p /\ t.mixed = s.mixed /\ t.idle = s.idle /\ t.cs = ds
  BY <1>1, <1>4 DEF StateType
<1> HIDE DEF t
<1>7. Started(ds) = Started(s.cs)
  BY <1>5 DEF Started
<1>8. \A ks : Underway(ds, ks) = Underway(s.cs, ks)
  BY <1>5, <1>7 DEF Underway, Started
<1>9. Staged(s.cs, t.cs, r, x)
  BY <1>2, <1>3, <1>5, <1>6, <1>7, <1>8 DEF Staged
<1>10. Fine(t)
  BY <1>3, <1>6, <1>9, StagedFine
<1> QED
  BY <1>5, <1>6, <1>7, <1>8, <1>10 DEF Reading, t, ds

\* The number of the next call of a tool.
LEMMA NextTool ==
  ASSUME Untold # {}
  PROVE  Min(Untold) \in 1..MaxTools
<1>1. IsFiniteSet(1..MaxTools)
  BY ChatAssumption, FS_Interval
<1>2. Untold \subseteq 1..MaxTools
  BY DEF Untold
<1>3. IsFiniteSet(Untold)
  BY <1>1, <1>2, FS_Subset
<1>5. Untold \subseteq Int
  BY <1>2
<1>4. Min(Untold) \in Untold
  BY <1>3, <1>5, LeastOf
<1> QED
  BY <1>2, <1>4

LEMMA PanelFine ==
  ASSUME NEW s, Fine(s), NEW t \in StateType, t.cs = s.cs, s.mixed => t.mixed,
         t.p.asked => s.p.asked, t.p.conv = s.p.conv, t.p.viewing = s.p.viewing,
         t.p.rated = s.p.rated, Ofs(s.p.log) \subseteq Ofs(t.p.log),
         ~s.mixed => Ofs(t.p.log) \subseteq InView(s.p, s.cs),
         t.p.pending => s.p.pending \/ Reading(s.cs) # {}
  PROVE  Fine(t)
<1>1. ASSUME ~t.mixed PROVE Linked(t.p, t.cs)
  <2>1. Linked(s.p, s.cs) /\ Ofs(t.p.log) \subseteq InView(s.p, s.cs)
    BY <1>1 DEF Fine
  <2>2. InView(t.p, t.cs) \subseteq InView(s.p, s.cs)
    BY <2>1 DEF InView
  <2>3. t.p.conv = None /\ Ofs(t.p.log) # {} => Reading(t.cs) # {}
    <3>1. ASSUME t.p.conv = None, Reading(s.cs) = {} PROVE Ofs(t.p.log) = {}
      BY <2>1, <3>1 DEF Linked, InView
    <3> QED
      BY <3>1
  <2> QED
    BY <2>1, <2>2, <2>3 DEF Linked
<1> QED
  BY <1>1 DEF Fine

\* A request for which there is room, one more being kept for a question.
LEMMA CanCallOne ==
  ASSUME CanCall
  PROVE  /\ Unused # {} /\ Unused = CallIds \ Started(State.cs)
         /\ panel.asked => \A r \in Unused : Unused \ {r} # {}
<1>1. IsFiniteSet(CallIds)
  BY ChatAssumption, FS_Interval DEF CallIds
<1>2. IsFiniteSet(Unused)
  BY <1>1, FS_Difference DEF Unused
<1>3. Cardinality(Unused) \in Nat
  BY <1>2, FS_CardinalityType
<1>4. Unused # {}
  <2>1. Cardinality(Unused) > 0
    BY <1>3 DEF CanCall
  <2> QED
    BY <2>1, FS_EmptySet
<1>5. ASSUME panel.asked, NEW r \in Unused PROVE Unused \ {r} # {}
  <2>1. Cardinality(Unused) > 1
    BY <1>5 DEF CanCall
  <2>2. Cardinality(Unused \ {r}) = Cardinality(Unused) - 1
    BY <1>2, <1>5, FS_RemoveElement
  <2>3. Cardinality(Unused \ {r}) # 0
    BY <1>3, <2>1, <2>2
  <2> QED
    BY <2>3, FS_EmptySet
<1> QED
  BY <1>4, <1>5 DEF Unused, State

LEMMA StateIs ==
  ASSUME ChatInv
  PROVE  /\ Fine(State) /\ State \in StateType
         /\ State.p = panel /\ State.cs = calls /\ State.mixed = mixed /\ State.idle = askedIdle
         /\ panel \in PanelType /\ calls \in CallsType /\ panel.log \in LogType
         /\ panel.asked /\ panel.open /\ ~panel.busy => askedIdle
         /\ ~mixed => Linked(panel, calls)
<1>1. Good(State) /\ Fine(State) /\ State \in StateType
  BY DEF ChatInv, Good, Fine
<1>2. State.p = panel /\ State.cs = calls /\ State.mixed = mixed /\ State.idle = askedIdle
  BY DEF State
<1>3. panel \in PanelType /\ calls \in CallsType /\ panel.log \in LogType
  BY <1>1, <1>2 DEF StateType, PanelType
<1> HIDE DEF State
<1> QED
  BY <1>1, <1>2, <1>3 DEF Good, Fine

\* A card that is drawn anew.
LEMMA RedrawnFine ==
  ASSUME NEW s, Fine(s)
  PROVE  LET t == Redrawn(s)
         IN  /\ Fine(t) /\ t.p.open = s.p.open /\ t.p.busy = s.p.busy /\ t.p.asked = s.p.asked
             /\ t.idle = s.idle
<1> DEFINE log == [i \in DOMAIN s.p.log |-> [s.p.log[i] EXCEPT !.checked = s.p.log[i].actions]]
           p == [s.p EXCEPT !.rating = FALSE, !.log = log]
           t == Redrawn(s)
<1>1. s \in StateType /\ s.p \in PanelType /\ s.p.log \in LogType
  BY DEF Fine, StateType, PanelType
<1>2. log \in LogType /\ Ofs(log) = Ofs(s.p.log)
  <2>1. ASSUME NEW i \in DOMAIN s.p.log
        PROVE  log[i] \in EntryType /\ log[i].of = s.p.log[i].of
    <3>1. s.p.log[i] \in EntryType
      BY <1>1 DEF LogType
    <3>2. s.p.log[i].actions \in SUBSET UNION Proposals /\ s.p.log[i] \in Entries
      BY <3>1 DEF EntryType, Entries
    <3>3. log[i] = [s.p.log[i] EXCEPT !.checked = s.p.log[i].actions]
      OBVIOUS
    <3> HIDE DEF log
    <3>4. log[i] \in Entries /\ log[i].of = s.p.log[i].of
      BY <3>2, <3>3 DEF Entries
    <3>5. log[i].checked = log[i].actions
      BY <3>2, <3>3 DEF Entries
    <3> QED
      BY <3>4, <3>5 DEF EntryType
  <2>2. DOMAIN log = DOMAIN s.p.log /\ log = [i \in DOMAIN s.p.log |-> log[i]]
    OBVIOUS
  <2> HIDE DEF log
  <2> QED
    BY <1>1, <2>1, <2>2, OfsSame
<1>3. t = [s EXCEPT !.p = p]
  BY <1>1 DEF Redrawn, StateType
<1> HIDE DEF log, t
<1>4. p \in PanelType
  BY <1>1, <1>2 DEF PanelType
<1>5. /\ p.open = s.p.open /\ p.busy = s.p.busy /\ p.asked = s.p.asked /\ p.conv = s.p.conv
      /\ p.viewing = s.p.viewing /\ p.rated = s.p.rated /\ p.pending = s.p.pending /\ p.log = log
  BY <1>1 DEF PanelType
<1> HIDE DEF p
<1>6. t \in StateType /\ t.p = p /\ t.cs = s.cs /\ t.mixed = s.mixed /\ t.idle = s.idle
  BY <1>1, <1>3, <1>4 DEF StateType
<1>7. Ofs(t.p.log) = Ofs(s.p.log)
  BY <1>2, <1>5, <1>6
<1>8. Ofs(s.p.log) \subseteq InView(s.p, s.cs)
  BY DEF InView
<1>9. Fine(t)
  BY <1>5, <1>6, <1>7, <1>8, PanelFine
<1> QED
  BY <1>5, <1>6, <1>9 DEF t

\* A change of the panel besides its messages and conversation.
Plain(p, q) ==
  /\ q.conv = p.conv /\ q.log = p.log /\ q.viewing = p.viewing /\ q.rated = p.rated
  /\ q.asked = p.asked /\ (q.pending => p.pending)

LEMMA PlainFine ==
  ASSUME NEW s, Fine(s), NEW q \in PanelType, Plain(s.p, q)
  PROVE  LET t == [s EXCEPT !.p = q]
         IN  Fine(t) /\ t.p = q /\ t.idle = s.idle /\ t.cs = s.cs /\ t.mixed = s.mixed
<1> DEFINE t == [s EXCEPT !.p = q]
<1>1. s \in StateType
  BY DEF Fine
<1>2. t \in StateType /\ t.p = q /\ t.cs = s.cs /\ t.mixed = s.mixed /\ t.idle = s.idle
  BY <1>1 DEF StateType
<1> HIDE DEF t
<1>3. Ofs(s.p.log) \subseteq InView(s.p, s.cs)
  BY DEF InView
<1>4. Fine(t)
  BY <1>2, <1>3, PanelFine DEF Plain
<1> QED
  BY <1>2, <1>4 DEF t

-----------------------------------------------------------------------------
LEMMA ChatStarts == ChatInit => ChatInv
<1> SUFFICES ASSUME ChatInit PROVE Good(State)
  BY DEF ChatInv
<1>1. panel = EmptyPanel /\ calls = [r \in CallIds |-> NoCall] /\ mixed = FALSE /\ askedIdle = FALSE
  BY DEF ChatInit
<1>2. EmptyPanel \in PanelType
  BY OfsEmpty DEF EmptyPanel, PanelType
<1>3. calls \in CallsType /\ Started(calls) = {}
  BY <1>1 DEF CallsType, CallType, Started, NoCall
<1>4. Reading(calls) = {} /\ Underway(calls, {"rate"}) = {}
  BY <1>3 DEF Reading, Underway
<1>5. State \in StateType /\ State.p = panel /\ State.cs = calls
  BY <1>1, <1>2, <1>3 DEF State, StateType
<1>6. panel.conv = None /\ panel.log = <<>> /\ ~panel.viewing /\ ~panel.rated /\ ~panel.asked
  BY <1>1 DEF EmptyPanel
<1>7. Linked(panel, calls)
  BY <1>4, <1>6, OfsEmpty, FreshLinked
<1> HIDE DEF State
<1> QED
  BY <1>5, <1>6, <1>7 DEF Good, Fine

LEMMA SendTextGood == ASSUME ChatInv, SendText PROVE ChatInv'
<1>1. CanCall /\ ~panel.viewing /\ Become(Sent(State))
  BY DEF SendText
<1>2. Fine(Sent(State)) /\ Sent(State).p.busy
  BY <1>1, StateIs, CanCallOne, SentFine
<1> QED
  BY <1>1, <1>2, BecomeGood

LEMMA SuggestGood == ASSUME ChatInv, Suggest PROVE ChatInv'
<1>1. CanCall /\ panel.log = <<>> /\ Become(Sent(State))
  BY DEF Suggest
<1>2. mixed \/ ~panel.viewing
  BY <1>1, StateIs, OfsEmpty DEF Linked
<1>3. Fine(Sent(State)) /\ Sent(State).p.busy
  BY <1>1, <1>2, StateIs, CanCallOne, SentFine
<1> QED
  BY <1>1, <1>3, BecomeGood

LEMMA ToggleGood == ASSUME ChatInv, Toggle PROVE ChatInv'
<1>1. PICK i \in Cards : \E a \in panel.log[i].actions :
        Become([State EXCEPT !.p.log[i].checked = IF a \in @ THEN @ \ {a} ELSE @ \cup {a}])
  BY DEF Toggle
<1>2. PICK a \in panel.log[i].actions :
        Become([State EXCEPT !.p.log[i].checked = IF a \in @ THEN @ \ {a} ELSE @ \cup {a}])
  BY <1>1
<1> DEFINE old == panel.log[i].checked
           new == IF a \in old THEN old \ {a} ELSE old \cup {a}
           e == [panel.log[i] EXCEPT !.checked = new]
           log == [panel.log EXCEPT ![i] = e]
           p == [panel EXCEPT !.log = log]
           t == [State EXCEPT !.p = p]
<1>3. State \in StateType /\ Fine(State) /\ State.p = panel /\ panel \in PanelType /\ panel.log \in LogType
      /\ State.cs = calls /\ State.idle = askedIdle
  BY StateIs
<1>4. i \in DOMAIN panel.log
  BY DEF Cards
<1>5. panel.log[i] \in EntryType
  BY <1>3, <1>4 DEF LogType
<1>6. [State EXCEPT !.p.log[i].checked = IF a \in @ THEN @ \ {a} ELSE @ \cup {a}] = t
  BY <1>3 DEF StateType
<1>7. e \in EntryType /\ e.of = panel.log[i].of
  <2>1. panel.log[i] \in Entries /\ old \subseteq panel.log[i].actions
    BY <1>5 DEF EntryType
  <2>2. new \subseteq panel.log[i].actions
    BY <2>1
  <2>3. panel.log[i].actions \in SUBSET UNION Proposals
    BY <2>1 DEF Entries
  <2>4. new \in SUBSET UNION Proposals
    BY <2>2, <2>3
  <2> HIDE DEF new
  <2>5. e \in Entries /\ e.checked = new /\ e.actions = panel.log[i].actions /\ e.of = panel.log[i].of
    BY <2>1, <2>4 DEF Entries
  <2> QED
    BY <2>2, <2>5 DEF EntryType
<1> HIDE DEF e, new
<1>8. log \in LogType /\ Ofs(log) = Ofs(panel.log)
  <2>1. DOMAIN log = DOMAIN panel.log /\ log = [j \in DOMAIN panel.log |-> log[j]]
    OBVIOUS
  <2>2. \A j \in DOMAIN panel.log : log[j] = IF j = i THEN e ELSE panel.log[j]
    BY <1>4
  <2>3. \A j \in DOMAIN panel.log : panel.log[j] \in EntryType
    BY <1>3 DEF LogType
  <2> HIDE DEF log
  <2>4. \A j \in DOMAIN panel.log : log[j] \in EntryType /\ log[j].of = panel.log[j].of
    BY <1>7, <2>2, <2>3
  <2> QED
    BY <1>3, <2>1, <2>4, OfsSame
<1> HIDE DEF log
<1>9. p \in PanelType /\ p.open = panel.open /\ p.busy = panel.busy /\ p.asked = panel.asked
      /\ p.conv = panel.conv /\ p.viewing = panel.viewing /\ p.rated = panel.rated
      /\ p.pending = panel.pending /\ p.log = log
  BY <1>3, <1>8 DEF PanelType
<1> HIDE DEF p
<1>10. t \in StateType /\ t.p = p /\ t.cs = State.cs /\ t.mixed = State.mixed /\ t.idle = State.idle
  BY <1>3, <1>9 DEF StateType
<1>11. Ofs(panel.log) \subseteq InView(panel, calls)
  BY DEF InView
<1> HIDE DEF t
<1>12. Fine(t)
  BY <1>3, <1>8, <1>9, <1>10, <1>11, PanelFine
<1>13. Become(t)
  BY <1>2, <1>6
<1> QED
  BY <1>3, <1>9, <1>10, <1>12, <1>13, StateIs, BecomeGood

LEMMA ApproveGood == ASSUME ChatInv, Approve PROVE ChatInv'
<1> DEFINE u == Called(State, "approve", panel.conv)
           p == [panel EXCEPT !.pending = FALSE, !.busy = TRUE]
           t == [u EXCEPT !.p = p]
<1>1. CanCall /\ panel.pending /\ panel.conv # None
      /\ Become([u EXCEPT !.p.pending = FALSE, !.p.busy = TRUE])
  BY DEF Approve, Enabled
<1>2. Fine(u) /\ u.p = panel
  <2>1. "approve" \in Kinds \ {"message"} /\ "approve" # "list"
    BY DEF Kinds
  <2>2. panel.conv \in Convs \cup {None} /\ panel.conv \in Convs
    BY <1>1, StateIs DEF PanelType
  <2> QED
    BY <1>1, <2>1, <2>2, StateIs, CanCallOne, CalledFine
<1> HIDE DEF u
<1>3. panel \in PanelType /\ u \in StateType
  BY <1>2, StateIs DEF Fine
<1>4. p \in PanelType /\ Plain(panel, p) /\ p.busy = TRUE
  BY <1>3 DEF PanelType, Plain
<1>5. [u EXCEPT !.p.pending = FALSE, !.p.busy = TRUE] = t
  BY <1>2, <1>3 DEF StateType, PanelType
<1> HIDE DEF p
<1>6. Fine(t) /\ t.p = p
  BY <1>2, <1>4, PlainFine
<1> HIDE DEF t
<1> QED
  BY <1>1, <1>4, <1>5, <1>6, BecomeGood

\* A message of a conversation that is shown or read.
LEMMA SayFine ==
  ASSUME NEW s, Fine(s), NEW e \in EntryType, ~s.mixed => e.of \in InView(s.p, s.cs)
  PROVE  LET t == Say(s, e)
         IN  /\ Fine(t) /\ t.p = [s.p EXCEPT !.log = Append(s.p.log, e)]
             /\ t.cs = s.cs /\ t.mixed = s.mixed /\ t.idle = s.idle
<1> DEFINE log == Append(s.p.log, e)
           p == [s.p EXCEPT !.log = log]
           t == Say(s, e)
<1>1. s \in StateType /\ s.p \in PanelType /\ s.p.log \in LogType
  BY DEF Fine, StateType, PanelType
<1>2. t \in StateType /\ t = [s EXCEPT !.p = p]
  BY <1>1, SayIs
<1>3. log \in LogType /\ Ofs(log) = Ofs(s.p.log) \cup {e.of}
  BY <1>1, OfsAppend
<1> HIDE DEF log, t
<1>4. /\ p.conv = s.p.conv /\ p.viewing = s.p.viewing /\ p.rated = s.p.rated
      /\ p.asked = s.p.asked /\ p.pending = s.p.pending /\ p.log = log
  BY <1>1 DEF PanelType
<1> HIDE DEF p
<1>5. t.p = p /\ t.cs = s.cs /\ t.mixed = s.mixed /\ t.idle = s.idle
  BY <1>1, <1>2 DEF StateType
<1>6. Ofs(s.p.log) \subseteq InView(s.p, s.cs)
  BY DEF InView
<1>7. Fine(t)
  BY <1>2, <1>3, <1>4, <1>5, <1>6, PanelFine
<1> QED
  BY <1>5, <1>7 DEF t, p, log

LEMMA RejectGood == ASSUME ChatInv, Reject PROVE ChatInv'
<1> DEFINE c == panel.log[Max(Cards)].of
           u == Say(State, Entry("text", c))
           p == [u.p EXCEPT !.pending = FALSE]
           t == [u EXCEPT !.p = p]
<1>1. Cards # {} /\ ~panel.busy /\ Become([u EXCEPT !.p.pending = FALSE])
  BY DEF Reject, Enabled
<1>2. Max(Cards) \in DOMAIN panel.log
  <2>1. DOMAIN panel.log = 1..Len(panel.log) /\ Len(panel.log) \in Nat
    BY StateIs, LenProperties DEF LogType
  <2>2. Cards \in SUBSET (1..Len(panel.log))
    BY <2>1 DEF Cards
  <2>3. IsFiniteSet(1..Len(panel.log))
    BY <2>1, FS_Interval
  <2>4. IsFiniteSet(Cards)
    BY <2>2, <2>3, FS_Subset
  <2>5. Cards \subseteq Int
    BY <2>2
  <2>6. Max(Cards) \in Cards
    BY <1>1, <2>4, <2>5, GreatestOf
  <2> QED
    BY <2>6 DEF Cards
<1>3. c \in Convs /\ c \in InView(panel, calls)
  <2>1. panel.log[Max(Cards)] \in Entries
    BY <1>2, StateIs DEF LogType, EntryType
  <2>2. c \in Ofs(panel.log)
    BY <1>2 DEF Ofs
  <2> QED
    BY <2>1, <2>2 DEF Entries, InView
<1> HIDE DEF c
<1>4. Fine(u) /\ u.p = [panel EXCEPT !.log = Append(panel.log, Entry("text", c))] /\ u.idle = askedIdle
  <2>1. Entry("text", c) \in EntryType /\ Entry("text", c).of = c
    BY <1>3, EntryIsOne
  <2> QED
    BY <1>3, <2>1, StateIs, SayFine
<1> HIDE DEF u
<1>5. u \in StateType /\ u.p \in PanelType /\ panel \in PanelType
  BY <1>4, StateIs DEF Fine, StateType
<1>6. /\ p \in PanelType /\ Plain(u.p, p)
      /\ p.open = panel.open /\ p.busy = panel.busy /\ p.asked = panel.asked
  BY <1>4, <1>5 DEF PanelType, Plain
<1>7. [u EXCEPT !.p.pending = FALSE] = t
  BY <1>5 DEF StateType, PanelType
<1> HIDE DEF p
<1>8. Fine(t) /\ t.p = p /\ t.idle = askedIdle
  BY <1>4, <1>6, PlainFine
<1>9. Become(t)
  BY <1>1, <1>7
<1> HIDE DEF t
<1> QED
  BY <1>6, <1>8, <1>9, StateIs, BecomeGood

LEMMA RateGood == ASSUME ChatInv, Rate PROVE ChatInv'
<1> DEFINE u == Called(State, "rate", panel.conv)
           p == [panel EXCEPT !.rating = TRUE]
           t == [u EXCEPT !.p = p]
<1>1. CanCall /\ panel.conv # None /\ Become([u EXCEPT !.p.rating = TRUE])
  BY DEF Rate
<1>2. Fine(u) /\ u.p = panel /\ u.idle = askedIdle
  <2>1. "rate" \in Kinds \ {"message"} /\ "rate" # "list" /\ "rate" # "approve"
    BY DEF Kinds
  <2>2. panel.conv \in Convs \cup {None} /\ panel.conv \in Convs
    BY <1>1, StateIs DEF PanelType
  <2> QED
    BY <1>1, <2>1, <2>2, StateIs, CanCallOne, CalledFine
<1> HIDE DEF u
<1>3. panel \in PanelType /\ u \in StateType
  BY <1>2, StateIs DEF Fine
<1>4. /\ p \in PanelType /\ Plain(panel, p)
      /\ p.open = panel.open /\ p.busy = panel.busy /\ p.asked = panel.asked
  BY <1>3 DEF PanelType, Plain
<1>5. [u EXCEPT !.p.rating = TRUE] = t
  BY <1>2, <1>3 DEF StateType, PanelType
<1> HIDE DEF p
<1>6. Fine(t) /\ t.p = p /\ t.idle = askedIdle
  BY <1>2, <1>4, PlainFine
<1>7. Become(t)
  BY <1>1, <1>5
<1> HIDE DEF t
<1> QED
  BY <1>4, <1>6, <1>7, StateIs, BecomeGood

LEMMA TogglePanelGood == ASSUME ChatInv, TogglePanel PROVE ChatInv'
<1> DEFINE p == [panel EXCEPT !.open = ~panel.open]
           u == [State EXCEPT !.p = p]
           t == Redrawn(u)
<1>1. panel \in PanelType /\ State \in StateType /\ State.p = panel /\ Fine(State)
  BY StateIs
<1>2. [State EXCEPT !.p.open = ~@] = u
  BY <1>1 DEF StateType, PanelType
<1>3. p \in PanelType /\ Plain(panel, p) /\ p.open # panel.open
  <2>1. p \in PanelType
    BY <1>1 DEF PanelType
  <2>2. Plain(panel, p)
    BY <1>1 DEF PanelType, Plain
  <2>3. p.open = (~panel.open) /\ panel.open \in BOOLEAN
    BY <1>1 DEF PanelType
  <2> QED
    BY <2>1, <2>2, <2>3
<1> HIDE DEF p
<1>4. Fine(u) /\ u.p = p
  BY <1>1, <1>3, PlainFine
<1>5. Become(t)
  BY <1>2 DEF TogglePanel
<1> HIDE DEF u
<1>6. Fine(t) /\ t.p.open = p.open
  BY <1>4, RedrawnFine
<1> HIDE DEF t
<1> QED
  BY <1>3, <1>5, <1>6, BecomeGood

LEMMA ShowHistoryGood == ASSUME ChatInv, ShowHistory PROVE ChatInv'
<1> DEFINE u == Called(State, "list", None)
           v == Redrawn(u)
           p == [v.p EXCEPT !.listing = TRUE, !.loading = TRUE]
           t == [v EXCEPT !.p = p]
<1>1. CanCall /\ Become([v EXCEPT !.p.listing = TRUE, !.p.loading = TRUE])
  BY DEF ShowHistory
<1>2. Fine(u) /\ u.p = panel /\ u.idle = askedIdle
  <2>1. "list" \in Kinds \ {"message"} /\ ~("list" \in {"approve", "rate"}) /\ "list" # "approve"
    BY DEF Kinds
  <2>2. None \in Convs \cup {None}
    OBVIOUS
  <2> QED
    BY <1>1, <2>1, <2>2, StateIs, CanCallOne, CalledFine
<1> HIDE DEF u
<1>3. /\ Fine(v) /\ v.p.open = panel.open /\ v.p.busy = panel.busy /\ v.p.asked = panel.asked
      /\ v.idle = askedIdle
  BY <1>2, RedrawnFine
<1> HIDE DEF v
<1>4. v \in StateType /\ v.p \in PanelType
  BY <1>3 DEF Fine, StateType
<1>5. /\ p \in PanelType /\ Plain(v.p, p)
      /\ p.open = panel.open /\ p.busy = panel.busy /\ p.asked = panel.asked
  BY <1>3, <1>4 DEF PanelType, Plain
<1>6. [v EXCEPT !.p.listing = TRUE, !.p.loading = TRUE] = t
  BY <1>4 DEF StateType, PanelType
<1> HIDE DEF p
<1>7. Fine(t) /\ t.p = p /\ t.idle = askedIdle
  BY <1>3, <1>5, PlainFine
<1>8. Become(t)
  BY <1>1, <1>6
<1> HIDE DEF t
<1> QED
  BY <1>5, <1>7, <1>8, StateIs, BecomeGood

LEMMA BackFromHistoryGood == ASSUME ChatInv, BackFromHistory PROVE ChatInv'
<1> DEFINE p == [panel EXCEPT !.listing = FALSE]
           u == [State EXCEPT !.p = p]
           t == Redrawn(u)
<1>1. panel \in PanelType /\ State \in StateType /\ State.p = panel /\ Fine(State) /\ State.idle = askedIdle
  BY StateIs
<1>2. [State EXCEPT !.p.listing = FALSE] = u
  BY <1>1 DEF StateType, PanelType
<1>3. /\ p \in PanelType /\ Plain(panel, p)
      /\ p.open = panel.open /\ p.busy = panel.busy /\ p.asked = panel.asked
  BY <1>1 DEF PanelType, Plain
<1> HIDE DEF p
<1>4. Fine(u) /\ u.p = p /\ u.idle = askedIdle
  BY <1>1, <1>3, PlainFine
<1>5. Become(t)
  BY <1>2 DEF BackFromHistory
<1> HIDE DEF u
<1>6. Fine(t) /\ t.p.open = p.open /\ t.p.busy = p.busy /\ t.p.asked = p.asked /\ t.idle = askedIdle
  BY <1>4, RedrawnFine
<1> HIDE DEF t
<1> QED
  BY <1>3, <1>5, <1>6, StateIs, BecomeGood

LEMMA SelectConversationGood == ASSUME ChatInv, SelectConversation PROVE ChatInv'
<1>1. CanCall /\ \E c \in Known : Become([Called(State, "load", c) EXCEPT !.p.loading = TRUE])
  BY DEF SelectConversation
<1>2. PICK c \in Known : Become([Called(State, "load", c) EXCEPT !.p.loading = TRUE])
  BY <1>1
<1> DEFINE u == Called(State, "load", c)
           p == [panel EXCEPT !.loading = TRUE]
           t == [u EXCEPT !.p = p]
<1>3. c \in Convs
  <2>1. \A r \in CallIds : calls[r] \in CallType
    BY StateIs DEF CallsType
  <2>2. \A r \in Started(calls) : calls[r].kind = "message" => calls[r].of \in Convs
    BY <2>1 DEF Started, CallType, NoCall
  <2>3. PastConv \subseteq Convs
    BY DEF Convs
  <2> QED
    BY <2>2, <2>3 DEF Known
<1>4. Fine(u) /\ u.p = panel /\ u.idle = askedIdle
  <2>1. "load" \in Kinds \ {"message"} /\ ~("load" \in {"approve", "rate"}) /\ "load" # "approve"
    BY DEF Kinds
  <2>2. c \in Convs \cup {None}
    BY <1>3
  <2> QED
    BY <1>1, <1>3, <2>1, <2>2, StateIs, CanCallOne, CalledFine
<1> HIDE DEF u
<1>5. panel \in PanelType /\ u \in StateType
  BY <1>4, StateIs DEF Fine
<1>6. /\ p \in PanelType /\ Plain(panel, p)
      /\ p.open = panel.open /\ p.busy = panel.busy /\ p.asked = panel.asked
  BY <1>5 DEF PanelType, Plain
<1>7. [u EXCEPT !.p.loading = TRUE] = t
  BY <1>4, <1>5 DEF StateType, PanelType
<1> HIDE DEF p
<1>8. Fine(t) /\ t.p = p /\ t.idle = askedIdle
  BY <1>4, <1>6, PlainFine
<1>9. Become(t)
  BY <1>2, <1>7 DEF u
<1> HIDE DEF t
<1> QED
  BY <1>6, <1>8, <1>9, StateIs, BecomeGood

LEMMA NewConversationGood == ASSUME ChatInv, NewConversation PROVE ChatInv'
<1> DEFINE u == Reset(State)
           rating == u.p.rating /\ ~panel.listing
           p == [u.p EXCEPT !.viewing = FALSE, !.rated = FALSE, !.listing = FALSE, !.rating = rating]
           t == [u EXCEPT !.p = p]
<1>1. Become([u EXCEPT !.p.viewing = FALSE, !.p.rated = FALSE, !.p.listing = FALSE,
                       !.p.rating = @ /\ ~panel.listing])
  BY DEF NewConversation
<1>2. /\ u \in StateType
      /\ u.p = [panel EXCEPT !.log = <<>>, !.conv = None, !.busy = FALSE, !.pending = FALSE]
      /\ Started(u.cs) = Started(calls) /\ u.idle = askedIdle
      /\ ~u.mixed => Reading(u.cs) = {} /\ Underway(u.cs, {"rate"}) = {}
  BY StateIs, ResetIs
<1> HIDE DEF u
<1>3. panel \in PanelType /\ u.p \in PanelType
  BY <1>2, StateIs DEF StateType
<1>4. rating \in BOOLEAN
  BY <1>3
<1>5. [u EXCEPT !.p.viewing = FALSE, !.p.rated = FALSE, !.p.listing = FALSE,
                !.p.rating = @ /\ ~panel.listing] = t
  BY <1>2, <1>3 DEF StateType, PanelType
<1>6. /\ p \in PanelType /\ p.conv = None /\ p.log = <<>> /\ ~p.viewing /\ ~p.rated
      /\ p.open = panel.open /\ p.asked = panel.asked /\ ~p.busy
  <2>1. /\ u.p.conv = None /\ u.p.log = <<>> /\ u.p.open = panel.open /\ u.p.asked = panel.asked
        /\ u.p.busy = FALSE
    BY <1>2, <1>3 DEF PanelType
  <2> HIDE DEF rating
  <2>2. p \in PanelType
    BY <1>3, <1>4 DEF PanelType
  <2>3. p.viewing = FALSE /\ p.rated = FALSE
    BY <1>3 DEF PanelType
  <2>4. /\ p.conv = u.p.conv /\ p.log = u.p.log /\ p.open = u.p.open /\ p.asked = u.p.asked
        /\ p.busy = u.p.busy
    BY <1>3 DEF PanelType
  <2> QED
    BY <2>1, <2>2, <2>3, <2>4
<1> HIDE DEF p
<1>7. t \in StateType /\ t.p = p /\ t.cs = u.cs /\ t.mixed = u.mixed /\ t.idle = askedIdle
  BY <1>2, <1>6 DEF StateType
<1>8. panel.asked => CallIds \ Started(calls) # {}
  BY StateIs DEF Fine
<1> HIDE DEF t
<1>9. Fine(t)
  BY <1>2, <1>6, <1>7, <1>8, OfsEmpty, FreshLinked DEF Fine
<1>10. Become(t)
  BY <1>1, <1>5 DEF t
<1> QED
  BY <1>6, <1>7, <1>9, <1>10, StateIs, BecomeGood

LEMMA SendPrefilledGood == ASSUME ChatInv, SendPrefilled PROVE ChatInv'
<1> DEFINE p == [panel EXCEPT !.open = TRUE, !.asked = TRUE, !.viewing = FALSE, !.rated = FALSE]
           i == askedIdle \/ (panel.open /\ ~panel.busy)
           t == [State EXCEPT !.p = p, !.idle = i]
<1>1. /\ panel \in PanelType /\ State \in StateType /\ State.p = panel /\ State.cs = calls
      /\ State.mixed = mixed /\ State.idle = askedIdle /\ Fine(State)
  BY StateIs
<1>2. [State EXCEPT !.p.open = TRUE, !.p.asked = TRUE, !.p.viewing = FALSE, !.p.rated = FALSE,
                    !.idle = @ \/ (panel.open /\ ~panel.busy)] = t
  BY <1>1 DEF StateType, PanelType
<1>3. /\ p \in PanelType /\ ~p.viewing /\ ~p.rated /\ p.conv = panel.conv /\ p.log = panel.log
      /\ p.pending = panel.pending /\ p.busy = panel.busy
  BY <1>1 DEF PanelType
<1>4. i \in BOOLEAN /\ (panel.open /\ ~panel.busy => i)
  BY <1>1 DEF StateType, PanelType
<1> HIDE DEF p, i
<1>5. t \in StateType /\ t.p = p /\ t.cs = calls /\ t.mixed = mixed /\ t.idle = i
  BY <1>1, <1>3, <1>4 DEF StateType
<1>6. Become(t) /\ (panel.asked \/ CanCall)
  BY <1>2 DEF SendPrefilled
<1> HIDE DEF t
<1>7. CallIds \ Started(calls) # {}
  BY <1>1, <1>6, CanCallOne DEF Fine
<1>8. ASSUME ~mixed PROVE Linked(p, calls)
  <2>1. Linked(panel, calls) /\ InView(p, calls) = InView(panel, calls)
    BY <1>1, <1>3, <1>8 DEF Fine, InView
  <2> QED
    BY <1>3, <2>1 DEF Linked
<1>9. Fine(t)
  BY <1>5, <1>7, <1>8 DEF Fine
<1> QED
  BY <1>3, <1>4, <1>5, <1>6, <1>9, BecomeGood

-----------------------------------------------------------------------------
\* A response that is being read is about what is shown.
LEMMA AtStarted ==
  ASSUME ChatInv, NEW r \in CallIds, NEW K \in SUBSET Kinds, NEW S \in SUBSET (Stages \ {"over"}),
         At(r, K, S)
  PROVE  /\ r \in Started(calls) /\ calls[r].stage # "over" /\ calls[r] \in CallType
         /\ r \in Reading(calls) <=> calls[r].kind \in Streams
         /\ calls[r].kind # "list" => calls[r].of \in Convs
<1>1. calls[r].kind \in K /\ calls[r].stage \in S
  BY DEF At
<1>2. calls[r] \in CallType
  BY StateIs DEF CallsType
<1>3. calls[r].stage # "unused" /\ calls[r].stage # "over"
  BY <1>1 DEF Stages
<1>4. r \in Started(calls)
  BY <1>3 DEF Started
<1>5. r \in Reading(calls) <=> calls[r].kind \in Streams
  BY <1>3, <1>4 DEF Reading, Underway
<1>6. calls[r].kind # "list" => calls[r].of \in Convs
  BY <1>2, <1>3 DEF CallType, NoCall
<1> QED
  BY <1>2, <1>3, <1>4, <1>5, <1>6

LEMMA ReadInView ==
  ASSUME NEW p, NEW cs, NEW r \in Reading(cs)
  PROVE  cs[r].of \in InView(p, cs)
BY DEF InView

LEMMA AtResponse ==
  ASSUME ChatInv, NEW r \in CallIds, NEW K \in SUBSET Streams, NEW S \in SUBSET (Stages \ {"over"}),
         At(r, K, S)
  PROVE  /\ r \in Reading(calls) /\ calls[r].of \in Convs
         /\ r \in Started(calls) /\ calls[r].stage \in S /\ calls[r].stage # "over"
         /\ calls[r].tools \in ToolSets /\ calls[r].waiting \in ToolSets
<1>1. K \in SUBSET Kinds /\ calls[r].kind \in Streams /\ calls[r].kind # "list" /\ calls[r].stage \in S
  BY DEF At, Kinds, Streams
<1>2. /\ r \in Started(calls) /\ calls[r].stage # "over" /\ calls[r] \in CallType
      /\ r \in Reading(calls) <=> calls[r].kind \in Streams
      /\ calls[r].kind # "list" => calls[r].of \in Convs
  BY <1>1, AtStarted
<1>3. calls[r].stage # "unused"
  BY <1>2 DEF Started
<1>4. calls[r].tools \in ToolSets /\ calls[r].waiting \in ToolSets
  BY <1>2, <1>3 DEF CallType, NoCall
<1> QED
  BY <1>1, <1>2, <1>4

\* The text goes on, or begins, in the conversation it is of.
LEMMA AddedFine ==
  ASSUME ChatInv, NEW e \in EntryType, e.of \in InView(panel, calls)
  PROVE  LET t == Added(State, e)
         IN  /\ Fine(t) /\ t.cs = calls /\ t.idle = askedIdle
             /\ t.p.open = panel.open /\ t.p.busy = panel.busy /\ t.p.asked = panel.asked
<1> DEFINE t == Added(State, e)
           u == Say(State, e)
<1>1. /\ Fine(u) /\ u.p = [panel EXCEPT !.log = Append(panel.log, e)]
      /\ u.cs = calls /\ u.idle = askedIdle
  BY StateIs, SayFine
<1>2. t = State \/ t = u
  BY DEF Added
<1> HIDE DEF t, u
<1>3. u.p.open = panel.open /\ u.p.busy = panel.busy /\ u.p.asked = panel.asked
  BY <1>1, StateIs DEF PanelType
<1>4. /\ Fine(t) /\ t.cs = calls /\ t.idle = askedIdle
      /\ t.p.open = panel.open /\ t.p.busy = panel.busy /\ t.p.asked = panel.asked
  BY <1>1, <1>2, <1>3, StateIs
<1> QED
  BY <1>4 DEF t

LEMMA ReadTextGood == ASSUME ChatInv, NEW r \in CallIds, ReadText(r) PROVE ChatInv'
<1> DEFINE e == Entry("text", calls[r].of)
           u == Added(State, e)
           t == To(u, r, "closing")
<1>1. At(r, Streams, {"sent"}) /\ (Become(u) \/ Become(t))
  BY DEF ReadText
<1>2. /\ r \in Reading(calls) /\ calls[r].of \in Convs
      /\ r \in Started(calls) /\ calls[r].stage # "over"
  <2>1. Streams \in SUBSET Streams /\ {"sent"} \in SUBSET (Stages \ {"over"})
    BY DEF Stages
  <2> QED
    BY <1>1, <2>1, AtResponse
<1>3. e \in EntryType /\ e.of \in InView(panel, calls)
  BY <1>2, EntryIsOne, ReadInView
<1> HIDE DEF e
<1>4. /\ Fine(u) /\ u.cs = calls /\ u.idle = askedIdle
      /\ u.p.open = panel.open /\ u.p.busy = panel.busy /\ u.p.asked = panel.asked
  BY <1>3, AddedFine
<1> HIDE DEF u
<1>5. "closing" \in Stages /\ "closing" \in Stages \ {"told"} /\ "closing" # "over" /\ u \in StateType
  BY <1>4 DEF Stages, Fine
<1>6. Fine(t)
  BY <1>2, <1>4, <1>5, ToFine
<1>7. t.p = u.p /\ t.idle = u.idle
  BY <1>2, <1>4, <1>5, StagedIs
<1> HIDE DEF t
<1>8. CASE Become(u)
  BY <1>4, <1>8, StateIs, BecomeGood
<1>9. CASE Become(t)
  BY <1>4, <1>6, <1>7, <1>9, StateIs, BecomeGood
<1> QED
  BY <1>1, <1>8, <1>9

LEMMA ReadToolCallGood == ASSUME ChatInv, NEW r \in CallIds, ReadToolCall(r) PROVE ChatInv'
<1> DEFINE n == Min(Untold)
           e == [Entry("call", calls[r].of) EXCEPT !.by = n]
           u == Say(State, e)
           T == calls[r].tools \cup {n}
           W == calls[r].waiting \cup {n}
           d == [calls[r] EXCEPT !.tools = T, !.waiting = W]
           ds == [calls EXCEPT ![r] = d]
           v == [u EXCEPT !.cs = ds]
           t == To(v, r, "calling")
<1>1. /\ At(r, Streams, {"sent"}) \/ At(r, {"message"}, {"calling"})
      /\ Untold # {} /\ Become(To(CallOf(u, r, n), r, "calling"))
  BY DEF ReadToolCall
<1>2. /\ r \in Reading(calls) /\ calls[r].of \in Convs /\ r \in Started(calls)
      /\ calls[r].stage \in {"sent", "calling"} /\ calls[r].stage # "over"
      /\ calls[r].tools \in ToolSets /\ calls[r].waiting \in ToolSets
  <2>1. Streams \in SUBSET Streams /\ {"sent"} \in SUBSET (Stages \ {"over"})
    BY DEF Stages
  <2>2. {"message"} \in SUBSET Streams /\ {"calling"} \in SUBSET (Stages \ {"over"})
    BY DEF Stages, Streams
  <2>3. CASE At(r, Streams, {"sent"})
    BY <2>1, <2>3, AtResponse
  <2>4. CASE At(r, {"message"}, {"calling"})
    BY <2>2, <2>4, AtResponse
  <2> QED
    BY <1>1, <2>3, <2>4
<1>3. n \in 1..MaxTools
  BY <1>1, NextTool
<1> HIDE DEF n
<1>4. e \in EntryType /\ e.of \in InView(panel, calls)
  <2>1. e = [kind |-> "call", of |-> calls[r].of, by |-> n, actions |-> {}, checked |-> {}]
    BY DEF Entry
  <2>2. {} \in SUBSET UNION Proposals /\ n \in 0..MaxTools
    BY <1>3
  <2>3. e \in EntryType
    BY <1>2, <2>1, <2>2 DEF EntryType, Entries
  <2>4. e.of = calls[r].of
    BY <2>1
  <2> HIDE DEF e
  <2> QED
    BY <1>2, <2>3, <2>4, ReadInView
<1> HIDE DEF e
<1>5. Fine(u) /\ u.p = [panel EXCEPT !.log = Append(panel.log, e)] /\ u.cs = calls /\ u.idle = askedIdle
  BY <1>4, StateIs, SayFine
<1>6. u \in StateType /\ calls \in CallsType
  BY <1>5, StateIs DEF Fine
<1> HIDE DEF u
<1>7. u.p.open = panel.open /\ u.p.busy = panel.busy /\ u.p.asked = panel.asked
  BY <1>5, StateIs DEF PanelType
<1>8. T \in ToolSets /\ W \in ToolSets
  BY <1>2, <1>3 DEF ToolSets
<1>9. CallOf(u, r, n) = v
  <2> DEFINE old == u.cs[r]
             new == [old EXCEPT !.tools = old.tools \cup {n}, !.waiting = old.waiting \cup {n}]
  <2>1. CallOf(u, r, n) = [u EXCEPT !.cs[r] = new]
    BY Zenon DEF CallOf
  <2>2. new = d
    BY <1>5, Zenon
  <2> HIDE DEF new, d
  <2>3. [u EXCEPT !.cs[r] = d] = v
    BY <1>5, <1>6 DEF StateType
  <2> QED
    BY <2>1, <2>2, <2>3
<1> HIDE DEF T, W
<1>10. Fine(v) /\ v.p = u.p /\ v.idle = u.idle /\ Started(v.cs) = Started(calls)
       /\ v.cs[r].stage = calls[r].stage
  <2>1. r \in Started(u.cs) /\ u.cs[r].stage \notin {"told", "over"} /\ r \in CallIds
    BY <1>2, <1>5
  <2>2. calls[r] \in CallType /\ calls[r].stage # "unused"
    BY <1>2, <1>6 DEF CallsType
  <2>3. d \in CallType /\ d.kind = calls[r].kind /\ d.of = calls[r].of /\ d.stage = calls[r].stage
    BY <1>8, <2>2, ToolsOfCall
  <2> HIDE DEF d
  <2>4. v = [u EXCEPT !.cs = [u.cs EXCEPT ![r] = d]]
    BY <1>5
  <2> HIDE DEF v, ds
  <2>5. /\ Fine(v) /\ v.p = u.p /\ v.idle = u.idle /\ Started(v.cs) = Started(u.cs)
        /\ \A q \in CallIds : v.cs[q].stage = u.cs[q].stage
    BY <1>5, <2>1, <2>3, <2>4, ToolsFine
  <2> QED
    BY <1>5, <2>1, <2>5
<1> HIDE DEF v, ds, d
<1>11. "calling" \in Stages /\ "calling" \in Stages \ {"told"} /\ "calling" # "over" /\ v \in StateType
  BY <1>10 DEF Stages, Fine
<1>12. Fine(t)
  BY <1>2, <1>10, <1>11, ToFine
<1>13. t.p = v.p /\ t.idle = v.idle
  BY <1>2, <1>10, <1>11, StagedIs
<1>14. Become(t)
  BY <1>1, <1>9
<1> HIDE DEF t
<1> QED
  BY <1>5, <1>7, <1>10, <1>12, <1>13, <1>14, StateIs, BecomeGood

LEMMA ReadToolResultGood == ASSUME ChatInv, NEW r \in CallIds, ReadToolResult(r) PROVE ChatInv'
<1> DEFINE n == Min(calls[r].waiting)
           log == [i \in DOMAIN panel.log |-> IF panel.log[i].by = n
                                              THEN [panel.log[i] EXCEPT !.kind = "called"]
                                              ELSE panel.log[i]]
           p == [panel EXCEPT !.log = log]
           u == [State EXCEPT !.p = p]
           W == calls[r].waiting \ {n}
           d == [calls[r] EXCEPT !.waiting = W]
           ds == [calls EXCEPT ![r] = d]
           w == [u EXCEPT !.cs = ds]
           x == IF calls[r].waiting = {n} THEN "sent" ELSE "answered"
           t == To(w, r, x)
           e == Entry("text", calls[r].of)
           v == Say(t, e)
<1>1. At(r, Streams, {"calling", "answered"})
  BY DEF ReadToolResult
<1>2. /\ panel \in PanelType /\ State \in StateType /\ State.p = panel /\ State.cs = calls
      /\ State.idle = askedIdle /\ State.mixed = mixed /\ Fine(State) /\ panel.log \in LogType
  BY StateIs
<1>3. [State EXCEPT !.p.log = [i \in DOMAIN @ |-> IF @[i].by = n
                                                  THEN [@[i] EXCEPT !.kind = "called"] ELSE @[i]]] = u
  BY <1>2 DEF StateType
<1>4. LET y == To(ResultOf(u, r, n), r, x) IN Become(y) \/ Become(Say(y, e))
  BY <1>3, Zenon DEF ReadToolResult
<1>5. /\ r \in Reading(calls) /\ calls[r].of \in Convs /\ r \in Started(calls)
      /\ calls[r].stage \in {"calling", "answered"} /\ calls[r].stage # "over"
      /\ calls[r].tools \in ToolSets /\ calls[r].waiting \in ToolSets
  <2>1. Streams \in SUBSET Streams /\ {"calling", "answered"} \in SUBSET (Stages \ {"over"})
    BY DEF Stages
  <2> QED
    BY <1>1, <2>1, AtResponse
<1> HIDE DEF n
<1>6. log \in LogType /\ Ofs(log) = Ofs(panel.log)
  <2>1. ASSUME NEW i \in DOMAIN panel.log
        PROVE  log[i] \in EntryType /\ log[i].of = panel.log[i].of
    <3>1. panel.log[i] \in EntryType
      BY <1>2 DEF LogType
    <3>2. [panel.log[i] EXCEPT !.kind = "called"] \in EntryType
          /\ [panel.log[i] EXCEPT !.kind = "called"].of = panel.log[i].of
      BY <3>1 DEF EntryType, Entries
    <3> QED
      BY <3>1, <3>2
  <2>2. DOMAIN log = DOMAIN panel.log /\ log = [i \in DOMAIN panel.log |-> log[i]]
    OBVIOUS
  <2> HIDE DEF log
  <2> QED
    BY <1>2, <2>1, <2>2, OfsSame
<1> HIDE DEF log
<1>7. /\ p \in PanelType /\ p.open = panel.open /\ p.busy = panel.busy /\ p.asked = panel.asked
      /\ p.conv = panel.conv /\ p.viewing = panel.viewing /\ p.rated = panel.rated
      /\ p.pending = panel.pending /\ p.log = log
  BY <1>2, <1>6 DEF PanelType
<1> HIDE DEF p
<1>8. u \in StateType /\ u.p = p /\ u.cs = calls /\ u.mixed = mixed /\ u.idle = askedIdle
  BY <1>2, <1>7 DEF StateType
<1>9. Ofs(panel.log) \subseteq InView(panel, calls)
  BY DEF InView
<1> HIDE DEF u
<1>10. Fine(u)
  BY <1>2, <1>6, <1>7, <1>8, <1>9, PanelFine
<1>11. ResultOf(u, r, n) = w /\ W \in ToolSets
  BY <1>5, <1>8 DEF ResultOf, StateType, ToolSets
<1> HIDE DEF W
<1>12. /\ Fine(w) /\ w.p = u.p /\ w.idle = u.idle /\ Started(w.cs) = Started(calls)
       /\ Reading(w.cs) = Reading(calls)
       /\ w.cs[r].stage = calls[r].stage /\ w.cs[r].of = calls[r].of
  <2>1. r \in Started(u.cs) /\ u.cs[r].stage \notin {"told", "over"} /\ r \in CallIds
    BY <1>5, <1>8
  <2>2. calls[r] \in CallType /\ calls[r].stage # "unused"
    BY <1>5, StateIs DEF CallsType
  <2>3. d \in CallType /\ d.kind = calls[r].kind /\ d.of = calls[r].of /\ d.stage = calls[r].stage
    BY <1>5, <1>11, <2>2, ToolsOfCall
  <2> HIDE DEF d
  <2>4. w = [u EXCEPT !.cs = [u.cs EXCEPT ![r] = d]]
    BY <1>8
  <2> HIDE DEF w, ds
  <2>5. /\ Fine(w) /\ w.p = u.p /\ w.idle = u.idle /\ Started(w.cs) = Started(u.cs)
        /\ Reading(w.cs) = Reading(u.cs)
        /\ \A q \in CallIds : w.cs[q].stage = u.cs[q].stage /\ w.cs[q].of = u.cs[q].of
    BY <1>10, <2>1, <1>8, <2>3, <2>4, ToolsFine
  <2> QED
    BY <1>8, <2>1, <2>5
<1> HIDE DEF w, ds, d
<1>13. x \in Stages /\ x \in Stages \ {"told"} /\ x # "over" /\ w \in StateType
  BY <1>12 DEF Stages, Fine
<1> HIDE DEF x
<1>14. Fine(t)
  BY <1>5, <1>12, <1>13, ToFine
<1>15. t.p = w.p /\ t.idle = w.idle /\ Staged(w.cs, t.cs, r, x)
  BY <1>5, <1>12, <1>13, StagedIs
<1>16. Become(t) \/ Become(v)
  BY <1>4, <1>11
<1> HIDE DEF t
<1>17. r \in Reading(t.cs) /\ t.cs[r].of = calls[r].of
  BY <1>5, <1>12, <1>13, <1>15 DEF Staged, Reading
<1>18. e \in EntryType /\ e.of \in InView(t.p, t.cs)
  BY <1>5, <1>17, EntryIsOne, ReadInView
<1> HIDE DEF e
<1>19. Fine(v) /\ v.p = [t.p EXCEPT !.log = Append(t.p.log, e)] /\ v.idle = t.idle
  BY <1>14, <1>18, SayFine
<1> HIDE DEF v
<1>20. v.p.open = p.open /\ v.p.busy = p.busy /\ v.p.asked = p.asked
  BY <1>7, <1>8, <1>12, <1>15, <1>19 DEF PanelType
<1>21. CASE Become(t)
  BY <1>7, <1>8, <1>12, <1>14, <1>15, <1>21, StateIs, BecomeGood
<1>22. CASE Become(v)
  BY <1>7, <1>8, <1>12, <1>15, <1>19, <1>20, <1>22, StateIs, BecomeGood
<1> QED
  BY <1>16, <1>21, <1>22

LEMMA ReadProposalGood == ASSUME ChatInv, NEW r \in CallIds, ReadProposal(r) PROVE ChatInv'
<1>1. At(r, {"message"}, {"sent"})
  BY DEF ReadProposal
<1>2. PICK A \in Proposals :
        Become(To([Say(State, [Entry("card", calls[r].of) EXCEPT !.actions = A, !.checked = A])
                     EXCEPT !.p.pending = TRUE], r, "proposed"))
  BY DEF ReadProposal
<1> DEFINE e == [Entry("card", calls[r].of) EXCEPT !.actions = A, !.checked = A]
           u == Say(State, e)
           p == [u.p EXCEPT !.pending = TRUE]
           v == [u EXCEPT !.p = p]
           t == To(v, r, "proposed")
<1>3. /\ r \in Reading(calls) /\ calls[r].of \in Convs
      /\ r \in Started(calls) /\ calls[r].stage # "over"
  <2>1. {"message"} \in SUBSET Streams /\ {"sent"} \in SUBSET (Stages \ {"over"})
    BY DEF Streams, Stages
  <2> QED
    BY <1>1, <2>1, AtResponse
<1>4. e \in EntryType /\ e.of \in InView(panel, calls)
  <2>1. e = [kind |-> "card", of |-> calls[r].of, by |-> 0, actions |-> A, checked |-> A]
    <3> DEFINE d == [kind |-> "card", of |-> calls[r].of, by |-> 0, actions |-> {}, checked |-> {}]
               f == [d EXCEPT !.actions = A]
    <3>1. e = [f EXCEPT !.checked = A]
      BY DEF Entry
    <3>2. f = [kind |-> "card", of |-> calls[r].of, by |-> 0, actions |-> A, checked |-> {}]
      OBVIOUS
    <3> HIDE DEF f, e
    <3> QED
      BY <3>1, <3>2
  <2>2. A \in SUBSET UNION Proposals /\ 0 \in 0..MaxTools
    BY ChatAssumption
  <2>3. e \in EntryType
    BY <1>3, <2>1, <2>2 DEF EntryType, Entries
  <2>4. e.of = calls[r].of
    BY <2>1
  <2> HIDE DEF e
  <2> QED
    BY <1>3, <2>3, <2>4, ReadInView
<1> HIDE DEF e
<1>5. Fine(u) /\ u.p = [panel EXCEPT !.log = Append(panel.log, e)] /\ u.cs = calls /\ u.idle = askedIdle
  BY <1>4, StateIs, SayFine
<1> HIDE DEF u
<1>6. u.p.open = panel.open /\ u.p.busy = panel.busy /\ u.p.asked = panel.asked
  BY <1>5, StateIs DEF PanelType
<1>7. u \in StateType /\ u.p \in PanelType
  BY <1>5 DEF Fine, StateType
<1>8. /\ p \in PanelType /\ p.open = u.p.open /\ p.busy = u.p.busy /\ p.asked = u.p.asked
      /\ p.conv = u.p.conv /\ p.viewing = u.p.viewing /\ p.rated = u.p.rated /\ p.log = u.p.log
  BY <1>7 DEF PanelType
<1>9. [u EXCEPT !.p.pending = TRUE] = v
  BY <1>7 DEF StateType
<1> HIDE DEF p
<1>10. v \in StateType /\ v.p = p /\ v.cs = u.cs /\ v.mixed = u.mixed /\ v.idle = u.idle
  BY <1>7, <1>8 DEF StateType
<1>11. Become(t)
  BY <1>2, <1>9 DEF u, e
<1> HIDE DEF v
<1>12. Fine(v)
  <2>1. Ofs(u.p.log) \subseteq InView(u.p, u.cs)
    BY DEF InView
  <2>2. Reading(u.cs) # {}
    BY <1>3, <1>5
  <2> QED
    BY <1>5, <1>8, <1>10, <2>1, <2>2, PanelFine
<1>13. "proposed" \in Stages /\ "proposed" \in Stages \ {"told"} /\ "proposed" # "over"
  BY DEF Stages
<1>14. Fine(t)
  BY <1>3, <1>5, <1>10, <1>12, <1>13, ToFine
<1>15. t.p = v.p /\ t.idle = v.idle
  BY <1>3, <1>5, <1>10, <1>13, StagedIs
<1> HIDE DEF t
<1> QED
  BY <1>5, <1>6, <1>8, <1>10, <1>11, <1>14, <1>15, StateIs, BecomeGood

\* done: the conversation of the answer is the one that goes on.
LEMMA ReadDoneGood == ASSUME ChatInv, NEW r \in CallIds, ReadDone(r) PROVE ChatInv'
<1> DEFINE c == calls[r].of
           p == [panel EXCEPT !.conv = c]
           u == [State EXCEPT !.p = p]
           t == To(u, r, "told")
<1>1. /\ At(r, {"message"}, {"sent", "proposed"}) \/ At(r, {"approve"}, {"closing"})
      /\ Become(To([State EXCEPT !.p.conv = calls[r].of], r, "told"))
  BY DEF ReadDone
<1>2. /\ panel \in PanelType /\ State \in StateType /\ State.p = panel /\ State.cs = calls
      /\ State.idle = askedIdle /\ State.mixed = mixed /\ Fine(State) /\ calls \in CallsType
  BY StateIs
<1>3. /\ r \in Reading(calls) /\ c \in Convs
      /\ r \in Started(calls) /\ calls[r].stage # "over"
  <2>1. {"message"} \in SUBSET Streams /\ {"sent", "proposed"} \in SUBSET (Stages \ {"over"})
    BY DEF Streams, Stages
  <2>2. {"approve"} \in SUBSET Streams /\ {"closing"} \in SUBSET (Stages \ {"over"})
    BY DEF Streams, Stages
  <2>3. CASE At(r, {"message"}, {"sent", "proposed"})
    BY <2>1, <2>3, AtResponse
  <2>4. CASE At(r, {"approve"}, {"closing"})
    BY <2>2, <2>4, AtResponse
  <2> QED
    BY <1>1, <2>3, <2>4
<1>4. [State EXCEPT !.p.conv = calls[r].of] = u
  BY <1>2 DEF StateType
<1>5. Become(t)
  BY <1>1, <1>4
<1>6. /\ p \in PanelType /\ p.open = panel.open /\ p.busy = panel.busy /\ p.asked = panel.asked
      /\ p.conv = c /\ p.viewing = panel.viewing /\ p.rated = panel.rated
      /\ p.pending = panel.pending /\ p.log = panel.log
  BY <1>2, <1>3 DEF PanelType
<1> HIDE DEF p, c
<1>7. u \in StateType /\ u.p = p /\ u.cs = calls /\ u.mixed = mixed /\ u.idle = askedIdle
  BY <1>2, <1>6 DEF StateType
<1> HIDE DEF u
<1>8. "told" \in Stages /\ "told" # "over"
  BY DEF Stages
<1>9. t \in StateType /\ t.p = p /\ t.idle = askedIdle /\ t.mixed = mixed /\ Staged(calls, t.cs, r, "told")
  BY <1>3, <1>7, <1>8, StagedIs
<1> HIDE DEF t
<1>10. ASSUME ~mixed PROVE Linked(p, t.cs)
  <2>1. Linked(panel, calls)
    BY <1>10, StateIs
  <2>2. Reading(t.cs) = Reading(calls) /\ Underway(t.cs, {"rate"}) = Underway(calls, {"rate"})
    BY <1>8, <1>9 DEF Staged, Reading
  <2>3. \A q \in CallIds : t.cs[q].kind = calls[q].kind /\ t.cs[q].of = calls[q].of
    BY <1>9 DEF Staged
  <2>4. \A q \in Reading(calls) \cup Underway(calls, {"rate"}) : q \in CallIds
    BY DEF Reading, Underway, Started
  <2>5. c \in InView(panel, calls) /\ c # None
    BY <1>3, ReadInView, ChatAssumption DEF c, Convs, CallIds
  <2>6. InView(p, t.cs) \subseteq InView(panel, calls)
    BY <1>6, <2>2, <2>3, <2>4, <2>5 DEF InView
  <2>7. panel.conv = None \/ panel.conv = c
    BY <2>1, <2>5 DEF Linked, InView
  <2>8. \A q \in CallIds : calls[q].kind = "rate" => calls[q].of # None
    <3>1. \A q \in CallIds : calls[q] \in CallType
      BY <1>2 DEF CallsType
    <3>2. None \notin Convs
      BY ChatAssumption DEF Convs, CallIds
    <3> QED
      BY <3>1, <3>2 DEF CallType, NoCall
  <2>9. \A q \in Underway(calls, {"rate"}) : calls[q].kind = "rate" /\ calls[q].of = panel.conv
    BY <2>1 DEF Linked, Underway
  <2>10. \A q \in Underway(t.cs, {"rate"}) : t.cs[q].of = p.conv
    BY <1>6, <2>2, <2>3, <2>4, <2>7, <2>8, <2>9
  <2>11. ~p.viewing
    BY <1>3, <1>6, <2>1 DEF Linked
  <2>12. p.rated => \E q \in CallIds : t.cs[q].kind = "rate" /\ t.cs[q].of = p.conv
    BY <1>6, <2>1, <2>3, <2>7, <2>8, <2>11 DEF Linked
  <2> QED
    BY <1>6, <2>1, <2>5, <2>6, <2>10, <2>11, <2>12 DEF Linked
<1>11. Fine(t)
  <2>1. panel.asked => CallIds \ Started(calls) # {}
    BY <1>2 DEF Fine
  <2> QED
    BY <1>6, <1>9, <1>10, <2>1 DEF Fine, Staged
<1> QED
  BY <1>5, <1>6, <1>9, <1>11, StateIs, BecomeGood

LEMMA EndResponseGood == ASSUME ChatInv, NEW r \in CallIds, EndResponse(r) PROVE ChatInv'
<1> DEFINE u == To(State, r, "over")
           p == [panel EXCEPT !.busy = FALSE]
           t == [u EXCEPT !.p = p]
<1>1. At(r, Streams, {"told"}) /\ Become([Over(State, r) EXCEPT !.p.busy = FALSE])
  BY DEF EndResponse
<1>2. Over(State, r) = u
  BY DEF Over, To
<1>3. /\ r \in Reading(calls) /\ r \in Started(calls) /\ calls[r].stage = "told"
  <2>1. Streams \in SUBSET Kinds /\ {"told"} \in SUBSET (Stages \ {"over"})
    BY DEF Kinds, Stages, Streams
  <2>2. calls[r].kind \in Streams /\ calls[r].stage = "told"
    BY <1>1 DEF At
  <2> QED
    BY <1>1, <2>1, <2>2, AtStarted
<1>4. ~mixed => panel.conv # None
  BY <1>3, StateIs DEF Linked
<1>5. "over" \in Stages /\ "over" \in Stages \ {"told"}
  BY DEF Stages
<1>6. calls[r].stage # "over"
  BY <1>3
<1>7. Fine(u)
  BY <1>3, <1>4, <1>5, <1>6, StateIs, ToFine
<1>8. u.p = panel /\ u.idle = askedIdle /\ u \in StateType
  BY <1>3, <1>5, <1>6, StateIs, StagedIs
<1> HIDE DEF u
<1>9. /\ p \in PanelType /\ Plain(panel, p) /\ p.open = panel.open /\ p.asked = panel.asked /\ ~p.busy
  BY StateIs DEF PanelType, Plain
<1>10. [u EXCEPT !.p.busy = FALSE] = t
  BY <1>8 DEF StateType
<1> HIDE DEF p
<1>11. Fine(t) /\ t.p = p /\ t.idle = askedIdle
  BY <1>7, <1>8, <1>9, PlainFine
<1>12. Become(t)
  BY <1>1, <1>2, <1>10
<1> HIDE DEF t
<1> QED
  BY <1>9, <1>11, <1>12, StateIs, BecomeGood

LEMMA BreakResponseGood == ASSUME ChatInv, NEW r \in CallIds, BreakResponse(r) PROVE ChatInv'
<1> DEFINE c == calls[r].of
           m == mixed \/ panel.conv # c
           e == Entry("text", c)
           s == [State EXCEPT !.mixed = m]
           v == Say(s, e)
           u == To(v, r, "over")
           p == [u.p EXCEPT !.busy = FALSE]
           t == [u EXCEPT !.p = p]
<1>1. r \in Reading(calls)
      /\ Become([Say(Over(State, r), Entry("text", c))
                   EXCEPT !.p.busy = FALSE, !.mixed = @ \/ panel.conv # c])
  BY DEF BreakResponse
<1>2. /\ panel \in PanelType /\ State \in StateType /\ State.p = panel /\ State.cs = calls
      /\ State.idle = askedIdle /\ State.mixed = mixed /\ Fine(State) /\ calls \in CallsType
      /\ mixed \in BOOLEAN /\ State = [p |-> panel, cs |-> calls, mixed |-> mixed, idle |-> askedIdle]
  BY StateIs DEF State, StateType
<1>3. /\ c \in Convs /\ r \in Started(calls) /\ calls[r].stage # "over" /\ calls[r] \in CallType
  <2>1. r \in Started(calls) /\ calls[r].stage # "over" /\ calls[r].kind \in Streams
    BY <1>1 DEF Reading, Underway
  <2>2. calls[r] \in CallType /\ calls[r].stage # "unused"
    BY <1>2, <2>1 DEF CallsType, Started
  <2>3. calls[r].kind # "list"
    BY <2>1 DEF Streams
  <2> QED
    BY <2>1, <2>2, <2>3 DEF CallType, NoCall
<1>4. e \in EntryType /\ e.of = c
  BY <1>3, EntryIsOne
<1>5. m \in BOOLEAN /\ (~m => ~mixed /\ panel.conv = c /\ panel.conv # None)
  BY <1>2, <1>3, ChatAssumption DEF Convs, CallIds
<1>6. [Say(Over(State, r), e) EXCEPT !.p.busy = FALSE, !.mixed = @ \/ panel.conv # c] = t
  <2> DEFINE cs == [calls EXCEPT ![r].stage = "over"]
             log == Append(panel.log, e)
             q == [panel EXCEPT !.log = log]
  <2>1. Over(State, r) = [p |-> panel, cs |-> cs, mixed |-> mixed, idle |-> askedIdle]
    BY <1>2 DEF Over
  <2> DEFINE w == Say(Over(State, r), e)
  <2>2. w = [p |-> q, cs |-> cs, mixed |-> mixed, idle |-> askedIdle]
    BY <2>1 DEF Say
  <2>3. (w.mixed \/ panel.conv # c) = m
    BY <2>2
  <2>4. [w EXCEPT !.p.busy = FALSE, !.mixed = @ \/ panel.conv # c] = [w EXCEPT !.p.busy = FALSE, !.mixed = m]
    BY <2>3
  <2> HIDE DEF m, w, q, cs
  <2> DEFINE z == [q EXCEPT !.busy = FALSE]
  <2>5. [w EXCEPT !.p.busy = FALSE, !.mixed = m] = [p |-> z, cs |-> cs, mixed |-> m, idle |-> askedIdle]
    <3>1. w.p = q /\ [w.p EXCEPT !.busy = FALSE] = z
      BY <2>2
    <3> HIDE DEF z
    <3>2. [w EXCEPT !.p.busy = FALSE, !.mixed = m] = [w EXCEPT !.p = z, !.mixed = m]
      BY <2>2, <3>1
    <3> DEFINE w1 == [w EXCEPT !.p = z]
               w2 == [w1 EXCEPT !.mixed = m]
    <3>3. w1 = [p |-> z, cs |-> cs, mixed |-> mixed, idle |-> askedIdle]
      BY <2>2
    <3>4. [w EXCEPT !.p = z, !.mixed = m] = w2
      BY <2>2
    <3> HIDE DEF w1
    <3>5. w2 = [p |-> z, cs |-> cs, mixed |-> m, idle |-> askedIdle]
      BY <3>3
    <3> QED
      BY <3>2, <3>4, <3>5, Zenon
  <2>6. s = [p |-> panel, cs |-> calls, mixed |-> m, idle |-> askedIdle]
    BY <1>2
  <2> HIDE DEF s, e
  <2>7. v = [p |-> q, cs |-> calls, mixed |-> m, idle |-> askedIdle]
    <3>1. s \in StateType
      BY <1>2, <1>5, <2>6 DEF StateType
    <3>2. s.p = panel /\ s.cs = calls /\ s.mixed = m /\ s.idle = askedIdle
      BY <2>6
    <3>3. q = [s.p EXCEPT !.log = Append(s.p.log, e)]
      BY <3>2 DEF q
    <3> HIDE DEF v
    <3>4. Say(s, e) = [p |-> q, cs |-> s.cs, mixed |-> s.mixed, idle |-> s.idle]
      BY <1>4, <3>1, <3>3, SaidIs
    <3> QED
      BY <3>2, <3>4 DEF v
  <2> HIDE DEF v
  <2>8. u = [p |-> q, cs |-> cs, mixed |-> m, idle |-> askedIdle]
    BY <2>7 DEF To, cs
  <2> HIDE DEF u
  <2>9. t = [p |-> z, cs |-> cs, mixed |-> m, idle |-> askedIdle]
    <3>1. u.p = q /\ p = z
      BY <2>8
    <3> HIDE DEF p, z
    <3> QED
      BY <2>8, <3>1
  <2> HIDE DEF t
  <2> QED
    BY <2>4, <2>5, <2>9 DEF w
<1> HIDE DEF e, m, c
<1>7. s \in StateType /\ s.p = panel /\ s.cs = calls /\ s.mixed = m /\ s.idle = askedIdle
  BY <1>2, <1>5 DEF StateType
<1> HIDE DEF s
<1>8. Fine(s)
  BY <1>2, <1>5, <1>7 DEF Fine
<1>9. ~m => c \in InView(panel, calls)
  BY <1>1, ReadInView DEF c
<1>10. Fine(v) /\ v.p = [panel EXCEPT !.log = Append(panel.log, e)] /\ v.cs = calls /\ v.mixed = m
       /\ v.idle = askedIdle
  BY <1>4, <1>7, <1>8, <1>9, SayFine
<1> HIDE DEF v
<1>11. /\ v \in StateType /\ v.p.open = panel.open /\ v.p.asked = panel.asked
       /\ v.p.conv = panel.conv
  BY <1>2, <1>10 DEF PanelType, Fine
<1>12. "over" \in Stages /\ "over" \in Stages \ {"told"}
  BY DEF Stages
<1>13. Fine(u)
  BY <1>3, <1>5, <1>10, <1>11, <1>12, ToFine
<1>14. u.p = v.p /\ u.idle = askedIdle
  BY <1>3, <1>10, <1>11, <1>12, StagedIs
<1> HIDE DEF u
<1>15. u.p \in PanelType
  BY <1>13 DEF Fine, StateType
<1>16. p \in PanelType /\ Plain(u.p, p) /\ p.open = u.p.open /\ p.asked = u.p.asked /\ ~p.busy
  BY <1>15 DEF PanelType, Plain
<1> HIDE DEF p
<1>17. Fine(t) /\ t.p = p /\ t.idle = askedIdle
  BY <1>13, <1>14, <1>16, PlainFine
<1>18. Become(t)
  BY <1>1, <1>6 DEF e
<1> HIDE DEF t
<1> QED
  BY <1>11, <1>14, <1>16, <1>17, <1>18, StateIs, BecomeGood

LEMMA ListArrivesGood == ASSUME ChatInv, NEW r \in CallIds, ListArrives(r) PROVE ChatInv'
<1> DEFINE u == To(State, r, "over")
           p == [panel EXCEPT !.loading = FALSE]
           t == [u EXCEPT !.p = p]
<1>1. At(r, {"list"}, {"sent"}) /\ Become([Over(State, r) EXCEPT !.p.loading = FALSE])
  BY DEF ListArrives
<1>2. Over(State, r) = u
  BY DEF Over, To
<1>3. r \in Started(calls) /\ calls[r].stage # "over" /\ r \notin Reading(calls)
  <2>1. {"list"} \in SUBSET Kinds /\ {"sent"} \in SUBSET (Stages \ {"over"})
    BY DEF Kinds, Stages
  <2>2. calls[r].kind \notin Streams
    BY <1>1 DEF At, Streams
  <2> QED
    BY <1>1, <2>1, <2>2, AtStarted
<1>4. "over" \in Stages /\ "over" \in Stages \ {"told"}
  BY DEF Stages
<1>5. Fine(u)
  BY <1>3, <1>4, StateIs, ToFine
<1>6. u.p = panel /\ u.idle = askedIdle /\ u \in StateType
  BY <1>3, <1>4, StateIs, StagedIs
<1> HIDE DEF u
<1>7. /\ p \in PanelType /\ Plain(panel, p) /\ p.open = panel.open /\ p.asked = panel.asked
      /\ p.busy = panel.busy
  BY StateIs DEF PanelType, Plain
<1>8. [u EXCEPT !.p.loading = FALSE] = t
  BY <1>6 DEF StateType
<1> HIDE DEF p
<1>9. Fine(t) /\ t.p = p /\ t.idle = askedIdle
  BY <1>5, <1>6, <1>7, PlainFine
<1>10. Become(t)
  BY <1>1, <1>2, <1>8
<1> HIDE DEF t
<1> QED
  BY <1>7, <1>9, <1>10, StateIs, BecomeGood

\* The old conversation, or nothing, in the place of the log.
Loaded(r, p, m) == [Over(State, r) EXCEPT !.p = p, !.mixed = m]

LEMMA LoadIs ==
  ASSUME ChatInv, NEW r \in CallIds, At(r, {"load"}, {"sent"}),
         NEW p \in PanelType, p.asked = panel.asked, NEW m \in BOOLEAN
  PROVE  LET s == Loaded(r, p, m)
         IN  /\ s \in StateType /\ s.p = p /\ s.mixed = m /\ s.idle = askedIdle
             /\ Staged(calls, s.cs, r, "over")
             /\ p.asked => CallIds \ Started(s.cs) # {}
<1> DEFINE u == To(State, r, "over")
           s == [u EXCEPT !.p = p, !.mixed = m]
<1>1. Over(State, r) = u
  BY DEF Over, To
<1>2. r \in Started(calls) /\ calls[r].stage # "over"
  <2>1. {"load"} \in SUBSET Kinds /\ {"sent"} \in SUBSET (Stages \ {"over"})
    BY DEF Kinds, Stages
  <2> QED
    BY <2>1, AtStarted
<1>3. "over" \in Stages
  BY DEF Stages
<1>4. /\ u.p = panel /\ u.idle = askedIdle /\ u \in StateType
      /\ Staged(calls, u.cs, r, "over")
  BY <1>2, <1>3, StateIs, StagedIs
<1> HIDE DEF u
<1>5. s \in StateType /\ s.p = p /\ s.cs = u.cs /\ s.mixed = m /\ s.idle = askedIdle
  BY <1>4 DEF StateType
<1> HIDE DEF s, Loaded
<1>6. Staged(calls, s.cs, r, "over")
  BY <1>4, <1>5
<1>7. p.asked => CallIds \ Started(s.cs) # {}
  <2>1. panel.asked => CallIds \ Started(calls) # {}
    BY StateIs DEF Fine
  <2> QED
    BY <1>4, <1>5, <2>1 DEF Staged
<1> QED
  BY <1>1, <1>5, <1>6, <1>7 DEF s, Loaded

LEMMA LoadedState ==
  ASSUME ChatInv, NEW r \in CallIds, At(r, {"load"}, {"sent"})
  PROVE  /\ Over(State, r) \in StateType /\ Over(State, r).p = panel /\ Over(State, r).mixed = mixed
         /\ calls[r].of \in Convs
<1>1. Over(State, r) = To(State, r, "over") /\ "over" \in Stages
  BY DEF Over, To, Stages
<1>2. r \in Started(calls) /\ calls[r].stage # "over" /\ calls[r].of \in Convs
  <2>1. {"load"} \in SUBSET Kinds /\ {"sent"} \in SUBSET (Stages \ {"over"})
    BY DEF Kinds, Stages
  <2>2. calls[r].kind # "list"
    BY DEF At
  <2> QED
    BY <2>1, <2>2, AtStarted
<1>3. /\ To(State, r, "over") \in StateType /\ To(State, r, "over").p = panel
      /\ To(State, r, "over").mixed = mixed
  BY <1>1, <1>2, StateIs, StagedIs
<1> QED
  BY <1>1, <1>2, <1>3

LEMMA LoadArrivesGood == ASSUME ChatInv, NEW r \in CallIds, LoadArrives(r) PROVE ChatInv'
<1> DEFINE c == calls[r].of
           log == <<Entry("user", c), Entry("text", c)>>
           K == Streams \cup {"load", "rate"}
           o == Over(State, r)
           m == o.mixed \/ Underway(calls, K) # {r}
           p == [panel EXCEPT !.log = log, !.conv = c, !.pending = FALSE, !.viewing = TRUE,
                              !.loading = FALSE, !.listing = FALSE]
           s == Loaded(r, p, m)
<1>1. At(r, {"load"}, {"sent"})
  BY DEF LoadArrives
<1>2. o \in StateType /\ o.p = panel /\ o.mixed = mixed /\ c \in Convs
  BY <1>1, LoadedState
<1>3. Become([o EXCEPT !.p.log = log, !.p.conv = c, !.p.pending = FALSE, !.p.viewing = TRUE,
                       !.p.loading = FALSE, !.p.listing = FALSE, !.mixed = m])
  BY DEF LoadArrives
<1> HIDE DEF o
<1>4. log \in LogType /\ Ofs(log) = {c}
  <2>1. /\ Entry("user", c) \in EntryType /\ Entry("text", c) \in EntryType
        /\ Entry("user", c).of = c /\ Entry("text", c).of = c
    BY <1>2, EntryIsOne
  <2> QED
    BY <2>1, OfsPair
<1>5. m \in BOOLEAN /\ (mixed => m)
  BY <1>2 DEF StateType
<1>6. ~m => Underway(calls, K) = {r}
  OBVIOUS
<1> HIDE DEF m, log, c
<1>7. /\ p \in PanelType /\ p.log = log /\ p.conv = c /\ ~p.pending /\ p.viewing
      /\ p.open = panel.open /\ p.busy = panel.busy /\ p.asked = panel.asked
  BY <1>2, <1>4, StateIs DEF PanelType
<1>8. [o EXCEPT !.p.log = log, !.p.conv = c, !.p.pending = FALSE, !.p.viewing = TRUE,
                !.p.loading = FALSE, !.p.listing = FALSE, !.mixed = m] = [o EXCEPT !.p = p, !.mixed = m]
  BY <1>2 DEF StateType
<1> HIDE DEF p
<1>9. /\ s \in StateType /\ s.p = p /\ s.mixed = m /\ s.idle = askedIdle
      /\ Staged(calls, s.cs, r, "over")
      /\ p.asked => CallIds \ Started(s.cs) # {}
  <2>1. m \in BOOLEAN
    BY <1>5
  <2>2. p \in PanelType /\ p.asked = panel.asked
    BY <1>7
  <2> QED
    BY <1>1, <2>1, <2>2, LoadIs, Zenon
<1>10. Become(s)
  BY <1>3, <1>8 DEF Loaded, o
<1> HIDE DEF s
<1>11. ASSUME ~m PROVE Linked(p, s.cs)
  <2>1. Underway(calls, K) = {r}
    BY <1>6, <1>11
  <2>2. Reading(calls) \subseteq Underway(calls, K) /\ Underway(calls, {"rate"}) \subseteq Underway(calls, K)
    BY DEF Reading, Underway
  <2>3. Reading(s.cs) = {} /\ Underway(s.cs, {"rate"}) = {}
    BY <1>9, <2>1, <2>2 DEF Reading, Staged
  <2>4. c # None
    BY <1>2, ChatAssumption DEF Convs, CallIds
  <2>5. InView(p, s.cs) = {c}
    BY <1>4, <1>7, <2>3, <2>4 DEF InView
  <2> QED
    BY <1>4, <1>7, <2>3, <2>4, <2>5 DEF Linked
<1>12. Fine(s)
  BY <1>9, <1>11 DEF Fine
<1> QED
  BY <1>7, <1>9, <1>10, <1>12, StateIs, BecomeGood

LEMMA LoadFailsGood == ASSUME ChatInv, NEW r \in CallIds, LoadFails(r) PROVE ChatInv'
<1> DEFINE o == Over(State, r)
           p == [panel EXCEPT !.log = <<>>, !.conv = calls[r].of, !.pending = FALSE,
                              !.loading = FALSE, !.listing = FALSE]
           s == Loaded(r, p, TRUE)
<1>1. At(r, {"load"}, {"sent"})
      /\ Become([o EXCEPT !.p.log = <<>>, !.p.conv = calls[r].of, !.p.pending = FALSE,
                          !.p.loading = FALSE, !.p.listing = FALSE, !.mixed = TRUE])
  BY DEF LoadFails
<1>2. o \in StateType /\ o.p = panel /\ calls[r].of \in Convs
  BY <1>1, LoadedState
<1> HIDE DEF o
<1>3. [o EXCEPT !.p.log = <<>>, !.p.conv = calls[r].of, !.p.pending = FALSE,
                !.p.loading = FALSE, !.p.listing = FALSE, !.mixed = TRUE]
        = [o EXCEPT !.p = p, !.mixed = TRUE]
  BY <1>2 DEF StateType
<1>4. /\ p \in PanelType /\ p.open = panel.open /\ p.busy = panel.busy /\ p.asked = panel.asked
  BY <1>2, OfsEmpty, StateIs DEF PanelType
<1> HIDE DEF p
<1>5. TRUE \in BOOLEAN
  OBVIOUS
<1>6. /\ s \in StateType /\ s.p = p /\ s.mixed = TRUE /\ s.idle = askedIdle
      /\ p.asked => CallIds \ Started(s.cs) # {}
  BY <1>1, <1>4, <1>5, LoadIs, Zenon
<1>7. Become(s)
  BY <1>1, <1>3 DEF Loaded, o
<1> HIDE DEF s
<1>8. Fine(s)
  BY <1>6 DEF Fine
<1> QED
  BY <1>4, <1>6, <1>7, <1>8, StateIs, BecomeGood

LEMMA RateArrivesGood == ASSUME ChatInv, NEW r \in CallIds, RateArrives(r) PROVE ChatInv'
<1> DEFINE u == To(State, r, "over")
           p == [panel EXCEPT !.rated = TRUE, !.rating = FALSE]
           t == [u EXCEPT !.p = p]
<1>1. At(r, {"rate"}, {"sent"}) /\ Become([Over(State, r) EXCEPT !.p.rated = TRUE, !.p.rating = FALSE])
  BY DEF RateArrives
<1>2. Over(State, r) = u
  BY DEF Over, To
<1>3. /\ r \in Started(calls) /\ calls[r].stage # "over" /\ r \notin Reading(calls)
      /\ calls[r].kind = "rate" /\ r \in Underway(calls, {"rate"})
  <2>1. {"rate"} \in SUBSET Kinds /\ {"sent"} \in SUBSET (Stages \ {"over"})
    BY DEF Kinds, Stages
  <2>2. calls[r].kind \notin Streams /\ calls[r].kind = "rate"
    BY <1>1 DEF At, Streams
  <2>3. r \in Started(calls) /\ calls[r].stage # "over" /\ r \notin Reading(calls)
    BY <1>1, <2>1, <2>2, AtStarted
  <2> QED
    BY <2>2, <2>3 DEF Underway
<1>4. "over" \in Stages /\ "over" \in Stages \ {"told"}
  BY DEF Stages
<1>5. Fine(u)
  BY <1>3, <1>4, StateIs, ToFine
<1>6. /\ u.p = panel /\ u.idle = askedIdle /\ u.mixed = mixed /\ u \in StateType
      /\ Staged(calls, u.cs, r, "over")
  BY <1>3, <1>4, StateIs, StagedIs
<1> HIDE DEF u
<1>7. /\ p \in PanelType /\ p.conv = panel.conv /\ p.log = panel.log /\ p.viewing = panel.viewing
      /\ p.pending = panel.pending /\ p.open = panel.open /\ p.asked = panel.asked
      /\ p.busy = panel.busy
  BY StateIs DEF PanelType
<1>8. [u EXCEPT !.p.rated = TRUE, !.p.rating = FALSE] = t
  BY <1>6, StateIs DEF StateType, PanelType
<1> HIDE DEF p
<1>9. t \in StateType /\ t.p = p /\ t.cs = u.cs /\ t.mixed = mixed /\ t.idle = askedIdle
  BY <1>6, <1>7 DEF StateType
<1>10. Become(t)
  BY <1>1, <1>2, <1>8
<1> HIDE DEF t
<1>11. ASSUME ~mixed PROVE Linked(p, u.cs)
  <2>1. Linked(panel, u.cs)
    BY <1>5, <1>6, <1>11 DEF Fine
  <2>2. calls[r].of = panel.conv
    BY <1>3, <1>11, StateIs DEF Linked
  <2>3. r \in CallIds /\ u.cs[r].kind = "rate" /\ u.cs[r].of = panel.conv
    BY <1>3, <1>6, <2>2 DEF Staged
  <2>4. InView(p, u.cs) = InView(panel, u.cs)
    BY <1>7 DEF InView
  <2> QED
    BY <1>7, <2>1, <2>3, <2>4 DEF Linked
<1>12. Fine(t)
  BY <1>5, <1>6, <1>7, <1>9, <1>11 DEF Fine
<1> QED
  BY <1>7, <1>9, <1>10, <1>12, StateIs, BecomeGood

LEMMA ReadGood ==
  ASSUME ChatInv, NEW r \in CallIds, Read(r)
  PROVE  ChatInv'
<1>1. CASE ReadText(r)
  BY <1>1, ReadTextGood
<1>2. CASE ReadToolCall(r)
  BY <1>2, ReadToolCallGood
<1>3. CASE ReadToolResult(r)
  BY <1>3, ReadToolResultGood
<1>4. CASE ReadProposal(r)
  BY <1>4, ReadProposalGood
<1>5. CASE ReadDone(r)
  BY <1>5, ReadDoneGood
<1>6. CASE EndResponse(r)
  BY <1>6, EndResponseGood
<1>7. CASE BreakResponse(r)
  BY <1>7, BreakResponseGood
<1>8. CASE ListArrives(r)
  BY <1>8, ListArrivesGood
<1>9. CASE LoadArrives(r)
  BY <1>9, LoadArrivesGood
<1>10. CASE LoadFails(r)
  BY <1>10, LoadFailsGood
<1>11. CASE RateArrives(r)
  BY <1>11, RateArrivesGood
<1> QED
  BY <1>1, <1>2, <1>3, <1>4, <1>5, <1>6, <1>7, <1>8, <1>9, <1>10, <1>11 DEF Read

UserInPanel ==
  \/ SendText \/ Suggest \/ Toggle \/ Approve \/ Reject \/ Rate \/ TogglePanel
  \/ ShowHistory \/ BackFromHistory \/ SelectConversation \/ NewConversation

LEMMA UserGood == ASSUME ChatInv, UserInPanel PROVE ChatInv'
<1>1. CASE SendText
  BY <1>1, SendTextGood
<1>2. CASE Suggest
  BY <1>2, SuggestGood
<1>3. CASE Toggle
  BY <1>3, ToggleGood
<1>4. CASE Approve
  BY <1>4, ApproveGood
<1>5. CASE Reject
  BY <1>5, RejectGood
<1>6. CASE Rate
  BY <1>6, RateGood
<1>7. CASE TogglePanel
  BY <1>7, TogglePanelGood
<1>8. CASE ShowHistory
  BY <1>8, ShowHistoryGood
<1>9. CASE BackFromHistory
  BY <1>9, BackFromHistoryGood
<1>10. CASE SelectConversation
  BY <1>10, SelectConversationGood
<1>11. CASE NewConversation
  BY <1>11, NewConversationGood
<1> QED
  BY <1>1, <1>2, <1>3, <1>4, <1>5, <1>6, <1>7, <1>8, <1>9, <1>10, <1>11 DEF UserInPanel

LEMMA StayGood == ASSUME ChatInv, UNCHANGED chatVars PROVE ChatInv'
<1>1. State' = State
  BY DEF chatVars, State
<1> QED
  BY <1>1 DEF ChatInv

\* What follows from the invariant.
LEMMA ChatTypes == ChatInv => ChatTypeOK
<1> SUFFICES ASSUME ChatInv PROVE ChatTypeOK
  OBVIOUS
<1>1. /\ panel \in PanelType /\ calls \in CallsType /\ panel.log \in LogType
      /\ mixed \in BOOLEAN /\ askedIdle \in BOOLEAN
  BY StateIs DEF State, StateType
<1>2. \A i \in DOMAIN panel.log : panel.log[i] \in Entries /\ panel.log[i].checked \subseteq panel.log[i].actions
  BY <1>1 DEF LogType, EntryType
<1>3. calls \in [CallIds ->
         [kind : {"none", "message", "approve", "rate", "list", "load"}, of : Convs \cup {None},
          stage : {"unused", "sent", "calling", "answered", "proposed", "closing", "told", "over"},
          tools : SUBSET (1..MaxTools), waiting : SUBSET (1..MaxTools)]]
  BY <1>1 DEF CallsType, CallType, NoCall, Kinds, Stages, ToolSets
<1>4. \A x \in {"open", "listing", "viewing", "loading", "rated", "rating", "asked", "busy", "pending"} :
        panel[x] \in BOOLEAN
  BY <1>1 DEF PanelType
<1>5. panel.conv \in Convs \cup {None} /\ panel.current \in {0} \cup CallIds
  BY <1>1 DEF PanelType
<1> QED
  BY <1>1, <1>2, <1>3, <1>4, <1>5 DEF ChatTypeOK

LEMMA ChatIsOne == ChatInv => PanelIsOneConversation
<1> SUFFICES ASSUME ChatInv PROVE PanelIsOneConversation
  OBVIOUS
<1>1. ASSUME ~mixed PROVE LogIsOneConversation /\ ViewedIsOnlyRead /\ RatedIsShown
  <2>1. Linked(panel, calls) /\ panel.log \in LogType
    BY <1>1, StateIs
  <2>2. ASSUME NEW i \in DOMAIN panel.log
        PROVE  panel.log[i].of = (IF panel.conv = None THEN panel.log[1].of ELSE panel.conv)
    <3>1. 1 \in DOMAIN panel.log
      <4>1. DOMAIN panel.log = 1..Len(panel.log) /\ Len(panel.log) \in Nat
        BY <2>1, LenProperties DEF LogType
      <4> QED
        BY <4>1
    <3>2. panel.log[i].of \in InView(panel, calls) /\ panel.log[1].of \in InView(panel, calls)
      BY <3>1 DEF InView, Ofs
    <3>3. panel.conv # None => panel.conv \in InView(panel, calls)
      BY DEF InView
    <3> QED
      BY <2>1, <3>2, <3>3 DEF Linked
  <2>3. LogIsOneConversation
    BY <2>2 DEF LogIsOneConversation
  <2> QED
    BY <2>1, <2>3 DEF Linked, ViewedIsOnlyRead, RatedIsShown
<1>2. QuestionIsAsked
  BY StateIs DEF QuestionIsAsked
<1> QED
  BY <1>1, <1>2 DEF PanelIsOneConversation

\* A selected action is one of the card's, which a proposal has.
LEMMA ChoiceSeen == ChatInv => ChoiceIsSeen
<1> SUFFICES ASSUME ChatInv, NEW i \in Cards, NEW a \in panel.log[i].checked
             PROVE  \/ IsDrawn(a, panel.log[i].actions, Existing)
                    \/ a.day \notin ThisWeek /\ MostlyThisWeek(panel.log[i].actions)
  BY DEF ChoiceIsSeen
<1>1. panel.log[i] \in EntryType
  BY StateIs DEF Cards, LogType
<1>2. a \in panel.log[i].actions /\ panel.log[i].actions \in Proposals \cup {{}}
  BY <1>1 DEF EntryType, Entries
<1>3. panel.log[i].actions \in Proposals
  BY <1>2
<1> QED
  BY <1>2, <1>3, CardShows

(***************************************************************************)
(* The pages.                                                              *)
(***************************************************************************)
\* Which page is open, and how many visits of today's page there were.
Placed ==
  /\ place \in {"daily", "analytics", "other"} /\ steps \in 0..MaxSteps /\ visits \in 0..steps
  /\ place = "analytics" <=> report.period # NoPeriod
  /\ place = "daily" <=> advice.visit # 0

IInv == ChatInv /\ ReviewInv /\ AdviceInv /\ Placed

LEMMA PeriodOfReport ==
  ASSUME ReviewInv
  PROVE  /\ \A p \in Periods : Fetch(p) => report'.period # NoPeriod
         /\ GenerateReview \/ ReviewText \/ ReviewParsed \/ ReviewFails => report'.period = report.period
         /\ \A i \in DOMAIN fetches : SumsArrive(i) \/ SumsFail(i) => report'.period = report.period
         /\ CloseReport => report'.period = NoPeriod
<1>1. report \in ReportType
  BY DEF ReviewInv, ReviewTypeOK, ReportType
<1>2. \A p \in Periods : Fetch(p) => report'.period # NoPeriod
  BY <1>1, PeriodAssumption DEF ReportType, Fetch
<1>3. GenerateReview \/ ReviewText \/ ReviewParsed => report'.period = report.period
  BY <1>1 DEF ReportType, GenerateReview, ReviewText, ReviewParsed
<1>4. ReviewFails => report'.period = report.period
  BY <1>1 DEF ReportType, ReviewFails
<1>5. \A i \in DOMAIN fetches : SumsArrive(i) \/ SumsFail(i) => report'.period = report.period
  BY <1>1 DEF ReportType, SumsArrive, SumsFail
<1>6. CloseReport => report'.period = NoPeriod
  BY <1>1 DEF ReportType, CloseReport
<1> QED
  BY <1>2, <1>3, <1>4, <1>5, <1>6

LEMMA VisitOfCard ==
  ASSUME AdviceInv
  PROVE  /\ \A v \in Nat : ShowCard(v) => advice'.visit = v
         /\ Generate \/ ToggleBlock \/ Apply => advice'.visit = advice.visit
         /\ AdviceText \/ AdviceParsed \/ AdviceFails => advice'.visit = advice.visit
         /\ \A l \in applies : AddOne(l) => advice'.visit = advice.visit
<1>1. advice \in CardType
  BY AdviceInvType
<1>2. \A v \in Nat : ShowCard(v) => advice'.visit = v
  BY DEF ShowCard, NewCard
<1>3. Generate \/ Apply => advice'.visit = advice.visit
  BY <1>1 DEF CardType, Generate, Apply
<1>4. ToggleBlock => advice'.visit = advice.visit
  BY <1>1 DEF CardType, ToggleBlock
<1>5. AdviceText \/ AdviceParsed \/ AdviceFails => advice'.visit = advice.visit
  BY <1>1 DEF CardType, AdviceText, AdviceParsed, AdviceFails
<1>6. \A l \in applies : AddOne(l) => advice'.visit = advice.visit
  BY <1>1 DEF CardType, AddOne
<1> QED
  BY <1>2, <1>3, <1>4, <1>5, <1>6

LEMMA UserStep ==
  ASSUME NEW max, max \in 0..MaxSteps, User(max), Placed
  PROVE  steps' \in 0..MaxSteps /\ steps' = steps + 1
BY StepsAssumption DEF User, Placed

LEMMA GoStep ==
  ASSUME IInv, NEW there \in {"daily", "analytics", "other"}, Go(there)
  PROVE  IInv'
<1> USE StepsAssumption
<1>1. /\ place # there /\ place' = there /\ UNCHANGED chatVars
      /\ visits' = IF there = "daily" THEN visits + 1 ELSE visits
  BY DEF Go, ChatStays
<1>2. steps' \in 0..MaxSteps /\ steps' = steps + 1
  <2>1. User(MaxSteps) /\ MaxSteps \in 0..MaxSteps
    BY DEF Go, OnPage
  <2> QED
    BY <2>1, UserStep DEF IInv
<1>3. visits \in Nat /\ visits' \in 0..steps' /\ (there = "daily" => visits' # 0)
  BY <1>1, <1>2 DEF IInv, Placed
<1>4. IF there = "analytics" THEN OpenReport
      ELSE IF place = "analytics" THEN CloseReport ELSE ReviewStays
  BY DEF Go
<1>5. IF there = "daily" THEN ShowCard(visits') ELSE IF place = "daily" THEN ShowCard(0) ELSE AdviceStays
  BY DEF Go
<1>6. ReviewInv /\ AdviceInv /\ ChatInv /\ Placed
  BY DEF IInv
<1>7. ChatInv'
  BY <1>1, <1>6, StayGood
<1>8. ReviewInv' /\ (there = "analytics" <=> report'.period # NoPeriod)
  <2>1. CASE there = "analytics"
    <3>1. Week \in Periods /\ Fetch(Week)
      BY <1>4, <2>1, PeriodAssumption DEF OpenReport
    <3> QED
      BY <1>6, <2>1, <3>1, FetchReview, PeriodOfReport
  <2>2. CASE there # "analytics" /\ place = "analytics"
    BY <1>4, <1>6, <2>2, CloseReview, PeriodOfReport
  <2>3. CASE there # "analytics" /\ place # "analytics"
    <3>1. UNCHANGED reviewVars /\ report' = report
      BY <1>4, <2>3 DEF ReviewStays, reviewVars
    <3> QED
      BY <1>6, <2>3, <3>1, StayReview DEF Placed
  <2> QED
    BY <2>1, <2>2, <2>3
<1>9. AdviceInv' /\ (there = "daily" <=> advice'.visit # 0)
  <2>1. CASE there = "daily"
    <3>1. visits' \in Nat /\ ShowCard(visits') /\ visits' = visits + 1
      BY <1>1, <1>3, <1>5, <2>1
    <3>2. AdviceInv'
      <4> DEFINE v == visits + 1
      <4>1. v \in Nat /\ ShowCard(v) /\ v = visits + 1 /\ visits' = v
        BY <1>3, <3>1
      <4> HIDE DEF v
      <4> QED
        BY <1>6, <4>1, ShowAdvice
    <3>3. advice'.visit = visits'
      <4> DEFINE v == visits + 1
      <4>1. v \in Nat /\ ShowCard(v) /\ visits' = v
        BY <1>3, <3>1
      <4> HIDE DEF v
      <4> QED
        BY <1>6, <4>1, VisitOfCard
    <3> QED
      BY <1>3, <2>1, <3>2, <3>3
  <2>2. CASE there # "daily" /\ place = "daily"
    <3>1. 0 \in Nat /\ ShowCard(0) /\ visits' = visits
      BY <1>1, <1>5, <2>2
    <3>2. AdviceInv'
      BY <1>6, <3>1, ShowAdvice, Zenon
    <3>3. advice'.visit = 0
      BY <1>6, <3>1, VisitOfCard, Zenon
    <3> QED
      BY <2>2, <3>2, <3>3
  <2>3. CASE there # "daily" /\ place # "daily"
    <3>1. UNCHANGED <<adviceVars, visits>> /\ advice' = advice
      BY <1>1, <1>5, <2>3 DEF AdviceStays, adviceVars
    <3> QED
      BY <1>6, <2>3, <3>1, StayAdvice DEF Placed
  <2> QED
    BY <2>1, <2>2, <2>3
<1> QED
  BY <1>1, <1>2, <1>3, <1>7, <1>8, <1>9 DEF IInv, Placed

\* Steps that do not change the page.
LEMMA StayPlaced ==
  ASSUME Placed, Stay, report'.period = report.period \/ (place = "analytics" /\ report'.period # NoPeriod),
         advice'.visit = advice.visit,
         steps' = steps \/ (steps' \in 0..MaxSteps /\ steps' = steps + 1)
  PROVE  Placed'
BY StepsAssumption DEF Placed, Stay

LEMMA Keeps ==
  ASSUME IInv
  PROVE  /\ ChatStays => ChatInv'
         /\ ReviewStays => ReviewInv' /\ report' = report
         /\ AdviceStays /\ Stay => AdviceInv' /\ advice' = advice
<1>1. ChatStays => ChatInv'
  BY StayGood DEF IInv, ChatStays
<1>2. ReviewStays => ReviewInv' /\ report' = report
  BY StayReview DEF IInv, ReviewStays, reviewVars
<1>3. AdviceStays /\ Stay => AdviceInv' /\ advice' = advice
  BY StayAdvice DEF IInv, AdviceStays, adviceVars, Stay
<1> QED
  BY <1>1, <1>2, <1>3

LEMMA InPanelStep == ASSUME IInv, InPanel \/ AskInPanel PROVE IInv'
<1>1. Stay /\ ReviewStays /\ AdviceStays
  BY DEF InPanel, AskInPanel
<1>2. steps' \in 0..MaxSteps /\ steps' = steps + 1
  <2>1. \E max \in {MaxMoves, MaxSteps} : User(max)
    BY DEF InPanel, AskInPanel
  <2>2. {MaxMoves, MaxSteps} \subseteq 0..MaxSteps
    BY StepsAssumption
  <2> QED
    BY <2>1, <2>2, UserStep DEF IInv
<1>3. ChatInv'
  <2>1. CASE InPanel
    <3>1. UserInPanel
      BY <2>1 DEF InPanel, UserInPanel
    <3> QED
      BY <3>1, UserGood DEF IInv
  <2>2. CASE AskInPanel
    BY <2>2, SendPrefilledGood DEF IInv, AskInPanel
  <2> QED
    BY <2>1, <2>2
<1>4. ReviewInv' /\ AdviceInv' /\ report' = report /\ advice' = advice
  BY <1>1, Keeps
<1>5. Placed'
  BY <1>1, <1>2, <1>4, StayPlaced DEF IInv
<1> QED
  BY <1>3, <1>4, <1>5 DEF IInv

LEMMA OnReportStep == ASSUME IInv, OnReport PROVE IInv'
<1>1. Stay /\ ChatStays /\ AdviceStays /\ (PickPeriod \/ Retry \/ GenerateReview)
  BY DEF OnReport
<1>2. steps' \in 0..MaxSteps /\ steps' = steps + 1
  <2>1. User(MaxSteps) /\ MaxSteps \in 0..MaxSteps
    BY StepsAssumption DEF OnReport, OnPage
  <2> QED
    BY <2>1, UserStep DEF IInv
<1>3. ChatInv' /\ AdviceInv' /\ advice' = advice
  BY <1>1, Keeps
<1>4. /\ ReviewInv'
      /\ report'.period = report.period \/ (place = "analytics" /\ report'.period # NoPeriod)
  <2>1. CASE GenerateReview
    BY <2>1, WritingReview, PeriodOfReport DEF IInv
  <2>2. CASE PickPeriod \/ Retry
    <3>1. report.period # NoPeriod /\ \E p \in Periods : Fetch(p)
      <4>1. report.period \in Periods \cup {NoPeriod}
        BY DEF IInv, ReviewInv, ReviewTypeOK
      <4>2. CASE PickPeriod
        BY <4>2 DEF PickPeriod, ReportShown
      <4>3. CASE Retry
        BY <4>1, <4>3 DEF Retry
      <4> QED
        BY <2>2, <4>2, <4>3
    <3>2. PICK p \in Periods : Fetch(p)
      BY <3>1
    <3>3. ReviewInv' /\ report'.period # NoPeriod
      BY <3>2, FetchReview, PeriodOfReport DEF IInv
    <3>4. place = "analytics"
      BY <3>1 DEF IInv, Placed
    <3> QED
      BY <3>3, <3>4
  <2> QED
    BY <1>1, <2>1, <2>2
<1>5. Placed'
  BY <1>1, <1>2, <1>3, <1>4, StayPlaced DEF IInv
<1> QED
  BY <1>3, <1>4, <1>5 DEF IInv

LEMMA OnCardStep == ASSUME IInv, OnCard PROVE IInv'
<1>1. Stay /\ ChatStays /\ ReviewStays /\ (Generate \/ ToggleBlock \/ Apply) /\ visits' = visits
  BY DEF OnCard, Stay
<1>2. steps' \in 0..MaxSteps /\ steps' = steps + 1
  <2>1. User(MaxSteps) /\ MaxSteps \in 0..MaxSteps
    BY StepsAssumption DEF OnCard, OnPage
  <2> QED
    BY <2>1, UserStep DEF IInv
<1>3. ChatInv' /\ ReviewInv' /\ report' = report
  BY <1>1, Keeps
<1>4. AdviceInv' /\ advice'.visit = advice.visit
  BY <1>1, GenerateAdvice, ReadAdvice, ApplyAdvice, VisitOfCard DEF IInv
<1>5. Placed'
  BY <1>1, <1>2, <1>3, <1>4, StayPlaced DEF IInv
<1> QED
  BY <1>3, <1>4, <1>5 DEF IInv

LEMMA ChatReadsStep == ASSUME IInv, ChatReads PROVE IInv'
<1>1. PICK r \in CallIds : Read(r) /\ ReviewStays /\ AdviceStays /\ Stay /\ UNCHANGED steps
  BY DEF ChatReads
<1>2. ChatInv'
  BY <1>1, ReadGood DEF IInv
<1>3. ReviewInv' /\ AdviceInv' /\ report' = report /\ advice' = advice
  BY <1>1, Keeps
<1>4. Placed'
  BY <1>1, <1>3, StayPlaced DEF IInv
<1> QED
  BY <1>2, <1>3, <1>4 DEF IInv

LEMMA ReportReadsStep == ASSUME IInv, ReportReads PROVE IInv'
<1>1. ChatStays /\ AdviceStays /\ Stay /\ UNCHANGED steps
  BY DEF ReportReads
<1>2. ChatInv' /\ AdviceInv' /\ advice' = advice
  BY <1>1, Keeps
<1>3. ReviewInv' /\ report'.period = report.period
  <2>1. CASE ReviewText \/ ReviewParsed \/ ReviewFails
    BY <2>1, WritingReview, PeriodOfReport DEF IInv
  <2>2. CASE \E i \in DOMAIN fetches : SumsArrive(i) \/ SumsFail(i)
    BY <2>2, SumsReview, PeriodOfReport DEF IInv
  <2> QED
    BY <2>1, <2>2 DEF ReportReads
<1>4. Placed'
  BY <1>1, <1>2, <1>3, StayPlaced DEF IInv
<1> QED
  BY <1>2, <1>3, <1>4 DEF IInv

LEMMA CardReadsStep == ASSUME IInv, CardReads PROVE IInv'
<1>1. ChatStays /\ ReviewStays /\ Stay /\ UNCHANGED steps /\ visits' = visits
  BY DEF CardReads, Stay
<1>2. ChatInv' /\ ReviewInv' /\ report' = report
  BY <1>1, Keeps
<1>3. AdviceInv' /\ advice'.visit = advice.visit
  <2>1. CASE AdviceText \/ AdviceParsed \/ AdviceFails
    BY <1>1, <2>1, ReadAdvice, VisitOfCard DEF IInv
  <2>2. CASE \E l \in applies : AddOne(l)
    BY <1>1, <2>2, AddAdvice, VisitOfCard DEF IInv
  <2> QED
    BY <2>1, <2>2 DEF CardReads
<1>4. Placed'
  BY <1>1, <1>2, <1>3, StayPlaced DEF IInv
<1> QED
  BY <1>2, <1>3, <1>4 DEF IInv

-----------------------------------------------------------------------------
LEMMA InvInit == Init => IInv
<1> SUFFICES ASSUME Init PROVE IInv
  OBVIOUS
<1>1. ChatInv /\ ReviewInv /\ AdviceInv
  BY ChatStarts, InitReview, InitAdvice DEF Init
<1>2. report.period = NoPeriod /\ advice.visit = 0
  BY DEF Init, ReviewInit, AdviceInit, NewCard
<1>3. Placed
  BY <1>2, StepsAssumption DEF Init, Placed
<1> QED
  BY <1>1, <1>3 DEF IInv

LEMMA InvStep == IInv /\ [Next]_vars => IInv'
<1> SUFFICES ASSUME IInv, [Next]_vars PROVE IInv'
  OBVIOUS
<1>1. ASSUME NEW there \in {"daily", "analytics", "other"}, Go(there) PROVE IInv'
  BY <1>1, GoStep
<1>2. CASE InPanel \/ AskInPanel
  BY <1>2, InPanelStep
<1>3. CASE OnReport
  BY <1>3, OnReportStep
<1>4. CASE OnCard
  BY <1>4, OnCardStep
<1>5. CASE ChatReads
  BY <1>5, ChatReadsStep
<1>6. CASE ReportReads
  BY <1>6, ReportReadsStep
<1>7. CASE CardReads
  BY <1>7, CardReadsStep
<1>8. CASE UNCHANGED vars
  <2>1. ChatStays /\ ReviewStays /\ AdviceStays /\ Stay /\ UNCHANGED steps
    BY <1>8 DEF vars, ChatStays, ReviewStays, AdviceStays, Stay
  <2>2. ChatInv' /\ ReviewInv' /\ AdviceInv' /\ report' = report /\ advice' = advice
    BY <2>1, Keeps
  <2>3. Placed'
    BY <2>1, <2>2, StayPlaced DEF IInv
  <2> QED
    BY <2>2, <2>3 DEF IInv
<1> QED
  BY <1>1, <1>2, <1>3, <1>4, <1>5, <1>6, <1>7, <1>8 DEF Next

LEMMA Invariance == Spec => []IInv
BY InvInit, InvStep, PTL DEF Spec

(* The state of the panel, the review and the advice card has its types,    *)
(* and of the two pages the one that is open knows it.                      *)
THEOREM TypeCorrect == Spec => []TypeOK
<1>1. IInv => TypeOK
  <2> SUFFICES ASSUME IInv PROVE TypeOK
    OBVIOUS
  <2>1. ChatTypeOK /\ ReviewTypeOK /\ AdviceTypeOK
    BY ChatTypes DEF IInv, ReviewInv, AdviceInv
  <2>2. visits \in 0..MaxSteps
    BY StepsAssumption DEF IInv, Placed
  <2> QED
    BY <2>1, <2>2 DEF IInv, Placed, TypeOK
<1> QED
  BY <1>1, Invariance, PTL

(* Whatever the user sends, selects, approves, rates, asks from another     *)
(* page or begins anew, and in which order the responses, lists and old     *)
(* conversations arrive or fail: the log is one conversation, and it is the *)
(* one that the next message, rating or decision goes to, until the user    *)
(* leaves it while a response is read (mixed).                              *)
THEOREM OneConversation == Spec => []PanelIsOneConversation
<1>1. IInv => PanelIsOneConversation
  BY ChatIsOne DEF IInv
<1> QED
  BY <1>1, Invariance, PTL

(* What the user approves with a card is drawn on it, for every proposal    *)
(* and calendar, but blocks of other weeks than the current one when at     *)
(* least half of the proposal's days are in it.                             *)
THEOREM ChoiceShown == Spec => []ChoiceIsSeen
<1>1. IInv => ChoiceIsSeen
  BY ChoiceSeen DEF IInv
<1> QED
  BY <1>1, Invariance, PTL

(* A review is of the period and the sums it names and never mixes          *)
(* attempts, and a block of an advice is added once and counted right.      *)
THEOREM GeneratedTruth == Spec => []GeneratedIsTrue
<1>1. IInv => GeneratedIsTrue
  BY ReviewTrue, AdviceTrue DEF IInv, GeneratedIsTrue
<1> QED
  BY <1>1, Invariance, PTL
=============================================================================

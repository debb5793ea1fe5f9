--------------------------- MODULE Calendar_proofs ---------------------------
(***************************************************************************)
(* For any rows, days, clock times, pointers, estimates and bounds: the    *)
(* types of the calendar pages, that a gesture saves what it shows         *)
(* (GestureFaithful), that no entry is saved twice (SubmittingIsSaving),   *)
(* and, where the midnights of the timezone are clear of its transition,   *)
(* that the page shows what the tables hold (ViewTrue).                    *)
(***************************************************************************)
EXTENDS Calendar, SequenceTheorems, FiniteSetTheorems, TLAPS

(***************************************************************************)
(* The inductive invariant.                                                *)
(***************************************************************************)
CallType ==
  [op : {"list", "create", "update", "delete", "stop"}, kind : Kind, row : RowType,
   by : {"page", "dialog", "timer", "gesture", "drop"}, first : Int, last : Int,
   stage : {"sent", "ok"}, answer : SUBSET RowType]

\* One row has one identity.
Keyed(S) == \A r, q \in S : r.id = q.id => r = q

\* What a request is about, and what it has been answered.
CallOK(c) ==
  /\ c.op \in {"update", "delete"} => c.row.id \in Ids(c.kind)
  /\ c.op = "list" => c.by = "page"
  /\ c.stage = "sent" => c.answer = {}
  /\ \A r \in c.answer : r.id \in Ids(c.kind)
  /\ c.stage = "ok" /\ c.op = "list" => IsFiniteSet(c.answer) /\ Keyed(c.answer)
  /\ c.stage = "ok" /\ c.op # "list" => \E r \in c.answer : c.answer = {r}
  /\ c.op \in {"update", "delete"} => \A r \in c.answer : r.id = c.row.id

RowsOK ==
  /\ rows \subseteq RowType /\ IsFiniteSet(rows) /\ Keyed(rows)
  /\ \A r \in rows : r.id \in Blocks \cup Entries

\* The list of one kind: rows of that kind, at finitely many places.
ListOK(v, k) ==
  /\ DOMAIN v \subseteq Nat /\ IsFiniteSet(DOMAIN v)
  /\ \A i \in DOMAIN v : v[i] \in RowType /\ v[i].id \in Ids(k)
ViewOK == DOMAIN view = Kind /\ \A k \in Kind : ListOK(view[k], k)

CallsOK == calls \in Seq(CallType) /\ \A i \in DOMAIN calls : CallOK(calls[i])

DialogType ==
  [open : BOOLEAN, kind : Kind, id : Blocks \cup Entries \cup {NoId},
   s : Int \X Int, e : Int \X Int, task : Tasks \cup {NoTask},
   name : Tasks \cup {Empty, Typed}, mode : {"existing", "manual"}]
DialogOK == dialog \in DialogType /\ dialog.id \in Ids(dialog.kind) \cup {NoId}

GestureType ==
  [on : BOOLEAN, id : Blocks \cup Entries \cup {NoId}, day : Int,
   edge : {"move", "top", "bottom"}, s : Int, e : Int, grip : Int, ps : Int, pe : Int,
   inside : BOOLEAN]
GestureOK == gesture \in GestureType /\ (gesture.on => gesture.id \in Blocks)

DragOK == drag \in [held : BOOLEAN, task : Tasks \cup {NoTask}, over : BOOLEAN, y : Int]

CountsOK ==
  /\ page \in {"daily", "weekly"} /\ day \in Int /\ busy \in BOOLEAN /\ error \in BOOLEAN
  /\ stale \in [Kind -> BOOLEAN] /\ sent \in 0..MaxRequests /\ edits \in 0..MaxEdits

WellTyped == RowsOK /\ ViewOK /\ CallsOK /\ DialogOK /\ GestureOK /\ DragOK /\ CountsOK

\* An entry is being saved from the dialog: once while busy, else not.
Saving(c) == c.kind = "entry" /\ c.by = "dialog"
SavingIsBusy ==
  /\ busy => \E i \in DOMAIN calls : Saving(calls[i])
  /\ \A i, j \in DOMAIN calls : Saving(calls[i]) /\ Saving(calls[j]) => i = j
  /\ ~busy => \A i \in DOMAIN calls : ~Saving(calls[i])

\* The rows a request is about: those it names, or those that were made.
Subject(c) == IF c.op \in {"update", "delete"} THEN {c.row.id} ELSE {r.id : r \in c.answer}

\* The requests of a kind, and what they have changed unseen by the store.
CallsOf(cs, k) == {i \in DOMAIN cs : cs[i].kind = k}
Moving(cs, k) == {id \in Blocks \cup Entries :
                    \E i \in CallsOf(cs, k) : cs[i].stage = "ok" /\ id \in Subject(cs[i])}
HasList(cs, k) == \E i \in CallsOf(cs, k) : cs[i].op = "list"

\* The rows of a kind on some days.
Expected(rs, k, days) == {r \in rs : KindOf(r.id) = k /\ LocalDate(r.s) \in days}

\* A list is under way alone, for the days that are shown.
Listing(cs, rs, k, days) ==
  /\ \A i, j \in CallsOf(cs, k) : i = j
  /\ \A i \in CallsOf(cs, k) :
       /\ days = cs[i].first .. cs[i].last
       /\ cs[i].stage = "ok" => cs[i].answer = Expected(rs, k, days)

\* Otherwise the requests are about different rows, and what they are not
\* about is in the store as it is in the table.
Apart(cs, k) ==
  \A i, j \in CallsOf(cs, k) : i # j => Subject(cs[i]) \cap Subject(cs[j]) = {}
Once(v) == \A i, j \in DOMAIN v : i # j => v[i].id # v[j].id
IdsIn(v) == {v[i].id : i \in DOMAIN v}
SettledView(cs, rs, v, k) ==
  \A i \in DOMAIN v : v[i].id \notin Moving(cs, k) => v[i] \in rs
SettledRows(cs, rs, v, k, days) ==
  \A r \in Expected(rs, k, days) : r.id \notin Moving(cs, k) => \E i \in DOMAIN v : v[i] = r
Answered(c, rs, v) ==
  /\ c.op = "update" => c.row.id \in IdsIn(v)
  /\ c.stage = "ok" =>
       /\ c.op \in {"create", "stop"} => Subject(c) \cap IdsIn(v) = {}
       /\ c.op # "delete" => c.answer \subseteq rs
       /\ c.op = "delete" => \A r \in rs : r.id # c.row.id
Settling(cs, rs, v, k, days) ==
  /\ Apart(cs, k) /\ Once(v)
  /\ SettledView(cs, rs, v, k) /\ SettledRows(cs, rs, v, k, days)
  /\ \A i \in CallsOf(cs, k) : Answered(cs[i], rs, v)

Fresh(cs, rs, v, k, days) ==
  IF HasList(cs, k) THEN Listing(cs, rs, k, days) ELSE Settling(cs, rs, v, k, days)
AllFresh == \A k \in Kind : ~stale[k] => Fresh(calls, rows, view[k], k, ShownDays)

\* Local midnights are found where they are: the offset looked up for one is
\* that in force around it.
MidnightsClear ==
  \/ OffsetBefore = OffsetAfter
  \/ \A d \in Int :
       IF d * DayLength < Switch
       THEN Switch >= d * DayLength - OffsetBefore /\ Switch >= d * DayLength - OffsetAfter
       ELSE Switch <= d * DayLength - OffsetBefore /\ Switch <= d * DayLength - OffsetAfter

-----------------------------------------------------------------------------
(***************************************************************************)
(* Lists and finite sets.                                                  *)
(***************************************************************************)
\* The list without its i-th element.
LEMMA Removed ==
  ASSUME NEW S, NEW s \in Seq(S), NEW i \in 1..Len(s)
  PROVE  /\ RemoveAt(s, i) \in Seq(S)
         /\ Len(RemoveAt(s, i)) = Len(s) - 1
         /\ \A j \in 1..(Len(s) - 1) :
              RemoveAt(s, i)[j] = IF j < i THEN s[j] ELSE s[j + 1]
<1> DEFINE a == SubSeq(s, 1, i - 1)
           b == SubSeq(s, i + 1, Len(s))
<1>1. Len(s) \in Nat /\ \A j \in 1..Len(s) : s[j] \in S
  BY LenProperties, ElementOfSeq
<1>2. /\ a \in Seq(S) /\ Len(a) = i - 1
      /\ \A j \in 1..(i - 1) : a[j] = s[j]
  <2>1. \A j \in 1..(i - 1) : s[j] \in S
    BY <1>1
  <2> QED
    BY <2>1, <1>1, SubSeqProperties
<1>3. /\ b \in Seq(S) /\ Len(b) = Len(s) - i
      /\ \A j \in 1..(Len(s) - i) : b[j] = s[i + j]
  <2>1. \A j \in (i + 1)..Len(s) : s[j] \in S
    BY <1>1
  <2> QED
    BY <2>1, <1>1, SubSeqProperties
<1> HIDE DEF a, b
<1>4. /\ a \o b \in Seq(S) /\ Len(a \o b) = Len(a) + Len(b)
      /\ \A j \in 1..(Len(a) + Len(b)) :
           (a \o b)[j] = IF j <= Len(a) THEN a[j] ELSE b[j - Len(a)]
  BY <1>2, <1>3, ConcatProperties
<1>5. RemoveAt(s, i) = a \o b
  BY DEF RemoveAt, a, b
<1>6. ASSUME NEW j \in 1..(Len(s) - 1)
      PROVE  (a \o b)[j] = IF j < i THEN s[j] ELSE s[j + 1]
  <2>1. (a \o b)[j] = IF j <= i - 1 THEN a[j] ELSE b[j - (i - 1)]
    BY <1>1, <1>2, <1>3, <1>4
  <2>2. CASE j < i
    BY <2>1, <2>2, <1>1, <1>2
  <2>3. CASE ~(j < i)
    <3>1. j - (i - 1) \in 1..(Len(s) - i) /\ i + (j - (i - 1)) = j + 1 /\ ~(j <= i - 1)
      BY <2>3, <1>1
    <3> QED
      BY <2>1, <2>3, <3>1, <1>3
  <2> QED
    BY <2>2, <2>3
<1> QED
  BY <1>1, <1>2, <1>3, <1>4, <1>5, <1>6


\* A finite set of integers has a least and a greatest member.
LEMMA SomeLeast ==
  ASSUME NEW S, IsFiniteSet(S), S \subseteq Int, S # {}
  PROVE  \E x \in S : \A y \in S : x <= y
<1> DEFINE Below(x) == {y \in S : y < x}
           R == StrictSubsetOrdering(S)
           T == {Below(x) : x \in S}
<1>1. IsWellFoundedOn(R, FiniteSubsetsOf(S))
  BY FS_StrictSubsetOrderingWellFounded
<1>2. T \subseteq FiniteSubsetsOf(S) /\ T # {}
  <2>1. FiniteSubsetsOf(S) = SUBSET S
    BY FS_FiniteSubsetsOfFinite
  <2>2. T \subseteq SUBSET S /\ T # {}
    OBVIOUS
  <2> QED
    BY <2>1, <2>2
<1> HIDE DEF R
<1>3. PICK t \in T : \A u \in T : ~(<<u, t>> \in R)
  BY <1>1, <1>2, WFMin
<1>4. PICK x \in S : t = Below(x)
  BY <1>3
<1>5. ASSUME NEW y \in S, y < x PROVE FALSE
  <2>1. Below(y) \in T /\ Below(y) \in SUBSET S /\ t \in SUBSET S
    BY <1>4
  <2>2. \A z \in S : z < y => z < x
    <3> SUFFICES ASSUME NEW z \in S, z < y PROVE z < x
      OBVIOUS
    <3> QED
      BY <1>5
  <2>6. Below(y) \subseteq t
    BY <1>4, <2>2
  <2>7. y \in t
    BY <1>4, <1>5
  <2>8. y \notin Below(y)
    <3>1. ~(y < y)
      OBVIOUS
    <3> QED
      BY <3>1
  <2>3. Below(y) \subseteq t /\ y \in t /\ y \notin Below(y)
    BY <2>6, <2>7, <2>8
  <2>4. Below(y) # t
    BY <2>3
  <2>5. <<Below(y), t>> \in R
    BY <2>1, <2>3, <2>4 DEF R, StrictSubsetOrdering
  <2> QED
    BY <1>3, <2>1, <2>5
<1> QED
  BY <1>5

\* The greatest is the least of the negative numbers.
LEMMA GreatestOf ==
  ASSUME NEW S, IsFiniteSet(S), S \subseteq Int, S # {}
  PROVE  Max(S) \in S /\ \A y \in S : Max(S) >= y
<1> DEFINE N == {-x : x \in S}
           f == [x \in S |-> -x]
<1>1. f \in Surjection(S, N)
  <2>1. f \in [S -> N]
    OBVIOUS
  <2>2. \A t \in N : \E x \in S : f[x] = t
    OBVIOUS
  <2> QED
    BY <2>1, <2>2 DEF Surjection
<1>2. IsFiniteSet(N)
  BY <1>1, FS_Surjection
<1>3. N \subseteq Int /\ N # {}
  <2>1. N \subseteq Int
    OBVIOUS
  <2>2. PICK x \in S : TRUE
    OBVIOUS
  <2>3. -x \in N
    BY <2>2
  <2> QED
    BY <2>1, <2>3
<1>4. PICK n \in N : \A m \in N : n <= m
  BY <1>2, <1>3, SomeLeast
<1>5. PICK x \in S : n = -x
  BY <1>4
<1>6. \A y \in S : x >= y
  <2> SUFFICES ASSUME NEW y \in S PROVE x >= y
    OBVIOUS
  <2>1. -x <= -y
    BY <1>4, <1>5
  <2> QED
    BY <2>1
<1> QED
  BY <1>6 DEF Max

\* A finite set as a list: each member at one place.
LEMMA AsList ==
  ASSUME NEW S, IsFiniteSet(S)
  PROVE  /\ DOMAIN SetToSeq(S) = 1..Cardinality(S) /\ Cardinality(S) \in Nat
         /\ \A i \in DOMAIN SetToSeq(S) : SetToSeq(S)[i] \in S
         /\ \A x \in S : \E i \in DOMAIN SetToSeq(S) : SetToSeq(S)[i] = x
         /\ \A i, j \in DOMAIN SetToSeq(S) : SetToSeq(S)[i] = SetToSeq(S)[j] => i = j
<1> DEFINE n == Cardinality(S)
           f == SetToSeq(S)
<1>1. n \in Nat
  BY FS_CardinalityType
<1>2. PICK m \in Nat : ExistsBijection(1..m, S)
  BY FS_NatBijection
<1>3. n = m
  BY <1>2, FS_CountingElements
<1>4. PICK g \in Bijection(1..n, S) : TRUE
  BY <1>2, <1>3 DEF ExistsBijection
<1>5. g \in [1..n -> S] /\ IsInjective(g)
  BY <1>4 DEF Bijection, Injection
<1>6. f \in [1..n -> S] /\ IsInjective(f)
  BY <1>5 DEF SetToSeq
<1> HIDE DEF f
<1>7. f \in Injection(1..n, S)
  BY <1>6 DEF Injection
<1>8. Cardinality(1..n) = n
  BY <1>1, FS_Interval
<1>9. f \in Surjection(1..n, S)
  BY <1>7, <1>8, FS_Injection
<1>10. \A x \in S : \E i \in 1..n : f[i] = x
  BY <1>9 DEF Surjection
<1> QED
  BY <1>1, <1>6, <1>10 DEF f, IsInjective

(***************************************************************************)
(* The arithmetic of the timeline.                                         *)
(***************************************************************************)
LEMMA Offsets == OffsetBefore \in Int /\ OffsetAfter \in Int /\ Switch \in Int
BY OffsetAssumption

LEMMA LocalTypes ==
  ASSUME NEW t \in Int
  PROVE  /\ LocalDate(t) \in Int /\ LocalTime(t) \in Int
         /\ 0 <= LocalTime(t) /\ LocalTime(t) < 1440
<1>1. Offset(t) \in Int
  BY Offsets DEF Offset
<1>2. \A x \in Int : /\ x \div 1440 \in Int /\ x % 1440 \in Int
                    /\ 0 <= x % 1440 /\ x % 1440 < 1440
  OBVIOUS
<1>3. t + Offset(t) \in Int
  BY <1>1
<1> QED
  BY <1>2, <1>3 DEF LocalDate, LocalTime, DayLength

LEMMA InstantType ==
  ASSUME NEW d \in Int, NEW m \in Int
  PROVE  LocalToUtc(d, m) \in Int
<1>1. d * DayLength + m \in Int
  BY DEF DayLength
<1>2. Offset(d * DayLength + m) \in Int
  BY Offsets, <1>1 DEF Offset
<1> QED
  BY <1>1, <1>2 DEF LocalToUtc

LEMMA MomentType ==
  ASSUME NEW t \in Int \X Int
  PROVE  Instant(t) \in Int
<1>1. t[1] \in Int /\ t[2] \in Int
  OBVIOUS
<1> QED
  BY <1>1, InstantType DEF Instant

\* A day begins at its midnight.
LEMMA Midnight ==
  ASSUME MidnightsClear, NEW d \in Int, NEW t \in Int
  PROVE  t >= LocalToUtc(d, 0) <=> LocalDate(t) >= d
<1> DEFINE D == d * 1440
<1>1. D \in Int
  OBVIOUS
<1>2. D = d * DayLength /\ d * DayLength + 0 = D
  BY DEF DayLength
<1>3. LocalDate(t) >= d <=> t + Offset(t) >= D
  <2>1. \A x \in Int : x \div 1440 >= d <=> x >= d * 1440
    OBVIOUS
  <2>2. t + Offset(t) \in Int
    BY Offsets DEF Offset
  <2> QED
    BY <2>1, <2>2 DEF LocalDate, DayLength
<1>4. LocalToUtc(d, 0) = D - Offset(D)
  BY <1>2 DEF LocalToUtc
<1> HIDE DEF D
<1>5. CASE OffsetBefore = OffsetAfter
  BY <1>1, <1>3, <1>4, <1>5, Offsets DEF Offset
<1>6. CASE IF D < Switch THEN Switch >= D - OffsetBefore /\ Switch >= D - OffsetAfter
                         ELSE Switch <= D - OffsetBefore /\ Switch <= D - OffsetAfter
  BY <1>1, <1>3, <1>4, <1>6, Offsets DEF Offset
<1>7. \/ OffsetBefore = OffsetAfter
      \/ IF D < Switch THEN Switch >= D - OffsetBefore /\ Switch >= D - OffsetAfter
                       ELSE Switch <= D - OffsetBefore /\ Switch <= D - OffsetAfter
  BY <1>2 DEF MidnightsClear
<1> QED
  BY <1>5, <1>6, <1>7

\* Rounding to quarters: keeps what is on one, and the order.
LEMMA Snapping ==
  ASSUME NEW m \in Int
  PROVE  /\ Snap(m) \in Int /\ Snap(m) % 15 = 0
         /\ m % 15 = 0 => Snap(m) = m
         /\ m >= 0 => Snap(m) >= 0
         /\ \A n \in Int : m <= n => Snap(m) <= Snap(n)
BY DEF Snap

\* A time that is not negative comes back from its text.
LEMMA TimeString ==
  ASSUME NEW m \in Int, m >= 0
  PROVE  AsTimeString(m) = m
BY DEF AsTimeString

LEMMA Rounded ==
  ASSUME NEW y \in Int, NEW lo \in Int, NEW hi \in Int
  PROVE  YToMinutes(y, lo, hi) \in Int
<1>1. Within(y, lo, hi) \in Int
  BY DEF Within, Greatest, Least
<1> QED
  BY <1>1, Snapping DEF YToMinutes

\* A moved block keeps its length.
LEMMA DragKeeps ==
  ASSUME NEW s, NEW e, NEW grip, NEW y, NEW lo, NEW hi, s \in Int, e \in Int, grip \in Int,
         y \in Int, lo \in Int, hi \in Int, 0 <= lo, lo <= s, s < e, e <= hi
  PROVE  \E a \in Int : DragTo(s, e, grip, y, lo, hi) = [s |-> a, e |-> a + (e - s)] /\ 0 <= a
<1> DEFINE m == YToMinutes(y, lo, hi)
           wanted == Greatest(lo, m - grip)
           length == e - s
           x == IF wanted + length > hi THEN hi - length ELSE wanted
           start == Snap(x)
<1>1. m \in Int
  BY Rounded
<1> HIDE DEF m
<1>2. wanted \in Int /\ wanted >= lo
  BY <1>1 DEF Greatest
<1> HIDE DEF wanted
<1>3. x \in Int /\ x >= 0
  BY <1>2
<1> HIDE DEF x
<1>4. start \in Int /\ start >= 0
  BY <1>3, Snapping
<1>5. length \in Int /\ length > 0
  OBVIOUS
<1>6. DragTo(s, e, grip, y, lo, hi)
        = [s |-> AsTimeString(start), e |-> AsTimeString(start + length)]
  BY DEF DragTo, m, wanted, x
<1> HIDE DEF start, length
<1>7. AsTimeString(start) = start /\ AsTimeString(start + length) = start + length
  BY <1>4, <1>5, TimeString
<1>8. length = e - s
  BY DEF length
<1> QED
  BY <1>4, <1>5, <1>6, <1>7, <1>8

\* A resized block keeps its other edge and does not vanish.
LEMMA ResizeKeeps ==
  ASSUME NEW s \in Int, NEW e \in Int, NEW edge, NEW y \in Int,
         NEW lo \in Int, NEW hi \in Int, 0 <= lo, lo <= s, s < e, e <= hi
  PROVE  LET t == ResizeTo(s, e, edge, y, lo, hi)
         IN  /\ t.s \in Int /\ t.e \in Int /\ 0 <= t.s /\ t.s < t.e
             /\ IF edge = "top" THEN t.e = e ELSE t.s = s
<1> DEFINE m == YToMinutes(y, lo, hi)
           top == Greatest(lo, Least(m, e - 15))
           bottom == Least(hi, Greatest(m, s + 15))
<1>1. m \in Int
  BY Rounded
<1> HIDE DEF m
<1>2. top \in Int /\ 0 <= top /\ top < e
  BY <1>1 DEF Greatest, Least
<1>3. bottom \in Int /\ s < bottom
  BY <1>1 DEF Greatest, Least
<1>4. ResizeTo(s, e, edge, y, lo, hi)
        = IF edge = "top" THEN [s |-> AsTimeString(top), e |-> e]
                          ELSE [s |-> s, e |-> AsTimeString(bottom)]
  BY DEF ResizeTo, m
<1> HIDE DEF top, bottom
<1>5. AsTimeString(top) = top /\ AsTimeString(bottom) = bottom
  BY <1>2, <1>3, TimeString
<1> QED
  BY <1>2, <1>3, <1>4, <1>5

LEMMA GesturesAreTimes ==
  ASSUME NEW s \in Int, NEW e \in Int, NEW grip \in Int, NEW y \in Int, NEW edge,
         NEW lo \in Int, NEW hi \in Int
  PROVE  /\ DragTo(s, e, grip, y, lo, hi).s \in Int /\ DragTo(s, e, grip, y, lo, hi).e \in Int
         /\ ResizeTo(s, e, edge, y, lo, hi).s \in Int /\ ResizeTo(s, e, edge, y, lo, hi).e \in Int
<1> DEFINE m == YToMinutes(y, lo, hi)
<1>1. m \in Int
  BY Rounded
<1> HIDE DEF m
<1>2. \A x \in Int : AsTimeString(x) \in Int
  BY DEF AsTimeString
<1>3. \A x \in Int : Snap(x) \in Int
  BY Snapping
<1>4. \A a, b \in Int : Greatest(a, b) \in Int /\ Least(a, b) \in Int
  BY DEF Greatest, Least
<1>5. /\ AsTimeString(Greatest(lo, Least(m, e - 15))) \in Int
      /\ AsTimeString(Least(hi, Greatest(m, s + 15))) \in Int
  <2>1. e - 15 \in Int /\ s + 15 \in Int
    OBVIOUS
  <2>2. Least(m, e - 15) \in Int /\ Greatest(m, s + 15) \in Int
    BY <1>1, <1>4, <2>1
  <2> QED
    BY <1>2, <1>4, <2>2
<1>6. ResizeTo(s, e, edge, y, lo, hi).s \in Int /\ ResizeTo(s, e, edge, y, lo, hi).e \in Int
  BY <1>5 DEF ResizeTo, m
<1>7. DragTo(s, e, grip, y, lo, hi).s \in Int /\ DragTo(s, e, grip, y, lo, hi).e \in Int
  <2> DEFINE wanted == Greatest(lo, m - grip)
             x == IF wanted + (e - s) > hi THEN hi - (e - s) ELSE wanted
             start == Snap(x)
  <2>1. wanted \in Int
    BY <1>1, <1>4
  <2>2. x \in Int
    BY <2>1
  <2>3. DragTo(s, e, grip, y, lo, hi)
          = [s |-> AsTimeString(start), e |-> AsTimeString(start + (e - s))]
    BY DEF DragTo, m
  <2> HIDE DEF x
  <2>4. start \in Int
    BY <1>3, <2>2
  <2> HIDE DEF start
  <2>5. start + (e - s) \in Int
    BY <2>4
  <2> QED
    BY <1>2, <2>3, <2>4, <2>5
<1> QED
  BY <1>6, <1>7

\* A dropped task lands at its indicator, whole or filling the column.
LEMMA DropLands ==
  ASSUME NEW y \in Int, NEW n \in Nat, NEW lo \in Int, NEW hi \in Int,
         n % 15 = 0, lo % 15 = 0, hi % 15 = 0, lo <= hi
  PROVE  LET t == TimeFromY(y, n, lo, hi)
         IN  /\ t.s = DropIndicator(y, n, lo, hi)
             /\ t.e - t.s = Least(n, hi - lo)
<1> DEFINE w == Within(y, lo, hi)
           x == Least(hi - n, w)
           start == Greatest(lo, Least(hi - n, Snap(w)))
<1>1. w \in Int
  BY DEF Within, Greatest, Least
<1>2. TimeFromY(y, n, lo, hi) = [s |-> start, e |-> Least(start + n, hi)]
  BY DEF TimeFromY, YToMinutes
<1>3. DropIndicator(y, n, lo, hi) = Snap(Greatest(lo, x))
  BY DEF DropIndicator
<1> HIDE DEF w
<1>4. Snap(w) \in Int /\ Snap(lo) = lo /\ Snap(hi - n) = hi - n
  <2>1. (hi - n) % 15 = 0 /\ hi - n \in Int
    OBVIOUS
  <2> QED
    BY <1>1, <2>1, Snapping
<1>5. \A a, b \in Int : a <= b => Snap(a) <= Snap(b)
  BY Snapping
<1>6. Snap(x) = Least(hi - n, Snap(w)) /\ x \in Int
  <2>1. CASE hi - n < w
    <3>1. hi - n <= Snap(w) /\ x = hi - n
      BY <1>1, <1>4, <1>5, <2>1 DEF Least
    <3>2. Snap(x) = hi - n
      BY <3>1, <1>4
    <3>3. Least(hi - n, Snap(w)) = hi - n
      BY <3>1, <1>4 DEF Least
    <3> QED
      BY <3>1, <3>2, <3>3
  <2>2. CASE ~(hi - n < w)
    <3>1. Snap(w) <= hi - n /\ x = w
      BY <1>1, <1>4, <1>5, <2>2 DEF Least
    <3> QED
      BY <3>1, <1>1, <1>4 DEF Least
  <2> QED
    BY <2>1, <2>2
<1> HIDE DEF x
<1>7. Snap(x) \in Int
  BY <1>6, Snapping
<1>8. Snap(Greatest(lo, x)) = Greatest(lo, Snap(x))
  <2>1. CASE lo > x
    <3>1. Snap(x) <= lo /\ Greatest(lo, x) = lo
      BY <1>4, <1>5, <1>6, <2>1 DEF Greatest
    <3> QED
      BY <3>1, <1>4, <1>7 DEF Greatest
  <2>2. CASE ~(lo > x)
    <3>1. lo <= Snap(x) /\ Greatest(lo, x) = x
      BY <1>4, <1>5, <1>6, <2>2 DEF Greatest
    <3> QED
      BY <3>1, <1>7 DEF Greatest
  <2> QED
    BY <2>1, <2>2
<1>9. start = DropIndicator(y, n, lo, hi)
  BY <1>3, <1>6, <1>8
<1>10. Least(start + n, hi) - start = Least(n, hi - lo)
  <2>1. start = Greatest(lo, Least(hi - n, Snap(w)))
    OBVIOUS
  <2> HIDE DEF start
  <2> QED
    BY <1>4, <2>1 DEF Greatest, Least
<1> HIDE DEF start
<1> QED
  BY <1>2, <1>9, <1>10

(***************************************************************************)
(* The pages.                                                              *)
(***************************************************************************)
LEMMA Kinds ==
  /\ \A k \in Kind : \A id \in Ids(k) : KindOf(id) = k /\ id \in Blocks \cup Entries /\ id # NoId
  /\ \A id \in Blocks \cup Entries : KindOf(id) \in Kind /\ id \in Ids(KindOf(id))
  /\ \A id : KindOf(id) \in Kind
BY IdentityAssumption DEF Kind, Ids, KindOf

LEMMA UnsetType == Unset \in RowType
BY DEF Unset, Row, RowType

LEMMA RowFields ==
  ASSUME NEW r \in RowType
  PROVE  /\ r.id \in Blocks \cup Entries \cup {NoId} /\ r.s \in Int /\ r.e \in Int
         /\ r.task \in Tasks \cup {NoTask} /\ r.name \in Tasks \cup {Empty, Typed}
BY DEF RowType

LEMMA AWeek ==
  ASSUME NEW d \in Int
  PROVE  /\ d - (d % 7) \in Int
         /\ WeekOf(d) = (d - (d % 7)) .. (d - (d % 7) + 6)
<1> DEFINE m == d - (d % 7)
<1>1. m \in Int
  OBVIOUS
<1>2. WeekOf(d) = {m + i : i \in 0..6}
  BY DEF WeekOf
<1> HIDE DEF m
<1>3. \A x \in m .. (m + 6) : x - m \in 0..6 /\ m + (x - m) = x
  BY <1>1
<1>4. \A i \in 0..6 : m + i \in m .. (m + 6)
  BY <1>1
<1>5. WeekOf(d) = m .. (m + 6)
  BY <1>2, <1>3, <1>4
<1> QED
  BY <1>1, <1>5 DEF m

LEMMA DaysType ==
  ASSUME page \in {"daily", "weekly"}, day \in Int
  PROVE  ShownDays \subseteq Int
<1>1. {day} \subseteq Int /\ WeekOf(day) \subseteq Int
  BY AWeek
<1> QED
  BY <1>1 DEF ShownDays

LEMMA ViewedOf ==
  ASSUME NEW k
  PROVE  Viewed(k) = IdsIn(view[k])
BY DEF Viewed, IdsIn

\* What is drawn is a row of its kind in the store.
LEMMA ShownType ==
  ASSUME ViewOK, NEW k \in Kind, NEW r \in Shown(k)
  PROVE  r \in RowType /\ r.id \in Ids(k) /\ r.id \in Viewed(k)
<1>1. PICK i \in DOMAIN view[k] : r = view[k][i]
  BY DEF Shown, Places
<1>2. ListOK(view[k], k)
  BY DEF ViewOK
<1> QED
  BY <1>1, <1>2 DEF ListOK, Viewed

LEMMA ShownRowsType ==
  ASSUME ViewOK, NEW r \in ShownRows
  PROVE  /\ r \in RowType /\ r.id \in Ids(KindOf(r.id)) /\ r.id \in Viewed(KindOf(r.id))
         /\ KindOf(r.id) \in Kind /\ r.id # NoId
<1>1. r \in Shown("block") \/ r \in Shown("entry")
  BY DEF ShownRows, Columns
<1>2. PICK k \in Kind : r \in Shown(k)
  BY <1>1 DEF Kind
<1>3. r \in RowType /\ r.id \in Ids(k) /\ r.id \in Viewed(k)
  BY <1>2, ShownType
<1>4. KindOf(r.id) = k /\ r.id # NoId
  BY <1>3, Kinds
<1> QED
  BY <1>3, <1>4

\* The hours of the column begin by six and end at ten or at midnight.
Times == UNION {{LocalTime(r.s), LocalTime(r.e)} : r \in Columns \cup Shown("entry")}
HourMarks == {(t \div 60) * 60 : t \in Times} \cup {360}

LEMMA MarksAre ==
  ASSUME ViewOK, NEW h \in HourMarks
  PROVE  h \in Int /\ 0 <= h /\ h < 1440 /\ h % 15 = 0
<1>1. ASSUME NEW t \in Int, 0 <= t, t < 1440
      PROVE  /\ (t \div 60) * 60 \in Int /\ 0 <= (t \div 60) * 60 /\ (t \div 60) * 60 < 1440
             /\ ((t \div 60) * 60) % 15 = 0
  BY <1>1
<1>2. ASSUME NEW t \in Times
      PROVE  t \in Int /\ 0 <= t /\ t < 1440
  <2>1. PICK r \in ShownRows : t \in {LocalTime(r.s), LocalTime(r.e)}
    BY <1>2 DEF ShownRows, Times
  <2>2. r.s \in Int /\ r.e \in Int
    BY <2>1, ShownRowsType, RowFields
  <2>3. /\ LocalTime(r.s) \in Int /\ 0 <= LocalTime(r.s) /\ LocalTime(r.s) < 1440
        /\ LocalTime(r.e) \in Int /\ 0 <= LocalTime(r.e) /\ LocalTime(r.e) < 1440
    BY <2>2, LocalTypes
  <2> QED
    BY <2>1, <2>3
<1>3. 360 \in Int /\ 0 <= 360 /\ 360 < 1440 /\ 360 % 15 = 0
  OBVIOUS
<1>4. CASE h = 360
  BY <1>3, <1>4
<1>5. CASE h # 360
  <2>1. PICK t \in Times : h = (t \div 60) * 60
    BY <1>5 DEF HourMarks
  <2>2. t \in Int /\ 0 <= t /\ t < 1440
    BY <1>2
  <2> QED
    BY <1>1, <2>1, <2>2
<1> QED
  BY <1>4, <1>5

LEMMA HoursAre ==
  ASSUME ViewOK
  PROVE  /\ Hours.lo \in Int /\ Hours.hi \in Int
         /\ 0 <= Hours.lo /\ Hours.lo <= 360 /\ Hours.hi \in {1320, 1440}
         /\ Hours.lo % 15 = 0 /\ Hours.hi % 15 = 0
<1>1. CASE page = "weekly"
  <2>1. Hours = [lo |-> 360, hi |-> 1320]
    BY <1>1 DEF Hours, WeeklyHours
  <2> QED
    BY <2>1
<1>2. CASE page # "weekly"
  <2> DEFINE lo == CHOOSE h \in HourMarks : \A k \in HourMarks : h <= k
  <2>1. Hours = [lo |-> lo, hi |-> 1440]
    BY <1>2 DEF Hours, HourMarks, Times, DayLength
  <2> HIDE DEF lo
  <2>8. \A h \in HourMarks : h \in Int /\ 0 <= h /\ h < 1440 /\ h % 15 = 0
    BY MarksAre
  <2>2. 360 \in HourMarks
    BY DEF HourMarks
  <2>3. IsFiniteSet(HourMarks)
    <3> DEFINE n == 1440
    <3>1. n \in Int /\ n = 1440
      OBVIOUS
    <3> HIDE DEF n
    <3>4. n \in Int /\ 0 \in Int
      BY <3>1
    <3>2. IsFiniteSet(0 .. n)
      BY <3>4, FS_Interval
    <3>3. HourMarks \subseteq 0 .. n
      BY <2>8, <3>1
    <3> QED
      BY <3>2, <3>3, FS_Subset
  <2>4. HourMarks \subseteq Int
    BY <2>8
  <2>9. HourMarks # {}
    BY <2>2
  <2>5. \E h \in HourMarks : \A k \in HourMarks : h <= k
    BY <2>3, <2>4, <2>9, SomeLeast
  <2>6. lo \in HourMarks /\ \A k \in HourMarks : lo <= k
    BY <2>5 DEF lo
  <2>10. lo <= 360
    BY <2>2, <2>6
  <2>7. lo \in Int /\ 0 <= lo /\ lo % 15 = 0
    BY <2>6, <2>8
  <2> QED
    BY <2>1, <2>10, <2>7
<1> QED
  BY <1>1, <1>2

\* A dropped task lands at its indicator (second half of GestureFaithful).
LEMMA DropsAreFaithful ==
  ASSUME ViewOK, DragOK
  PROVE  DropFaithful
<1> SUFFICES ASSUME drag.over, drag.task # NoTask, Length(drag.task) % 15 = 0
             PROVE  LET landing == TimeFromY(drag.y, Length(drag.task), Hours.lo, Hours.hi)
                    IN  /\ landing.s = DropIndicator(drag.y, Length(drag.task), Hours.lo, Hours.hi)
                        /\ landing.e - landing.s = Least(Length(drag.task), Hours.hi - Hours.lo)
  BY DEF DropFaithful
<1>1. drag.y \in Int /\ drag.task \in Tasks
  BY DEF DragOK
<1>2. Length(drag.task) \in Nat
  BY <1>1, EstimateAssumption DEF Length
<1>3. Hours.lo \in Int /\ Hours.hi \in Int /\ Hours.lo <= Hours.hi
  BY HoursAre
<1>4. Hours.lo % 15 = 0 /\ Hours.hi % 15 = 0
  BY HoursAre
<1> HIDE DEF Length
<1> QED
  BY <1>1, <1>2, <1>3, <1>4, DropLands

(***************************************************************************)
(* The steps, by what they do to the requests: leave them alone, send one, *)
(* fetch the lists; or the service or its answer.                          *)
(***************************************************************************)
NewCall(c) ==
  /\ c \in CallType /\ CallOK(c) /\ c.op # "list" /\ c.stage = "sent"
  /\ c.op = "delete" => c.row.id \in Viewed(c.kind)

Quiet == UNCHANGED <<page, day, rows, view, calls, sent, stale, busy>>
Sends ==
  /\ UNCHANGED <<page, day, rows, view>>
  /\ \E c : /\ NewCall(c) /\ Send(<<c>>)
            /\ Saving(c) => ~busy
            /\ busy' = (busy \/ Saving(c))
Fetches ==
  /\ UNCHANGED <<page, rows, view, busy>>
  /\ day' \in Int /\ Send(Lists(ShownDays'))

\* The dialog, the gesture, the drag and what is counted of them.
PointerOK ==
  DialogOK /\ GestureOK /\ DragOK /\ edits \in 0..MaxEdits /\ error \in BOOLEAN

LEMMA CallIs ==
  ASSUME NEW op \in {"create", "update", "delete", "stop"}, NEW k \in Kind, NEW row \in RowType,
         NEW by \in {"page", "dialog", "timer", "gesture", "drop"},
         op \in {"update", "delete"} => row.id \in Ids(k),
         op = "delete" => row.id \in Viewed(k)
  PROVE  /\ NewCall(Call(op, k, row, by))
         /\ Saving(Call(op, k, row, by)) <=> k = "entry" /\ by = "dialog"
<1> DEFINE c == Call(op, k, row, by)
<1>1. c = [op |-> op, kind |-> k, row |-> row, by |-> by,
           first |-> 0, last |-> 0, stage |-> "sent", answer |-> {}]
  BY DEF Call
<1>2. c \in CallType
  BY <1>1 DEF CallType
<1>3. /\ c.op = op /\ c.kind = k /\ c.row = row /\ c.by = by
      /\ c.stage = "sent" /\ c.answer = {}
  BY <1>1
<1> HIDE DEF c
<1>4. CallOK(c)
  BY <1>3 DEF CallOK
<1>5. NewCall(c)
  BY <1>2, <1>3, <1>4 DEF NewCall
<1>6. Saving(c) <=> k = "entry" /\ by = "dialog"
  BY <1>3 DEF Saving
<1> QED
  BY <1>5, <1>6 DEF c

LEMMA SendsOne ==
  ASSUME NEW op \in {"create", "update", "delete", "stop"}, NEW k \in Kind, NEW row \in RowType,
         NEW by \in {"page", "dialog", "timer", "gesture", "drop"},
         op \in {"update", "delete"} => row.id \in Ids(k),
         op = "delete" => row.id \in Viewed(k),
         Send(<<Call(op, k, row, by)>>), UNCHANGED <<page, day, rows, view>>,
         k = "entry" /\ by = "dialog" => ~busy /\ busy' = TRUE,
         ~(k = "entry" /\ by = "dialog") => UNCHANGED busy,
         busy \in BOOLEAN
  PROVE  Sends
<1> DEFINE c == Call(op, k, row, by)
<1>1. NewCall(c) /\ (Saving(c) <=> k = "entry" /\ by = "dialog")
  BY CallIs
<1>2. Send(<<c>>)
  OBVIOUS
<1> HIDE DEF c
<1>3. (Saving(c) => ~busy) /\ busy' = (busy \/ Saving(c))
  <2>1. CASE k = "entry" /\ by = "dialog"
    BY <1>1, <2>1
  <2>2. CASE ~(k = "entry" /\ by = "dialog")
    BY <1>1, <2>2
  <2> QED
    BY <2>1, <2>2
<1> QED
  BY <1>1, <1>2, <1>3 DEF Sends

LEMMA GoDoes ==
  ASSUME WellTyped, NEW d \in Int, Go(d)
  PROVE  Fetches /\ PointerOK'
<1>1. Fetches
  <2>1. /\ page' = page /\ rows' = rows /\ view' = view /\ busy' = busy /\ day' = d
        /\ Send(Lists(IF page = "daily" THEN {d} ELSE WeekOf(d)))
    BY DEF Go, Fetch, uiVars
  <2>2. ShownDays' = IF page = "daily" THEN {d} ELSE WeekOf(d)
    BY <2>1 DEF ShownDays
  <2> QED
    BY <2>1, <2>2 DEF Fetches
<1>2. /\ dialog' = dialog /\ gesture' = gesture /\ drag' = drag /\ edits' = edits
      /\ error' = FALSE
  BY DEF Go, Fetch, uiVars
<1> QED
  BY <1>1, <1>2 DEF WellTyped, PointerOK, CountsOK, DialogOK, GestureOK, DragOK

LEMMA RetryDoes ==
  ASSUME WellTyped, Retry
  PROVE  Fetches /\ PointerOK'
<1>1. Fetches
  <2>1. /\ page' = page /\ rows' = rows /\ view' = view /\ busy' = busy /\ day' = day
        /\ Send(Lists({day})) /\ page = "daily"
    BY DEF Retry, Fetch, uiVars
  <2>2. ShownDays' = {day}
    BY <2>1 DEF ShownDays
  <2>3. day' \in Int
    BY <2>1 DEF WellTyped, CountsOK
  <2> QED
    BY <2>1, <2>2, <2>3 DEF Fetches
<1>2. /\ dialog' = dialog /\ gesture' = gesture /\ drag' = drag /\ edits' = edits
      /\ error' = FALSE
  BY DEF Retry, Fetch, uiVars
<1> QED
  BY <1>1, <1>2 DEF WellTyped, PointerOK, CountsOK, DialogOK, GestureOK, DragOK

LEMMA DiscardDoes ==
  ASSUME WellTyped, NEW r \in ShownRows, Discard(r)
  PROVE  Sends /\ PointerOK'
<1> DEFINE row == [Unset EXCEPT !.id = r.id]
<1>1. r.id \in Ids(KindOf(r.id)) /\ r.id \in Viewed(KindOf(r.id)) /\ KindOf(r.id) \in Kind
  BY ShownRowsType DEF WellTyped
<1>2. r.id \in Blocks \cup Entries
  BY <1>1, Kinds
<1>3. row \in RowType /\ row.id = r.id
  BY <1>2, UnsetType DEF RowType
<1>4. /\ UNCHANGED <<page, day, rows, view>> /\ UNCHANGED busy
      /\ Send(<<Call("delete", KindOf(r.id), row, "page")>>)
  BY DEF Discard, uiVars
<1> HIDE DEF row
<1>5. Sends
  BY <1>1, <1>3, <1>4, SendsOne DEF WellTyped, CountsOK
<1>6. /\ dialog' = dialog /\ gesture' = gesture /\ drag' = drag /\ edits' = edits
      /\ error' = error
  BY DEF Discard, uiVars
<1> QED
  BY <1>5, <1>6 DEF WellTyped, PointerOK, CountsOK, DialogOK, GestureOK, DragOK

LEMMA StopTimerDoes ==
  ASSUME WellTyped, NEW d \in Days, NEW now \in Moments, StopTimer(d, now)
  PROVE  Sends /\ PointerOK'
<1> DEFINE row == Row(NoId, Instant(<<d, now - 30>>), Instant(<<d, now>>), NoTask, Typed)
<1>1. d \in Int /\ now \in Int /\ now - 30 \in Int
  BY TimeAssumption
<1>2. Instant(<<d, now - 30>>) \in Int /\ Instant(<<d, now>>) \in Int
  <2>1. <<d, now - 30>> \in Int \X Int /\ <<d, now>> \in Int \X Int
    BY <1>1
  <2> QED
    BY <2>1, MomentType
<1>3. row \in RowType
  BY <1>2 DEF Row, RowType
<1>4. /\ UNCHANGED <<page, day, rows, view>> /\ UNCHANGED busy
      /\ Send(<<Call("stop", "entry", row, "timer")>>)
  BY DEF StopTimer, uiVars
<1> HIDE DEF row
<1>5. Sends
  BY <1>3, <1>4, SendsOne DEF WellTyped, CountsOK, Kind
<1>6. /\ dialog' = dialog /\ gesture' = gesture /\ drag' = drag /\ edits' = edits
      /\ error' = error
  BY DEF StopTimer, uiVars
<1> QED
  BY <1>5, <1>6 DEF WellTyped, PointerOK, CountsOK, DialogOK, GestureOK, DragOK

LEMMA OpeningDoes ==
  ASSUME WellTyped, NEW k \in Kind, NEW id, NEW s \in Int \X Int, NEW e \in Int \X Int,
         NEW task \in Tasks \cup {NoTask}, NEW name \in Tasks \cup {Empty, Typed},
         id \in Ids(k) \cup {NoId}, Opening(k, id, s, e, task, name)
  PROVE  Quiet /\ PointerOK'
<1> DEFINE mode == IF id # NoId /\ task = NoTask THEN "manual" ELSE "existing"
<1>1. mode \in {"existing", "manual"}
  OBVIOUS
<1>2. dialog' = [open |-> TRUE, kind |-> k, id |-> id, s |-> s, e |-> e,
                 task |-> task, name |-> name, mode |-> mode]
  BY DEF Opening
<1> HIDE DEF mode
<1>3. id \in Blocks \cup Entries \cup {NoId}
  BY Kinds
<1>4. DialogOK'
  BY <1>1, <1>2, <1>3 DEF DialogOK, DialogType
<1>5. Quiet /\ gesture' = gesture /\ drag' = drag /\ edits' = edits /\ error' = error
  BY DEF Opening, Quiet
<1> QED
  BY <1>4, <1>5 DEF WellTyped, PointerOK, CountsOK, GestureOK, DragOK

LEMMA EditDoes ==
  ASSUME WellTyped, NEW d \in DialogType, d.id = dialog.id, d.kind = dialog.kind, Edit(d)
  PROVE  Quiet /\ PointerOK'
<1>1. Quiet /\ gesture' = gesture /\ drag' = drag /\ error' = error /\ dialog' = d
      /\ edits < MaxEdits /\ edits' = edits + 1
  BY DEF Edit, Quiet
<1>2. DialogOK'
  BY <1>1 DEF DialogOK, WellTyped
<1>3. edits' \in 0..MaxEdits
  BY <1>1, BoundAssumption DEF WellTyped, CountsOK
<1> QED
  BY <1>1, <1>2, <1>3 DEF WellTyped, PointerOK, CountsOK, GestureOK, DragOK

\* A moment in local time is a day and a minute.
LEMMA LocalMoment ==
  ASSUME NEW t \in Int
  PROVE  LocalOf(t) \in Int \X Int
BY LocalTypes DEF LocalOf

LEMMA OpenNewDoes ==
  ASSUME WellTyped, NEW now \in Moments, OpenNewBlock(now) \/ OpenNewEntry(now)
  PROVE  Quiet /\ PointerOK'
<1> DEFINE start == (now \div 15) * 15
           s == NewTimes(now).s
           e == NewTimes(now).e
<1>1. start \in Int /\ start + 60 \in Int /\ day \in Int
  BY TimeAssumption DEF WellTyped, CountsOK
<1>2. s = <<day, start>> /\ e = <<day, start + 60>>
  BY DEF NewTimes
<1> HIDE DEF start
<1>3. s \in Int \X Int /\ e \in Int \X Int
  BY <1>1, <1>2
<1>4. Opening("block", NoId, s, e, NoTask, Empty) \/ Opening("entry", NoId, s, e, NoTask, Empty)
  BY DEF OpenNewBlock, OpenNewEntry
<1> HIDE DEF s, e
<1> QED
  BY <1>3, <1>4, OpeningDoes DEF Kind

LEMMA OpenWithTimeDoes ==
  ASSUME WellTyped, NEW d \in Int, NEW s \in Int, NEW e \in Int, OpenWithTime(d, s, e)
  PROVE  Quiet /\ PointerOK'
<1> DEFINE x == <<IF e <= s THEN d + 1 ELSE d, e>>
<1>1. x \in Int \X Int /\ <<d, s>> \in Int \X Int
  OBVIOUS
<1>2. Opening("block", NoId, <<d, s>>, x, NoTask, Empty)
  BY DEF OpenWithTime
<1> HIDE DEF x
<1> QED
  BY <1>1, <1>2, OpeningDoes DEF Kind

LEMMA DoubleClickDoes ==
  ASSUME WellTyped, NEW y \in Pointers, DoubleClick(y)
  PROVE  Quiet /\ PointerOK'
<1> DEFINE t == TimeFromY(y, 60, Hours.lo, Hours.hi)
           start == Greatest(Hours.lo, Least(Hours.hi - 60, YToMinutes(y, Hours.lo, Hours.hi)))
<1>1. Hours.lo \in Int /\ Hours.hi \in Int /\ y \in Int
  BY HoursAre, TimeAssumption DEF WellTyped
<1>2. t = [s |-> start, e |-> Least(start + 60, Hours.hi)]
  BY DEF TimeFromY
<1>3. YToMinutes(y, Hours.lo, Hours.hi) \in Int
  BY <1>1, Rounded
<1>4. start \in Int
  BY <1>1, <1>3 DEF Greatest, Least
<1>5. t.s \in Int /\ t.e \in Int
  <2> HIDE DEF start
  <2> QED
    BY <1>1, <1>2, <1>4 DEF Least
<1>6. OpenWithTime(day, t.s, t.e)
  BY DEF DoubleClick
<1>7. day \in Int
  BY DEF WellTyped, CountsOK
<1> HIDE DEF t, start
<1> QED
  BY <1>5, <1>6, <1>7, OpenWithTimeDoes

LEMMA ClickCellDoes ==
  ASSUME WellTyped, NEW y \in Pointers, NEW d \in Days, ClickCell(d, y)
  PROVE  Quiet /\ PointerOK'
<1> DEFINE hour == (Within(y, Hours.lo, Hours.hi - 1) \div 60) * 60
<1>1. Hours.lo \in Int /\ Hours.hi \in Int /\ y \in Int /\ d \in Int
  BY HoursAre, TimeAssumption DEF WellTyped
<1>2. Within(y, Hours.lo, Hours.hi - 1) \in Int
  BY <1>1 DEF Within, Greatest, Least
<1>3. hour \in Int /\ hour + 60 \in Int
  BY <1>2
<1>4. OpenWithTime(d, hour, hour + 60)
  BY DEF ClickCell
<1> HIDE DEF hour
<1> QED
  BY <1>1, <1>3, <1>4, OpenWithTimeDoes

LEMMA EditRowDoes ==
  ASSUME WellTyped, NEW r \in ShownRows, EditBlock(r) \/ EditEntry(r)
  PROVE  Quiet /\ PointerOK'
<1>1. r \in RowType /\ r.id \in Ids(KindOf(r.id)) /\ KindOf(r.id) \in Kind
  BY ShownRowsType DEF WellTyped
<1>2. /\ LocalOf(r.s) \in Int \X Int /\ LocalOf(r.e) \in Int \X Int
      /\ r.task \in Tasks \cup {NoTask} /\ r.name \in Tasks \cup {Empty, Typed}
  BY <1>1, RowFields, LocalMoment
<1>3. Opening(KindOf(r.id), r.id, LocalOf(r.s), LocalOf(r.e), r.task, r.name)
  BY DEF EditBlock, EditEntry
<1> QED
  BY <1>1, <1>2, <1>3, OpeningDoes

\* What the fields of the dialog are.
LEMMA DialogFields ==
  ASSUME WellTyped
  PROVE  /\ dialog \in DialogType
         /\ dialog.s \in Int \X Int /\ dialog.e \in Int \X Int
         /\ dialog.s[1] \in Int /\ dialog.s[2] \in Int
         /\ dialog.e[1] \in Int /\ dialog.e[2] \in Int
BY DEF WellTyped, DialogOK, DialogType

LEMMA PickStartDoes ==
  ASSUME WellTyped, NEW m \in Clock, PickStart(m)
  PROVE  Quiet /\ PointerOK'
<1> DEFINE length == Greatest(dialog.e[2] - dialog.s[2], 30)
           s == [dialog.s EXCEPT ![2] = m]
           e == IF Parses(dialog.e) THEN <<dialog.e[1], Until(m, length)>> ELSE dialog.e
           d == [dialog EXCEPT !.s = s, !.e = e]
<1>1. m \in Int /\ length \in Int
  BY DialogFields, TimeAssumption DEF Greatest
<1>2. s \in Int \X Int
  BY <1>1, DialogFields
<1>3. Edit(d)
  BY DialogFields DEF PickStart, DialogType
<1> HIDE DEF length
<1>4. Until(m, length) \in Int
  BY <1>1 DEF Until, Least, DayLength
<1>5. e \in Int \X Int
  BY <1>4, DialogFields
<1> HIDE DEF s, e
<1>6. d \in DialogType /\ d.id = dialog.id /\ d.kind = dialog.kind
  BY <1>2, <1>5, DialogFields DEF DialogType
<1> HIDE DEF d
<1> QED
  BY <1>3, <1>6, EditDoes

LEMMA PickEndDoes ==
  ASSUME WellTyped, NEW m \in Clock, PickEnd(m)
  PROVE  Quiet /\ PointerOK'
<1> DEFINE d == [dialog EXCEPT !.e[2] = m]
<1>1. m \in Int
  BY TimeAssumption
<1>2. d \in DialogType /\ d.id = dialog.id /\ d.kind = dialog.kind
  BY <1>1, DialogFields DEF DialogType
<1>3. Edit(d)
  BY DEF PickEnd
<1> HIDE DEF d
<1> QED
  BY <1>2, <1>3, EditDoes

LEMMA PickDateDoes ==
  ASSUME WellTyped, NEW x \in Days, PickDate(x)
  PROVE  Quiet /\ PointerOK'
<1> DEFINE s == [dialog.s EXCEPT ![1] = x]
           e == IF Parses(dialog.e) THEN <<x, dialog.e[2]>> ELSE dialog.e
           d == [dialog EXCEPT !.s = s, !.e = e]
<1>1. x \in Int
  BY TimeAssumption
<1>2. s \in Int \X Int /\ e \in Int \X Int
  BY <1>1, DialogFields
<1>3. Edit(d)
  BY DialogFields DEF PickDate, DialogType
<1> HIDE DEF s, e
<1>4. d \in DialogType /\ d.id = dialog.id /\ d.kind = dialog.kind
  BY <1>2, DialogFields DEF DialogType
<1> HIDE DEF d
<1> QED
  BY <1>3, <1>4, EditDoes

LEMMA PickDurationDoes ==
  ASSUME WellTyped, NEW n \in Durations, PickDuration(n)
  PROVE  Quiet /\ PointerOK'
<1> DEFINE m == Until(dialog.s[2], n)
           d == [dialog EXCEPT !.e[2] = m]
<1>1. m \in Int
  BY TimeAssumption, DialogFields DEF Until, Least, DayLength
<1>2. Edit(d)
  BY DEF PickDuration
<1> HIDE DEF m
<1>3. d \in DialogType /\ d.id = dialog.id /\ d.kind = dialog.kind
  BY <1>1, DialogFields DEF DialogType
<1> HIDE DEF d
<1> QED
  BY <1>2, <1>3, EditDoes

LEMMA SelectTaskDoes ==
  ASSUME WellTyped, NEW t \in Tasks, SelectTask(t)
  PROVE  Quiet /\ PointerOK'
<1> DEFINE end == dialog.s[2] + Estimate[t]
           e == IF Estimate[t] = 0 THEN dialog.e
                ELSE <<dialog.s[1] + end \div DayLength, end % DayLength>>
           d == [dialog EXCEPT !.task = t, !.name = t, !.e = e]
<1>1. Estimate[t] \in Int
  BY EstimateAssumption
<1>2. end \in Int
  BY <1>1, DialogFields
<1>3. Edit(d)
  BY DEF SelectTask
<1> HIDE DEF end
<1>4. dialog.s[1] + end \div DayLength \in Int /\ end % DayLength \in Int
  BY <1>2, DialogFields DEF DayLength
<1>5. e \in Int \X Int
  BY <1>4, DialogFields
<1> HIDE DEF e
<1>6. d \in DialogType /\ d.id = dialog.id /\ d.kind = dialog.kind
  BY <1>5, DialogFields DEF DialogType
<1> HIDE DEF d
<1> QED
  BY <1>3, <1>6, EditDoes

LEMMA AddTaskDoes ==
  ASSUME WellTyped, AddTask
  PROVE  Quiet /\ PointerOK'
<1> DEFINE d == [dialog EXCEPT !.name = Typed]
<1>1. d \in DialogType /\ d.id = dialog.id /\ d.kind = dialog.kind
  BY DialogFields DEF DialogType
<1>2. Edit(d)
  BY DEF AddTask, WithNewTask
<1> HIDE DEF d
<1> QED
  BY <1>1, <1>2, EditDoes

LEMMA SetModeDoes ==
  ASSUME WellTyped, NEW mode \in {"existing", "manual"}, SetMode(mode)
  PROVE  Quiet /\ PointerOK'
<1> DEFINE a == [dialog EXCEPT !.mode = mode, !.name = Empty]
           b == [dialog EXCEPT !.mode = mode, !.task = NoTask]
<1>1. a \in DialogType /\ a.id = dialog.id /\ a.kind = dialog.kind
  BY DialogFields DEF DialogType
<1>2. b \in DialogType /\ b.id = dialog.id /\ b.kind = dialog.kind
  BY DialogFields DEF DialogType
<1>3. Edit(a) \/ Edit(b)
  BY DEF SetMode
<1> HIDE DEF a, b
<1> QED
  BY <1>1, <1>2, <1>3, EditDoes

LEMMA TypeNameDoes ==
  ASSUME WellTyped, NEW name \in {Empty, Typed}, TypeName(name)
  PROVE  Quiet /\ PointerOK'
<1> DEFINE d == [dialog EXCEPT !.name = name]
<1>1. d \in DialogType /\ d.id = dialog.id /\ d.kind = dialog.kind
  BY DialogFields DEF DialogType
<1>2. Edit(d)
  BY DEF TypeName
<1> HIDE DEF d
<1> QED
  BY <1>1, <1>2, EditDoes

LEMMA ClosedOK ==
  Closed \in DialogType /\ Closed.id = NoId /\ Closed.kind \in Kind
<1>1. <<0, 0>> \in Int \X Int
  OBVIOUS
<1> QED
  BY <1>1 DEF Closed, DialogType, Kind

LEMMA CancelDoes ==
  ASSUME WellTyped, Cancel
  PROVE  Quiet /\ PointerOK'
<1>1. Quiet /\ dialog' = Closed /\ gesture' = gesture /\ drag' = drag /\ edits' = edits
      /\ error' = error
  BY DEF Cancel, Quiet
<1>2. DialogOK'
  BY <1>1, ClosedOK DEF DialogOK
<1> QED
  BY <1>1, <1>2 DEF WellTyped, PointerOK, CountsOK, GestureOK, DragOK

LEMMA SubmitDoes ==
  ASSUME WellTyped, NEW k \in Kind, Submit(k),
         k = "entry" => busy' = TRUE, k = "block" => UNCHANGED busy
  PROVE  Sends /\ PointerOK'
<1> DEFINE op == IF dialog.id = NoId THEN "create" ELSE "update"
           row == Row(dialog.id, Instant(dialog.s), Instant(dialog.e), dialog.task, dialog.name)
<1>1. /\ dialog.kind = k /\ (k = "entry" => ~busy)
      /\ UNCHANGED <<page, day, rows, view, error, dialog, gesture, drag, edits>>
      /\ Send(<<Call(op, k, row, "dialog")>>)
  BY DEF Submit, CanSave
<1>2. /\ dialog.id \in Blocks \cup Entries \cup {NoId}
      /\ dialog.id \in Ids(dialog.kind) \cup {NoId}
      /\ dialog.task \in Tasks \cup {NoTask} /\ dialog.name \in Tasks \cup {Empty, Typed}
  BY DEF WellTyped, DialogOK, DialogType
<1>3. Instant(dialog.s) \in Int /\ Instant(dialog.e) \in Int
  BY DialogFields, MomentType
<1>4. row \in RowType /\ row.id = dialog.id
  BY <1>2, <1>3 DEF Row, RowType
<1>5. op \in {"create", "update", "delete", "stop"} /\ op # "delete"
      /\ (op \in {"update", "delete"} => row.id \in Ids(k))
  BY <1>1, <1>2, <1>4
<1> HIDE DEF op, row
<1>6. busy \in BOOLEAN /\ k \in {"block", "entry"}
  BY DEF WellTyped, CountsOK, Kind
<1>7. Sends
  <2>1. CASE k = "entry"
    BY <1>1, <1>4, <1>5, <1>6, <2>1, SendsOne
  <2>2. CASE k = "block"
    BY <1>1, <1>4, <1>5, <1>6, <2>2, SendsOne
  <2> QED
    BY <1>6, <2>1, <2>2
<1> QED
  BY <1>1, <1>7 DEF WellTyped, PointerOK, CountsOK, DialogOK, GestureOK, DragOK

LEMMA GrabDoes ==
  ASSUME WellTyped, NEW r \in Columns, NEW y \in Pointers, Grab(r, y)
  PROVE  Quiet /\ PointerOK' /\ ~gesture'.inside
<1>1. r \in RowType /\ r.id \in Blocks
  <2>1. r \in Shown("block") /\ "block" \in Kind
    BY DEF Columns, Kind
  <2> QED
    BY <2>1, ShownType DEF WellTyped, Ids
<1>2. /\ r.id \in Blocks \cup Entries \cup {NoId}
      /\ LocalDate(r.s) \in Int /\ LocalTime(r.s) \in Int /\ LocalTime(r.e) \in Int
  BY <1>1, RowFields, LocalTypes
<1>3. PICK edge \in {"move", "top", "bottom"}, grip \in Int : gesture' = GestureOn(r, edge, grip)
  <2>1. Hours.lo \in Int /\ Hours.hi \in Int /\ y \in Int
    BY HoursAre, TimeAssumption DEF WellTyped
  <2>3. YToMinutes(y, Hours.lo, Hours.hi) \in Int
    BY <2>1, Rounded
  <2>2. YToMinutes(y, Hours.lo, Hours.hi) - LocalTime(r.s) \in Int
    BY <1>2, <2>3
  <2> QED
    BY <2>2 DEF Grab, GrabBlock, GrabEdge
<1>4. gesture' \in GestureType /\ gesture'.id \in Blocks /\ ~gesture'.inside
  BY <1>1, <1>2, <1>3 DEF GestureOn, GestureType
<1>5. Quiet /\ dialog' = dialog /\ drag' = drag /\ edits' = edits /\ error' = error
  BY DEF Grab, Quiet
<1> QED
  BY <1>4, <1>5 DEF WellTyped, PointerOK, CountsOK, DialogOK, GestureOK, DragOK

LEMMA GestureFields ==
  ASSUME GestureOK
  PROVE  /\ gesture.day \in Int /\ gesture.edge \in {"move", "top", "bottom"}
         /\ gesture.s \in Int /\ gesture.e \in Int /\ gesture.grip \in Int
         /\ gesture.ps \in Int /\ gesture.pe \in Int
         /\ gesture.on \in BOOLEAN /\ gesture.inside \in BOOLEAN
         /\ gesture.id \in Blocks \cup Entries \cup {NoId}
BY DEF GestureOK, GestureType

\* A move of the pointer: the types, and the first half of GestureFaithful.
LEMMA MoveDoes ==
  ASSUME WellTyped, NEW y \in Pointers, Move(y)
  PROVE  Quiet /\ PointerOK' /\ MoveFaithful'
<1> DEFINE g == gesture
           lo == Hours.lo
           hi == Hours.hi
           drg == DragTo(g.s, g.e, g.grip, y, lo, hi)
           rsz == ResizeTo(g.s, g.e, g.edge, y, lo, hi)
           t == IF g.edge = "move" THEN drg ELSE rsz
           inside == lo <= g.s /\ g.s < g.e /\ g.e <= hi
<1>1. /\ g.edge \in {"move", "top", "bottom"}
      /\ g.s \in Int /\ g.e \in Int /\ g.grip \in Int
  BY GestureFields DEF WellTyped
<1>2. lo \in Int /\ hi \in Int /\ 0 <= lo
  BY HoursAre DEF WellTyped
<1>3. y \in Int
  BY TimeAssumption
<1>4. gesture' = [gesture EXCEPT !.ps = t.s, !.pe = t.e, !.inside = inside] /\ gesture.on
  BY DEF Move
<1> HIDE DEF lo, hi
<1>5. t.s \in Int /\ t.e \in Int
  BY <1>1, <1>2, <1>3, GesturesAreTimes
<1>6. ASSUME inside
      PROVE  /\ 0 <= t.s /\ t.s < t.e
             /\ g.edge = "move" => t.e - t.s = g.e - g.s
             /\ g.edge = "top" => t.e = g.e
             /\ g.edge = "bottom" => t.s = g.s
  <2>1. CASE g.edge = "move"
    <3>2. lo <= g.s /\ g.s < g.e /\ g.e <= hi
      BY <1>6
    <3>1. 0 <= drg.s /\ drg.s < drg.e /\ drg.e - drg.s = g.e - g.s
      <4> DEFINE s == g.s
                 e == g.e
                 grip == g.grip
      <4>1. s \in Int /\ e \in Int /\ grip \in Int /\ lo <= s /\ s < e /\ e <= hi
        BY <1>1, <3>2
      <4> HIDE DEF s, e, grip
      <4>2. PICK a \in Int : DragTo(s, e, grip, y, lo, hi) = [s |-> a, e |-> a + (e - s)] /\ 0 <= a
        BY <4>1, <1>2, <1>3, DragKeeps
      <4>3. drg.s = a /\ drg.e = a + (e - s)
        BY <4>2 DEF s, e, grip
      <4>4. e - s = g.e - g.s
        BY DEF s, e
      <4> HIDE DEF drg
      <4> QED
        BY <4>1, <4>2, <4>3, <4>4
    <3> QED
      BY <2>1, <3>1
  <2>2. CASE g.edge # "move"
    <3>1. 0 <= g.s
      BY <1>1, <1>2, <1>6
    <3>2. 0 <= rsz.s /\ rsz.s < rsz.e /\ IF g.edge = "top" THEN rsz.e = g.e ELSE rsz.s = g.s
      BY <1>1, <1>2, <1>3, <1>6, <3>1, ResizeKeeps
    <3> QED
      BY <1>1, <2>2, <3>2
  <2> QED
    BY <2>1, <2>2
<1>7. inside \in BOOLEAN
  OBVIOUS
<1> HIDE DEF t, inside
<1>8. gesture \in GestureType
  BY DEF WellTyped, GestureOK
<1>9. gesture' \in GestureType /\ gesture'.id = gesture.id /\ gesture'.on = gesture.on
  BY <1>4, <1>5, <1>7, <1>8 DEF GestureType
<1>10. /\ gesture'.ps = t.s /\ gesture'.pe = t.e /\ gesture'.inside = inside
       /\ gesture'.s = gesture.s /\ gesture'.e = gesture.e /\ gesture'.edge = gesture.edge
  BY <1>4, <1>8 DEF GestureType
<1>11. MoveFaithful'
  BY <1>1, <1>6, <1>10 DEF MoveFaithful
<1>12. Quiet /\ dialog' = dialog /\ drag' = drag /\ edits' = edits /\ error' = error
  BY DEF Move, Quiet
<1>13. GestureOK'
  BY <1>9 DEF WellTyped, GestureOK
<1> QED
  BY <1>11, <1>12, <1>13 DEF WellTyped, PointerOK, CountsOK, DialogOK, DragOK

LEMMA IdleOK == Idle \in GestureType /\ ~Idle.on
BY DEF Idle, GestureType

LEMMA ReleaseDoes ==
  ASSUME WellTyped, Release
  PROVE  (Quiet \/ Sends) /\ PointerOK' /\ gesture' = Idle
<1> DEFINE g == gesture
           row == [Unset EXCEPT !.id = g.id, !.s = Instant(<<g.day, g.ps>>),
                                !.e = Instant(<<g.day, g.pe>>)]
<1>1. /\ g.on /\ gesture' = Idle
      /\ UNCHANGED <<page, edits, day, rows, view, error, dialog, busy, drag>>
      /\ \/ Send(<<Call("update", "block", row, "gesture")>>)
         \/ UNCHANGED <<calls, sent, stale>>
  BY DEF Release
<1>2. g.id \in Blocks
  BY <1>1 DEF WellTyped, GestureOK
<1>3. Instant(<<g.day, g.ps>>) \in Int /\ Instant(<<g.day, g.pe>>) \in Int
  <2>1. <<g.day, g.ps>> \in Int \X Int /\ <<g.day, g.pe>> \in Int \X Int
    BY GestureFields DEF WellTyped
  <2> QED
    BY <2>1, MomentType
<1>4. row \in RowType /\ row.id = g.id
  BY <1>2, <1>3, UnsetType DEF RowType
<1> HIDE DEF row
<1>5. row.id \in Ids("block") /\ "block" \in Kind
  BY <1>2, <1>4 DEF Ids, Kind
<1>6. Quiet \/ Sends
  <2>1. CASE Send(<<Call("update", "block", row, "gesture")>>)
    BY <1>1, <1>4, <1>5, <2>1, SendsOne DEF WellTyped, CountsOK
  <2>2. CASE UNCHANGED <<calls, sent, stale>>
    BY <1>1, <2>2 DEF Quiet
  <2> QED
    BY <1>1, <2>1, <2>2
<1>7. GestureOK'
  BY <1>1, IdleOK DEF GestureOK
<1> QED
  BY <1>1, <1>6, <1>7 DEF WellTyped, PointerOK, CountsOK, DialogOK, DragOK

LEMMA PickUpDoes ==
  ASSUME WellTyped, NEW t \in Tasks, PickUp(t)
  PROVE  Quiet /\ PointerOK'
<1>1. Quiet /\ drag' = [NoDrag EXCEPT !.held = TRUE, !.task = t]
      /\ gesture' = gesture /\ dialog' = dialog /\ edits' = edits /\ error' = error
  BY DEF PickUp, Quiet
<1>3. drag' = [held |-> TRUE, task |-> t, over |-> FALSE, y |-> 0]
  BY <1>1 DEF NoDrag
<1>2. DragOK'
  BY <1>3 DEF DragOK
<1> QED
  BY <1>1, <1>2 DEF WellTyped, PointerOK, CountsOK, DialogOK, GestureOK

LEMMA DragOverDoes ==
  ASSUME WellTyped, NEW over \in BOOLEAN, NEW y \in Pointers, DragOver(over, y)
  PROVE  Quiet /\ PointerOK'
<1> DEFINE at == IF over THEN y ELSE 0
<1>1. at \in Int
  BY TimeAssumption
<1>2. Quiet /\ drag' = [drag EXCEPT !.over = over, !.y = at]
      /\ gesture' = gesture /\ dialog' = dialog /\ edits' = edits /\ error' = error
  BY DEF DragOver, Quiet
<1> HIDE DEF at
<1>3. DragOK'
  BY <1>1, <1>2 DEF WellTyped, DragOK
<1> QED
  BY <1>2, <1>3 DEF WellTyped, PointerOK, CountsOK, DialogOK, GestureOK

LEMMA NoDragOK == NoDrag \in [held : BOOLEAN, task : Tasks \cup {NoTask}, over : BOOLEAN, y : Int]
BY DEF NoDrag

LEMMA DropOnDayDoes ==
  ASSUME WellTyped, DropOnDay
  PROVE  (Quiet \/ Sends) /\ PointerOK'
<1> DEFINE n == Length(drag.task)
           t == TimeFromY(drag.y, n, Hours.lo, Hours.hi)
           start == Greatest(Hours.lo, Least(Hours.hi - n, YToMinutes(drag.y, Hours.lo, Hours.hi)))
           row == Row(NoId, Instant(<<day, t.s>>), Instant(<<day, t.e>>), drag.task, drag.task)
           on == drag.task # NoTask /\ drag.over
<1>1. /\ UNCHANGED <<page, edits, day, rows, view, error, dialog, busy, gesture>>
      /\ \/ /\ on
            /\ Send(<<Call("create", "block", row, "drop")>>)
            /\ drag' = [drag EXCEPT !.held = FALSE]
         \/ drag' = NoDrag /\ UNCHANGED <<calls, sent, stale>>
  BY DEF DropOnDay
<1>2. drag.y \in Int /\ drag.task \in Tasks \cup {NoTask}
      /\ drag \in [held : BOOLEAN, task : Tasks \cup {NoTask}, over : BOOLEAN, y : Int]
  BY DEF WellTyped, DragOK
<1>3. ASSUME on PROVE row \in RowType
  <2>1. drag.task \in Tasks
    BY <1>2, <1>3
  <2>2. n \in Int
    BY <2>1, EstimateAssumption DEF Length
  <2>3. Hours.lo \in Int /\ Hours.hi \in Int /\ day \in Int
    BY HoursAre DEF WellTyped, CountsOK
  <2>4. t = [s |-> start, e |-> Least(start + n, Hours.hi)]
    BY DEF TimeFromY
  <2>5. YToMinutes(drag.y, Hours.lo, Hours.hi) \in Int
    BY <1>2, <2>3, Rounded
  <2> HIDE DEF n
  <2>6. start \in Int
    BY <2>2, <2>3, <2>5 DEF Greatest, Least
  <2> HIDE DEF start
  <2>7. t.s \in Int /\ t.e \in Int
    BY <2>2, <2>3, <2>4, <2>6 DEF Least
  <2> HIDE DEF t
  <2>8. <<day, t.s>> \in Int \X Int /\ <<day, t.e>> \in Int \X Int
    BY <2>3, <2>7
  <2>9. Instant(<<day, t.s>>) \in Int /\ Instant(<<day, t.e>>) \in Int
    BY <2>8, MomentType
  <2> QED
    BY <2>1, <2>9 DEF Row, RowType
<1> HIDE DEF row, t, n
<1>4. Quiet \/ Sends
  <2>1. CASE on /\ Send(<<Call("create", "block", row, "drop")>>)
    <3>1. row \in RowType /\ "block" \in Kind /\ busy \in BOOLEAN
      BY <1>3, <2>1 DEF Kind, WellTyped, CountsOK
    <3> QED
      BY <1>1, <2>1, <3>1, SendsOne
  <2>2. CASE UNCHANGED <<calls, sent, stale>>
    BY <1>1, <2>2 DEF Quiet
  <2> QED
    BY <1>1, <2>1, <2>2
<1>5. DragOK'
  <2>1. CASE drag' = [drag EXCEPT !.held = FALSE]
    BY <1>2, <2>1 DEF DragOK
  <2>2. CASE drag' = NoDrag
    BY <2>2, NoDragOK DEF DragOK
  <2> QED
    BY <1>1, <2>1, <2>2
<1> QED
  BY <1>1, <1>4, <1>5 DEF WellTyped, PointerOK, CountsOK, DialogOK, GestureOK

LEMMA DropOnWeekDoes ==
  ASSUME WellTyped, DropOnWeek
  PROVE  Quiet /\ PointerOK'
<1>1. Quiet /\ drag' = NoDrag /\ gesture' = gesture /\ dialog' = dialog /\ edits' = edits
      /\ error' = error
  BY DEF DropOnWeek, Quiet
<1>2. DragOK'
  BY <1>1, NoDragOK DEF DragOK
<1> QED
  BY <1>1, <1>2 DEF WellTyped, PointerOK, CountsOK, DialogOK, GestureOK

LEMMA StepsAre ==
  ASSUME WellTyped, Next
  PROVE  Serve \/ Answer \/ ((Quiet \/ Sends \/ Fetches) /\ PointerOK')
<1> DEFINE Done == (Quiet \/ Sends \/ Fetches) /\ PointerOK'
<1> SUFFICES ASSUME ~Serve, ~Answer PROVE Done
  OBVIOUS
<1>1. ASSUME NEW d \in Days, ShowDay(d) \/ ShowWeek(d) \/ PickDate(d) PROVE Done
  <2>1. d \in Int
    BY TimeAssumption
  <2>2. CASE ShowDay(d) \/ ShowWeek(d)
    <3>1. Go(d)
      BY <2>2 DEF ShowDay, ShowWeek
    <3> QED
      BY <2>1, <3>1, GoDoes
  <2>3. CASE PickDate(d)
    BY <2>3, PickDateDoes
  <2> QED
    BY <1>1, <2>2, <2>3
<1>2. CASE Retry
  BY <1>2, RetryDoes
<1>3. ASSUME NEW r \in ShownRows, DeleteBlock(r) \/ DeleteEntry(r) \/ EditBlock(r) \/ EditEntry(r)
      PROVE  Done
  <2>1. CASE DeleteBlock(r) \/ DeleteEntry(r)
    <3>1. Discard(r)
      BY <2>1 DEF DeleteBlock, DeleteEntry
    <3> QED
      BY <3>1, DiscardDoes
  <2>2. CASE EditBlock(r) \/ EditEntry(r)
    BY <2>2, EditRowDoes
  <2> QED
    BY <1>3, <2>1, <2>2
<1>4. ASSUME NEW now \in Moments,
             OpenNewBlock(now) \/ OpenNewEntry(now) \/ \E d \in Days : StopTimer(d, now)
      PROVE  Done
  <2>1. CASE OpenNewBlock(now) \/ OpenNewEntry(now)
    BY <2>1, OpenNewDoes
  <2>2. ASSUME NEW d \in Days, StopTimer(d, now) PROVE Done
    BY <2>2, StopTimerDoes
  <2> QED
    BY <1>4, <2>1, <2>2
<1>5. ASSUME NEW y \in Pointers, DoubleClick(y) \/ Move(y) \/ \E d \in Days : ClickCell(d, y)
      PROVE  Done
  <2>1. CASE DoubleClick(y)
    BY <2>1, DoubleClickDoes
  <2>2. CASE Move(y)
    BY <2>2, MoveDoes
  <2>3. ASSUME NEW d \in Days, ClickCell(d, y) PROVE Done
    BY <2>3, ClickCellDoes
  <2> QED
    BY <1>5, <2>1, <2>2, <2>3
<1>6. ASSUME NEW m \in Clock, PickStart(m) \/ PickEnd(m) PROVE Done
  BY <1>6, PickStartDoes, PickEndDoes
<1>7. ASSUME NEW n \in Durations, PickDuration(n) PROVE Done
  BY <1>7, PickDurationDoes
<1>8. ASSUME NEW t \in Tasks, SelectTask(t) \/ PickUp(t) PROVE Done
  BY <1>8, SelectTaskDoes, PickUpDoes
<1>9. CASE AddTask
  BY <1>9, AddTaskDoes
<1>10. ASSUME NEW mode \in {"existing", "manual"}, SetMode(mode) PROVE Done
  BY <1>10, SetModeDoes
<1>11. ASSUME NEW name \in {Empty, Typed}, TypeName(name) PROVE Done
  BY <1>11, TypeNameDoes
<1>12. CASE Cancel
  BY <1>12, CancelDoes
<1>13. CASE SaveBlock
  <2>1. Submit("block") /\ UNCHANGED busy /\ "block" \in Kind /\ "block" # "entry"
    BY <1>13 DEF SaveBlock, Kind
  <2> QED
    BY <2>1, SubmitDoes
<1>14. CASE SaveEntry
  <2>1. Submit("entry") /\ busy' = TRUE /\ "entry" \in Kind /\ "block" # "entry"
    BY <1>14 DEF SaveEntry, Kind
  <2> QED
    BY <2>1, SubmitDoes
<1>15. ASSUME NEW r \in Columns, NEW y \in Pointers, Grab(r, y) PROVE Done
  BY <1>15, GrabDoes
<1>16. CASE Release
  BY <1>16, ReleaseDoes
<1>17. ASSUME NEW over \in BOOLEAN, NEW y \in Pointers, DragOver(over, y) PROVE Done
  BY <1>17, DragOverDoes
<1>18. CASE DropOnDay
  BY <1>18, DropOnDayDoes
<1>19. CASE DropOnWeek
  BY <1>19, DropOnWeekDoes
<1> HIDE DEF Done
<1> QED
  BY <1>1, <1>2, <1>3, <1>4, <1>5, <1>6, <1>7, <1>8, <1>9, <1>10, <1>11, <1>12, <1>13, <1>14,
     <1>15, <1>16, <1>17, <1>18, <1>19 DEF Next

\* Only these steps touch the gesture.
LEMMA GestureSteps ==
  ASSUME WellTyped, MoveFaithful, Next
  PROVE  MoveFaithful'
<1>1. CASE gesture' = gesture
  BY <1>1 DEF MoveFaithful
<1>2. ASSUME NEW y \in Pointers, Move(y) PROVE MoveFaithful'
  BY <1>2, MoveDoes
<1>3. ASSUME NEW r \in Columns, NEW y \in Pointers, Grab(r, y) PROVE MoveFaithful'
  <2>1. ~gesture'.inside
    BY <1>3, GrabDoes
  <2> QED
    BY <2>1 DEF MoveFaithful
<1>4. CASE Release
  <2>1. ~gesture'.on
    BY <1>4, ReleaseDoes, IdleOK
  <2> QED
    BY <2>1 DEF MoveFaithful
<1>5. ASSUME NEW d \in Days, ShowDay(d) \/ ShowWeek(d) \/ PickDate(d) PROVE gesture' = gesture
  BY <1>5 DEF ShowDay, ShowWeek, PickDate, Go, Edit, uiVars
<1>6. ASSUME Retry \/ Serve \/ Answer \/ AddTask \/ Cancel \/ SaveBlock \/ SaveEntry
             \/ DropOnDay \/ DropOnWeek
      PROVE  gesture' = gesture
  BY <1>6 DEF Retry, Serve, Answer, AddTask, Cancel, SaveBlock, SaveEntry, Submit, DropOnDay,
              DropOnWeek, Edit, uiVars
<1>7. ASSUME NEW r \in ShownRows, DeleteBlock(r) \/ DeleteEntry(r) \/ EditBlock(r) \/ EditEntry(r)
      PROVE  gesture' = gesture
  BY <1>7 DEF DeleteBlock, DeleteEntry, EditBlock, EditEntry, Discard, Opening, uiVars
<1>8. ASSUME NEW now \in Moments,
             OpenNewBlock(now) \/ OpenNewEntry(now) \/ \E d \in Days : StopTimer(d, now)
      PROVE  gesture' = gesture
  BY <1>8 DEF OpenNewBlock, OpenNewEntry, StopTimer, Opening, uiVars
<1>9. ASSUME NEW y \in Pointers, DoubleClick(y) \/ \E d \in Days : ClickCell(d, y)
      PROVE  gesture' = gesture
  BY <1>9 DEF DoubleClick, ClickCell, OpenWithTime, Opening
<1>10. ASSUME \/ \E m \in Clock : PickStart(m) \/ PickEnd(m)
              \/ \E n \in Durations : PickDuration(n)
              \/ \E t \in Tasks : SelectTask(t) \/ PickUp(t)
              \/ \E mode \in {"existing", "manual"} : SetMode(mode)
              \/ \E name \in {Empty, Typed} : TypeName(name)
              \/ \E over \in BOOLEAN, y \in Pointers : DragOver(over, y)
       PROVE  gesture' = gesture
  BY <1>10 DEF PickStart, PickEnd, PickDuration, SelectTask, PickUp, SetMode, TypeName, DragOver,
               Edit
<1> QED
  BY <1>1, <1>2, <1>3, <1>4, <1>5, <1>6, <1>7, <1>8, <1>9, <1>10 DEF Next

(***************************************************************************)
(* What the steps do to the requests.                                      *)
(***************************************************************************)
LEMMA SendIs ==
  ASSUME WellTyped, NEW c \in CallType, Send(<<c>>)
  PROVE  /\ calls' \in Seq(CallType) /\ Len(calls') = Len(calls) + 1
         /\ DOMAIN calls = 1..Len(calls) /\ Len(calls) \in Nat
         /\ DOMAIN calls' = 1..(Len(calls) + 1)
         /\ \A j \in 1..Len(calls) : calls'[j] = calls[j]
         /\ calls'[Len(calls) + 1] = c
         /\ sent' \in 0..MaxRequests
<1>1. calls \in Seq(CallType) /\ <<c>> \in Seq(CallType) /\ Len(<<c>>) = 1 /\ <<c>>[1] = c
  BY DEF WellTyped, CallsOK
<1>2. calls' = calls \o <<c>> /\ sent + 1 <= MaxRequests /\ sent' = sent + 1
  BY <1>1 DEF Send
<1>3. /\ calls \o <<c>> \in Seq(CallType) /\ Len(calls \o <<c>>) = Len(calls) + 1
      /\ \A j \in 1..(Len(calls) + 1) :
           (calls \o <<c>>)[j] = IF j <= Len(calls) THEN calls[j] ELSE <<c>>[j - Len(calls)]
  BY <1>1, ConcatProperties
<1>4. Len(calls) \in Nat /\ DOMAIN calls = 1..Len(calls)
  BY <1>1, LenProperties
<1>5. sent' \in 0..MaxRequests
  BY <1>2, BoundAssumption DEF WellTyped, CountsOK
<1>6. DOMAIN calls' = 1..(Len(calls) + 1)
  BY <1>2, <1>3, LenProperties
<1>7. \A j \in 1..Len(calls) : calls'[j] = calls[j]
  BY <1>2, <1>3, <1>4
<1>8. calls'[Len(calls) + 1] = c
  <2>1. Len(calls) + 1 \in 1..(Len(calls) + 1) /\ ~(Len(calls) + 1 <= Len(calls))
        /\ (Len(calls) + 1) - Len(calls) = 1
    BY <1>4
  <2> QED
    BY <1>1, <1>2, <1>3, <2>1
<1> QED
  BY <1>2, <1>3, <1>4, <1>5, <1>6, <1>7, <1>8

\* The requests under way and what is sent with them: nothing of a kind is
\* taken to be in order that was not, and nothing is overlapped.
LEMMA SendStale ==
  ASSUME WellTyped, NEW c \in CallType, c.op # "list", Send(<<c>>)
  PROVE  /\ stale' \in [Kind -> BOOLEAN]
         /\ \A k \in Kind : ~stale'[k] =>
              /\ ~stale[k]
              /\ c.kind = k => ~Misses(c) /\ \A i \in CallsOf(calls, k) : ~Disturbs(c, calls[i])
<1> DEFINE mine(k) == {x \in ToSet(<<c>>) : x.kind = k}
<1>1. stale' = [k \in Kind |->
           IF \E x \in mine(k) : x.op = "list" /\ InFlight(k) = {} THEN FALSE
           ELSE stale[k] \/ \E x \in mine(k) :
                              Misses(x) \/ \E o \in InFlight(k) : Disturbs(x, o)]
  BY DEF Send
<1>2. ToSet(<<c>>) = {c}
  <2>1. DOMAIN <<c>> = {1} /\ <<c>>[1] = c
    OBVIOUS
  <2> QED
    BY <2>1 DEF ToSet
<1>3. \A k : mine(k) = {x \in {c} : x.kind = k}
  BY <1>2
<1> HIDE DEF mine
<1>4. stale \in [Kind -> BOOLEAN]
  BY DEF WellTyped, CountsOK
<1>5. ASSUME NEW k \in Kind
      PROVE  /\ stale'[k] \in BOOLEAN
             /\ ~stale'[k] => /\ ~stale[k]
                              /\ c.kind = k => ~Misses(c) /\ \A o \in InFlight(k) : ~Disturbs(c, o)
  <2>1. ~\E x \in mine(k) : x.op = "list" /\ InFlight(k) = {}
    BY <1>3
  <2>2. stale'[k] = (stale[k] \/ \E x \in mine(k) :
                                  Misses(x) \/ \E o \in InFlight(k) : Disturbs(x, o))
    BY <1>1, <2>1
  <2> QED
    BY <1>3, <1>4, <2>2
<1>6. \A k, i : i \in CallsOf(calls, k) => calls[i] \in InFlight(k)
  BY DEF CallsOf, InFlight
<1>7. stale' \in [Kind -> BOOLEAN]
  BY <1>1, <1>5
<1> QED
  BY <1>5, <1>6, <1>7

\* A list is fetched from the first to the last of its days.
LEMMA ListCallIs ==
  ASSUME NEW k \in Kind, NEW a \in Int, NEW b \in Int, a <= b
  PROVE  LET c == ListCall(k, a .. b)
         IN  /\ c \in CallType /\ CallOK(c) /\ ~Saving(c)
             /\ c.op = "list" /\ c.kind = k /\ c.stage = "sent" /\ c.first = a /\ c.last = b
<1> DEFINE days == a .. b
           first == CHOOSE d \in days : \A x \in days : d <= x
           last == CHOOSE d \in days : \A x \in days : x <= d
           c == [op |-> "list", kind |-> k, row |-> Unset, by |-> "page",
                 first |-> a, last |-> b, stage |-> "sent", answer |-> {}]
<1>1. first = a
  <2>1. a \in days /\ \A x \in days : a <= x
    OBVIOUS
  <2>2. first \in days /\ \A x \in days : first <= x
    BY <2>1
  <2>3. first <= a /\ first \in Int /\ a <= first
    BY <2>1, <2>2
  <2> HIDE DEF first
  <2> QED
    BY <2>3
<1>2. last = b
  <2>1. b \in days /\ \A x \in days : x <= b
    OBVIOUS
  <2>2. last \in days /\ \A x \in days : x <= last
    BY <2>1
  <2>3. last <= b /\ last \in Int /\ b <= last
    BY <2>1, <2>2
  <2> HIDE DEF last
  <2> QED
    BY <2>3
<1>3. ListCall(k, days) = [Call("list", k, Unset, "page") EXCEPT !.first = first, !.last = last]
  BY DEF ListCall
<1> HIDE DEF first, last, days
<1>4. ListCall(k, days) = c
  BY <1>1, <1>2, <1>3 DEF Call
<1>5. c \in CallType
  BY UnsetType DEF CallType
<1>6. CallOK(c) /\ ~Saving(c)
  BY DEF CallOK, Saving
<1> QED
  BY <1>4, <1>5, <1>6 DEF days

LEMMA DaysInterval ==
  ASSUME NEW d \in Int, NEW p
  PROVE  \E a, b \in Int : a <= b /\ (IF p = "daily" THEN {d} ELSE WeekOf(d)) = a .. b
<1>1. CASE p = "daily"
  <2>1. d <= d /\ {d} = d .. d
    OBVIOUS
  <2> QED
    BY <1>1, <2>1
<1>2. CASE p # "daily"
  <2> DEFINE m == d - (d % 7)
  <2>1. m \in Int /\ WeekOf(d) = m .. (m + 6)
    BY AWeek
  <2> HIDE DEF m
  <2>2. m + 6 \in Int /\ m <= m + 6
    BY <2>1
  <2> QED
    BY <1>2, <2>1, <2>2
<1> QED
  BY <1>1, <1>2

LEMMA ShownNow ==
  ASSUME day \in Int
  PROVE  \E a, b \in Int : a <= b /\ ShownDays = a .. b
BY DaysInterval DEF ShownDays

LEMMA ShownInterval ==
  ASSUME day' \in Int
  PROVE  \E a, b \in Int : a <= b /\ ShownDays' = a .. b
BY DaysInterval DEF ShownDays

\* The calls that come with a fetch: one list of each kind.
LEMMA FetchIs ==
  ASSUME WellTyped, Fetches
  PROVE  \E a, b \in Int, lb, le \in CallType :
           /\ a <= b /\ ShownDays' = a .. b
           /\ calls' \in Seq(CallType) /\ Len(calls') = Len(calls) + 2
           /\ DOMAIN calls = 1..Len(calls) /\ Len(calls) \in Nat
           /\ DOMAIN calls' = 1..(Len(calls) + 2)
           /\ \A j \in 1..Len(calls) : calls'[j] = calls[j]
           /\ calls'[Len(calls) + 1] = lb /\ calls'[Len(calls) + 2] = le
           /\ lb.kind = "block" /\ le.kind = "entry"
           /\ \A c \in {lb, le} : /\ CallOK(c) /\ ~Saving(c) /\ c.op = "list" /\ c.stage = "sent"
                                  /\ c.first = a /\ c.last = b
           /\ sent' \in 0..MaxRequests
           /\ stale' \in [Kind -> BOOLEAN]
           /\ \A k \in Kind : ~stale'[k] => CallsOf(calls, k) = {}
<1>1. page' \in {"daily", "weekly"} /\ day' \in Int
  BY DEF Fetches, WellTyped, CountsOK
<1>2. PICK a, b \in Int : a <= b /\ ShownDays' = a .. b
  BY <1>1, ShownInterval
<1> DEFINE lb == ListCall("block", a .. b)
           le == ListCall("entry", a .. b)
           new == <<lb, le>>
           n == Len(calls)
<1>3. Send(new)
  BY <1>2 DEF Fetches, Lists
<1>4. \A c \in {lb, le} : /\ c \in CallType /\ CallOK(c) /\ ~Saving(c)
                          /\ c.op = "list" /\ c.stage = "sent" /\ c.first = a /\ c.last = b
  BY <1>2, ListCallIs DEF Kind
<1>5. lb.kind = "block" /\ le.kind = "entry"
  BY <1>2, ListCallIs DEF Kind
<1> HIDE DEF lb, le
<1>6. new \in Seq(CallType) /\ Len(new) = 2 /\ new[1] = lb /\ new[2] = le /\ ToSet(new) = {lb, le}
  <2>1. lb \in CallType /\ le \in CallType
    BY <1>4
  <2>2. DOMAIN new = {1, 2} /\ new[1] = lb /\ new[2] = le
    OBVIOUS
  <2>3. ToSet(new) = {lb, le}
    BY <2>2 DEF ToSet
  <2> QED
    BY <2>1, <2>3
<1> HIDE DEF new
<1>7. /\ calls' = calls \o new /\ sent' = sent + Len(new) /\ sent + Len(new) <= MaxRequests
      /\ stale' = [k \in Kind |->
           LET mine == {c \in ToSet(new) : c.kind = k}
           IN  IF \E c \in mine : c.op = "list" /\ InFlight(k) = {} THEN FALSE
               ELSE stale[k] \/ \E c \in mine :
                                  Misses(c) \/ \E o \in InFlight(k) : Disturbs(c, o)]
  BY <1>3 DEF Send
<1>8. calls \in Seq(CallType)
  BY DEF WellTyped, CallsOK
<1>9. n \in Nat /\ DOMAIN calls = 1..n
  BY <1>8, LenProperties
<1>10. /\ calls' \in Seq(CallType) /\ Len(calls') = n + 2
       /\ \A j \in 1..(n + 2) : calls'[j] = IF j <= n THEN calls[j] ELSE new[j - n]
  <2>1. new \in Seq(CallType) /\ Len(new) = 2
    BY <1>6
  <2>2. /\ calls \o new \in Seq(CallType) /\ Len(calls \o new) = Len(calls) + Len(new)
        /\ \A j \in 1..(Len(calls) + Len(new)) :
             (calls \o new)[j] = IF j <= Len(calls) THEN calls[j] ELSE new[j - Len(calls)]
    BY <2>1, <1>8, ConcatProperties
  <2>3. calls' = calls \o new
    BY <1>7
  <2> QED
    BY <2>1, <2>2, <2>3
<1>11. DOMAIN calls' = 1..(n + 2)
  BY <1>10, LenProperties
<1>12. \A j \in 1..n : calls'[j] = calls[j]
  BY <1>9, <1>10
<1>13. calls'[n + 1] = lb /\ calls'[n + 2] = le
  <2>1. /\ n + 1 \in 1..(n + 2) /\ ~(n + 1 <= n) /\ (n + 1) - n = 1
        /\ n + 2 \in 1..(n + 2) /\ ~(n + 2 <= n) /\ (n + 2) - n = 2
    BY <1>9
  <2> QED
    BY <1>6, <1>10, <2>1
<1>14. sent' \in 0..MaxRequests
  BY <1>6, <1>7, BoundAssumption DEF WellTyped, CountsOK
<1>15. ASSUME NEW k \in Kind
       PROVE  stale'[k] = (InFlight(k) # {})
  <2> DEFINE mine == {c \in {lb, le} : c.kind = k}
  <2>1. stale'[k] = IF \E c \in mine : c.op = "list" /\ InFlight(k) = {} THEN FALSE
                    ELSE stale[k] \/ \E c \in mine :
                                       Misses(c) \/ \E o \in InFlight(k) : Disturbs(c, o)
    BY <1>6, <1>7
  <2>2. PICK c \in mine : c.op = "list"
    BY <1>4, <1>5 DEF Kind
  <2> HIDE DEF mine
  <2>3. \A o : Disturbs(c, o)
    BY <2>2 DEF Disturbs
  <2> QED
    BY <2>1, <2>2, <2>3
<1>16. stale' \in [Kind -> BOOLEAN]
  BY <1>7, <1>15
<1>17. \A k, i : i \in CallsOf(calls, k) => calls[i] \in InFlight(k)
  BY DEF CallsOf, InFlight
<1>18. \A k \in Kind : ~stale'[k] => CallsOf(calls, k) = {}
  BY <1>15, <1>17
<1> HIDE DEF n
<1>19. lb \in CallType /\ le \in CallType
  BY <1>4
<1> QED
  BY <1>2, <1>4, <1>5, <1>9, <1>10, <1>11, <1>12, <1>13, <1>14, <1>16, <1>18, <1>19 DEF n

(***************************************************************************)
(* What the service does to a request.                                     *)
(***************************************************************************)
Becomes(i, answer) ==
  /\ calls' \in Seq(CallType) /\ DOMAIN calls' = DOMAIN calls
  /\ \A j \in DOMAIN calls : j # i => calls'[j] = calls[j]
  /\ calls'[i] = [calls[i] EXCEPT !.stage = "ok", !.answer = answer]

Found(c) ==
  {r \in rows : /\ KindOf(r.id) = c.kind
                /\ r.s >= UtcRange(c.first, c.last).from
                /\ r.s < UtcRange(c.first, c.last).to}

ServedList(i) ==
  /\ calls[i].stage = "sent" /\ calls[i].op = "list"
  /\ rows' = rows /\ Becomes(i, Found(calls[i]))

ServedWrite(i, id, new) ==
  /\ calls[i].stage = "sent" /\ calls[i].op # "list"
  /\ new \in RowType /\ new.id = id /\ id \in Ids(calls[i].kind)
  /\ IF calls[i].op \in {"create", "stop"} THEN id \notin Known ELSE id = calls[i].row.id
  /\ rows' = Others(id) \cup (IF calls[i].op = "delete" THEN {} ELSE {new})
  /\ Becomes(i, {new})

LEMMA CallFields ==
  ASSUME NEW c \in CallType
  PROVE  /\ c.op \in {"list", "create", "update", "delete", "stop"} /\ c.kind \in Kind
         /\ c.row \in RowType /\ c.stage \in {"sent", "ok"} /\ c.answer \subseteq RowType
         /\ c.by \in {"page", "dialog", "timer", "gesture", "drop"}
         /\ c.first \in Int /\ c.last \in Int
BY DEF CallType

LEMMA CallAt ==
  ASSUME CallsOK, NEW i \in DOMAIN calls
  PROVE  calls[i] \in CallType /\ CallOK(calls[i]) /\ i \in 1..Len(calls)
<1>1. calls \in Seq(CallType)
  BY DEF CallsOK
<1>2. DOMAIN calls = 1..Len(calls)
  BY <1>1, LenProperties
<1>3. calls[i] \in CallType
  BY <1>1, <1>2, ElementOfSeq
<1> QED
  BY <1>2, <1>3 DEF CallsOK

LEMMA AnsweredIs ==
  ASSUME NEW c \in CallType, NEW answer \in SUBSET RowType
  PROVE  LET d == [c EXCEPT !.stage = "ok", !.answer = answer]
         IN  /\ d \in CallType /\ d.stage = "ok" /\ d.answer = answer
             /\ d.op = c.op /\ d.kind = c.kind /\ d.row = c.row /\ d.by = c.by
             /\ d.first = c.first /\ d.last = c.last
BY DEF CallType

LEMMA BecomesIs ==
  ASSUME CallsOK, NEW i \in DOMAIN calls, NEW answer \in SUBSET RowType,
         calls' = [calls EXCEPT ![i].stage = "ok", ![i].answer = answer]
  PROVE  Becomes(i, answer)
<1> DEFINE d == [calls[i] EXCEPT !.stage = "ok", !.answer = answer]
           a == [calls EXCEPT ![i].stage = "ok"]
<1>1. calls \in Seq(CallType) /\ calls[i] \in CallType /\ i \in 1..Len(calls)
  BY CallAt DEF CallsOK
<1>2. d \in CallType
  BY <1>1, AnsweredIs
<1>3. DOMAIN a = DOMAIN calls /\ a[i] = [calls[i] EXCEPT !.stage = "ok"]
      /\ \A j \in DOMAIN calls : j # i => a[j] = calls[j]
  OBVIOUS
<1>4. calls' = [a EXCEPT ![i].answer = answer]
  OBVIOUS
<1> HIDE DEF a
<1>5. /\ calls' = [a EXCEPT ![i] = [a[i] EXCEPT !.answer = answer]]
      /\ [a[i] EXCEPT !.answer = answer] = d
  <2>1. calls' = [a EXCEPT ![i] = [a[i] EXCEPT !.answer = answer]]
    BY <1>4
  <2>2. [[calls[i] EXCEPT !.stage = "ok"] EXCEPT !.answer = answer] = d
    OBVIOUS
  <2> HIDE DEF d
  <2> QED
    BY <1>3, <2>1, <2>2
<1> HIDE DEF d
<1>6. DOMAIN calls' = DOMAIN calls /\ calls'[i] = d
      /\ \A j \in DOMAIN calls : j # i => calls'[j] = calls[j]
  BY <1>3, <1>5
<1>7. calls' = [calls EXCEPT ![i] = d]
  <2>1. \E S : calls \in [DOMAIN calls -> S]
    BY <1>1, LenProperties
  <2>2. a = [j \in DOMAIN calls |-> a[j]]
    BY <1>3 DEF a
  <2>3. calls' = [j \in DOMAIN calls |-> calls'[j]]
    BY <1>3, <1>4, <2>2
  <2>4. calls = [j \in DOMAIN calls |-> calls[j]]
    BY <2>1
  <2> QED
    BY <1>6, <2>3, <2>4
<1>8. calls' \in Seq(CallType)
  <2>1. [calls EXCEPT ![i] = d] \in Seq(CallType)
    BY <1>1, <1>2, ExceptSeq
  <2> QED
    BY <1>7, <2>1
<1> QED
  BY <1>6, <1>8 DEF Becomes, d

LEMMA ServeIs ==
  ASSUME WellTyped, Serve
  PROVE  /\ UNCHANGED <<page, edits, day, view, error, sent, stale, dialog, busy, gesture, drag>>
         /\ \E i \in DOMAIN calls : ServedList(i) \/ \E id, new : ServedWrite(i, id, new)
<1>1. UNCHANGED <<page, edits, day, view, error, sent, stale, dialog, busy, gesture, drag>>
  BY DEF Serve, uiVars
<1>2. PICK h \in DOMAIN calls : calls[h].stage = "sent" /\ (ServeList(calls[h]) \/ ServeWrite(calls[h]))
  BY DEF Serve
<1> DEFINE c == calls[h]
<1>3. c \in CallType /\ CallOK(c) /\ CallsOK /\ RowsOK
  BY CallAt DEF WellTyped
<1> HIDE DEF c
<1>4. c.stage = "sent"
  BY <1>2 DEF c
<1>5. CASE ServeList(c)
  <2>1. /\ c.op = "list" /\ rows' = rows
        /\ calls' \in {[calls EXCEPT ![i].stage = "ok", ![i].answer = Found(c)] :
                          i \in {j \in DOMAIN calls : calls[j] = c}}
    BY <1>5 DEF ServeList, Found
  <2>2. PICK i \in DOMAIN calls :
          calls[i] = c /\ calls' = [calls EXCEPT ![i].stage = "ok", ![i].answer = Found(c)]
    BY <2>1
  <2>3. Found(c) \in SUBSET RowType
    BY <1>3 DEF Found, RowsOK
  <2>4. Becomes(i, Found(c))
    BY <1>3, <2>2, <2>3, BecomesIs
  <2>5. ServedList(i)
    BY <1>4, <2>1, <2>2, <2>4 DEF ServedList
  <2> QED
    BY <1>1, <2>5
<1>6. CASE ServeWrite(c)
  <2> DEFINE New(id) == IF c.op = "update" THEN Updated(TheRow(id), c) ELSE [c.row EXCEPT !.id = id]
  <2>1. PICK i \in DOMAIN calls : calls[i] = c /\
          \E id \in IF c.op \in {"create", "stop"} THEN Ids(c.kind) \ Known ELSE {c.row.id} :
             /\ c.op # "list" /\ Accepts(c)
             /\ rows' = Others(id) \cup (IF c.op = "delete" THEN {} ELSE {New(id)})
             /\ calls' = [calls EXCEPT ![i].stage = "ok", ![i].answer = {New(id)}]
    BY <1>6 DEF ServeWrite
  <2>2. PICK id \in IF c.op \in {"create", "stop"} THEN Ids(c.kind) \ Known ELSE {c.row.id} :
             /\ c.op # "list" /\ Accepts(c)
             /\ rows' = Others(id) \cup (IF c.op = "delete" THEN {} ELSE {New(id)})
             /\ calls' = [calls EXCEPT ![i].stage = "ok", ![i].answer = {New(id)}]
    BY <2>1
  <2> DEFINE new == New(id)
  <2>3. /\ IF c.op \in {"create", "stop"} THEN id \notin Known ELSE id = c.row.id
        /\ id \in Ids(c.kind)
    <3>1. c.op \in {"create", "update", "delete", "stop"}
      BY <1>3, <2>2, CallFields
    <3> QED
      BY <1>3, <2>2, <3>1 DEF CallOK
  <2>4. id \in Blocks \cup Entries
    BY <1>3, <2>3, Kinds, CallFields
  <2>5. new \in RowType /\ new.id = id
    <3>1. c.row \in RowType
      BY <1>3, CallFields
    <3>2. CASE c.op = "update"
      <4>1. c.row.id = id
        BY <2>3, <3>2
      <4>2. \E r \in rows : r.id = id
        BY <2>2, <3>2, <4>1 DEF Accepts
      <4>3. TheRow(id) \in rows /\ TheRow(id).id = id
        BY <4>2 DEF TheRow
      <4> DEFINE r == TheRow(id)
                 task == IF c.row.task = NoTask THEN r.task ELSE c.row.task
      <4>4. r \in RowType /\ r.id = id
        BY <1>3, <4>3 DEF RowsOK
      <4> HIDE DEF r
      <4>5. new = IF c.by = "gesture" THEN [r EXCEPT !.s = c.row.s, !.e = c.row.e]
                  ELSE [c.row EXCEPT !.task = task]
        BY <3>2 DEF Updated, r
      <4>6. task \in Tasks \cup {NoTask}
        BY <3>1, <4>4, RowFields
      <4> HIDE DEF task, new
      <4>7. [r EXCEPT !.s = c.row.s, !.e = c.row.e] \in RowType
            /\ [r EXCEPT !.s = c.row.s, !.e = c.row.e].id = id
        BY <3>1, <4>4 DEF RowType
      <4>8. [c.row EXCEPT !.task = task] \in RowType /\ [c.row EXCEPT !.task = task].id = id
        BY <3>1, <4>1, <4>6 DEF RowType
      <4> QED
        BY <4>5, <4>7, <4>8
    <3>3. CASE c.op # "update"
      <4>1. new = [c.row EXCEPT !.id = id]
        BY <3>3
      <4> HIDE DEF new
      <4> QED
        BY <2>4, <3>1, <4>1 DEF RowType
    <3> QED
      BY <3>2, <3>3
  <2>6. Becomes(i, {new})
    <3>1. {new} \in SUBSET RowType
      BY <2>5
    <3>2. calls' = [calls EXCEPT ![i].stage = "ok", ![i].answer = {new}]
      BY <2>2
    <3> HIDE DEF new
    <3> QED
      BY <1>3, <3>1, <3>2, BecomesIs
  <2>7. rows' = Others(id) \cup (IF c.op = "delete" THEN {} ELSE {new})
    BY <2>2
  <2> HIDE DEF new
  <2>8. ServedWrite(i, id, new)
    BY <1>4, <2>1, <2>2, <2>3, <2>5, <2>6, <2>7 DEF ServedWrite
  <2> QED
    BY <1>1, <2>8
<1> QED
  BY <1>2, <1>5, <1>6 DEF c

(***************************************************************************)
(* What an answer does.                                                    *)
(***************************************************************************)
Place(i, j) == IF j < i THEN j ELSE j + 1

Gone(i) ==
  /\ calls' \in Seq(CallType) /\ DOMAIN calls' = 1..(Len(calls) - 1)
  /\ \A j \in 1..(Len(calls) - 1) : Place(i, j) \in DOMAIN calls /\ Place(i, j) # i
                                    /\ calls'[j] = calls[Place(i, j)]

Succeeded(c) ==
  /\ c.stage = "ok" /\ error' = error /\ stale' = stale
  /\ view' = [view EXCEPT ![c.kind] = Merge(view[c.kind], c)]
LostOrRefused(c) ==
  /\ view' = view /\ error' = (error \/ c.by # "timer")
  /\ stale' = [stale EXCEPT ![c.kind] = TRUE]

AnsweredAt(i) ==
  /\ Succeeded(calls[i]) \/ LostOrRefused(calls[i])
  /\ Gone(i) /\ busy' = (busy /\ ~Saving(calls[i]))

LEMMA GoneIs ==
  ASSUME CallsOK, NEW i \in DOMAIN calls, calls' = RemoveAt(calls, i)
  PROVE  Gone(i)
<1>1. calls \in Seq(CallType) /\ i \in 1..Len(calls) /\ Len(calls) \in Nat /\ DOMAIN calls = 1..Len(calls)
  BY CallAt, LenProperties DEF CallsOK
<1>2. /\ RemoveAt(calls, i) \in Seq(CallType)
      /\ Len(RemoveAt(calls, i)) = Len(calls) - 1
      /\ \A j \in 1..(Len(calls) - 1) :
           RemoveAt(calls, i)[j] = IF j < i THEN calls[j] ELSE calls[j + 1]
  BY <1>1, Removed
<1>3. calls' \in Seq(CallType) /\ DOMAIN calls' = 1..(Len(calls) - 1)
  BY <1>2, LenProperties
<1>4. ASSUME NEW j \in 1..(Len(calls) - 1)
      PROVE  Place(i, j) \in DOMAIN calls /\ Place(i, j) # i /\ calls'[j] = calls[Place(i, j)]
  <2>1. Place(i, j) \in 1..Len(calls) /\ Place(i, j) # i
    BY <1>1 DEF Place
  <2>2. calls'[j] = calls[Place(i, j)]
    BY <1>2 DEF Place
  <2> QED
    BY <1>1, <2>1, <2>2
<1> QED
  BY <1>3, <1>4 DEF Gone

LEMMA AnswerIs ==
  ASSUME WellTyped, Answer
  PROVE  /\ UNCHANGED <<page, edits, day, rows, sent, gesture>> /\ PointerOK'
         /\ \E i \in DOMAIN calls : AnsweredAt(i)
<1>1. UNCHANGED <<page, edits, day, rows, sent, gesture>>
  BY DEF Answer
<1>2. PICK i \in DOMAIN calls :
        /\ Succeed(calls[i]) \/ Failed(calls[i])
        /\ Resume(calls[i]) /\ calls' = RemoveAt(calls, i)
  BY DEF Answer
<1>3. CallsOK /\ ViewOK /\ stale \in [Kind -> BOOLEAN] /\ busy \in BOOLEAN /\ error \in BOOLEAN
      /\ calls[i].kind \in Kind
  BY CallAt, CallFields DEF WellTyped, CountsOK
<1>4. Gone(i)
  BY <1>2, <1>3, GoneIs
<1> DEFINE c == calls[i]
<1>5. busy' = (busy /\ ~Saving(c)) /\ dialog' \in {Closed, dialog}
      /\ drag' \in {drag, [NoDrag EXCEPT !.held = drag.held]}
  BY <1>2 DEF Resume, Saving
<1> HIDE DEF c
<1>6. Succeeded(c) \/ LostOrRefused(c)
  BY <1>2 DEF Succeed, Failed, Succeeded, LostOrRefused, c
<1>7. error' \in BOOLEAN
  BY <1>3, <1>6 DEF Succeeded, LostOrRefused
<1>8. DialogOK'
  BY <1>5, ClosedOK DEF DialogOK, WellTyped
<1>9. GestureOK'
  BY <1>1 DEF GestureOK, WellTyped
<1>10. DragOK'
  <2>1. drag \in [held : BOOLEAN, task : Tasks \cup {NoTask}, over : BOOLEAN, y : Int]
    BY DEF WellTyped, DragOK
  <2>2. CASE drag' = [NoDrag EXCEPT !.held = drag.held]
    <3>1. drag.held \in BOOLEAN
      BY <2>1
    <3>2. CASE drag.held = TRUE
      <4>1. drag' = [NoDrag EXCEPT !.held = TRUE]
        BY <2>2, <3>2
      <4>2. drag' = [held |-> TRUE, task |-> NoTask, over |-> FALSE, y |-> 0]
        BY <4>1 DEF NoDrag
      <4> QED
        BY <4>2 DEF DragOK
    <3>3. CASE drag.held = FALSE
      <4>1. drag' = [NoDrag EXCEPT !.held = FALSE]
        BY <2>2, <3>3
      <4>2. drag' = [held |-> FALSE, task |-> NoTask, over |-> FALSE, y |-> 0]
        BY <4>1 DEF NoDrag
      <4> QED
        BY <4>2 DEF DragOK
    <3> QED
      BY <3>1, <3>2, <3>3
  <2> QED
    BY <1>5, <2>1, <2>2 DEF DragOK
<1>11. edits' \in 0..MaxEdits
  BY <1>1 DEF WellTyped, CountsOK
<1>12. AnsweredAt(i)
  BY <1>4, <1>5, <1>6 DEF AnsweredAt, c
<1> QED
  BY <1>1, <1>7, <1>8, <1>9, <1>10, <1>11, <1>12 DEF PointerOK

(***************************************************************************)
(* What the store makes of an answer.                                      *)
(***************************************************************************)
NextPlace(v) == Max(DOMAIN v \cup {0}) + 1

LEMMA NextPlaceIs ==
  ASSUME NEW v, NEW k, ListOK(v, k)
  PROVE  NextPlace(v) \in Nat /\ NextPlace(v) \notin DOMAIN v
<1> DEFINE S == DOMAIN v \cup {0}
<1>1. DOMAIN v \subseteq Nat /\ IsFiniteSet(DOMAIN v)
  BY DEF ListOK
<1>2. IsFiniteSet(S) /\ S \subseteq Int /\ S # {} /\ 0 \in S
  BY <1>1, FS_AddElement
<1>3. Max(S) \in S /\ \A y \in S : Max(S) >= y
  BY <1>2, GreatestOf
<1>4. DOMAIN v \subseteq S /\ S \subseteq Nat
  BY <1>1
<1> DEFINE m == Max(S)
<1>5. m \in Nat /\ \A y \in DOMAIN v : y \in Nat /\ m >= y
  BY <1>1, <1>3, <1>4
<1>6. NextPlace(v) = m + 1
  BY DEF NextPlace
<1> HIDE DEF m
<1>7. m + 1 \in Nat /\ m + 1 \notin DOMAIN v
  BY <1>5
<1> QED
  BY <1>6, <1>7

TheAnswer(c) == CHOOSE r \in c.answer : TRUE

LEMMA OneAnswer ==
  ASSUME NEW c, CallOK(c), c.stage = "ok", c.op # "list"
  PROVE  TheAnswer(c) \in c.answer /\ c.answer = {TheAnswer(c)}
<1>1. PICK r \in c.answer : c.answer = {r}
  BY DEF CallOK
<1> QED
  BY <1>1 DEF TheAnswer

LEMMA MergedList ==
  ASSUME NEW v, NEW c, c.op = "list", IsFiniteSet(c.answer), Keyed(c.answer)
  PROVE  LET m == Merge(v, c)
         IN  /\ DOMAIN m \subseteq Nat /\ IsFiniteSet(DOMAIN m) /\ Once(m)
             /\ \A i \in DOMAIN m : m[i] \in c.answer
             /\ \A x \in c.answer : \E i \in DOMAIN m : m[i] = x
<1> DEFINE m == SetToSeq(c.answer)
<1>1. Merge(v, c) = m
  BY DEF Merge
<1>2. /\ DOMAIN m = 1..Cardinality(c.answer) /\ Cardinality(c.answer) \in Nat
      /\ \A i \in DOMAIN m : m[i] \in c.answer
      /\ \A x \in c.answer : \E i \in DOMAIN m : m[i] = x
      /\ \A i, j \in DOMAIN m : m[i] = m[j] => i = j
  BY AsList
<1> HIDE DEF m
<1>3. Once(m)
  BY <1>2 DEF Once, Keyed
<1>4. IsFiniteSet(DOMAIN m)
  <2>1. Cardinality(c.answer) \in Int /\ 1 \in Int
    BY <1>2
  <2> QED
    BY <1>2, <2>1, FS_Interval
<1> QED
  BY <1>1, <1>2, <1>3, <1>4

LEMMA MergedNew ==
  ASSUME NEW v, NEW c, c.op \in {"create", "stop"}, NextPlace(v) \notin DOMAIN v
  PROVE  /\ DOMAIN Merge(v, c) = DOMAIN v \cup {NextPlace(v)}
         /\ Merge(v, c)[NextPlace(v)] = TheAnswer(c)
         /\ \A i \in DOMAIN v : Merge(v, c)[i] = v[i]
<1> DEFINE p == NextPlace(v)
<1>2. c.op # "list"
  OBVIOUS
<1>3. Merge(v, c) = [i \in DOMAIN v \cup {p} |-> IF i = p THEN TheAnswer(c) ELSE v[i]]
  BY <1>2 DEF Merge, NextPlace, TheAnswer
<1>4. p \notin DOMAIN v
  OBVIOUS
<1> HIDE DEF p
<1>5. /\ DOMAIN Merge(v, c) = DOMAIN v \cup {p}
      /\ Merge(v, c)[p] = TheAnswer(c)
      /\ \A i \in DOMAIN v : Merge(v, c)[i] = v[i]
  BY <1>3, <1>4
<1> QED
  BY <1>5 DEF p

LEMMA MergedUpdate ==
  ASSUME NEW v, NEW c, c.op = "update"
  PROVE  /\ DOMAIN Merge(v, c) = DOMAIN v
         /\ \A i \in DOMAIN v : Merge(v, c)[i] = IF v[i].id = c.row.id THEN TheAnswer(c) ELSE v[i]
<1>2. Merge(v, c) = [i \in DOMAIN v |-> IF v[i].id = c.row.id THEN TheAnswer(c) ELSE v[i]]
  BY DEF Merge, TheAnswer
<1> QED
  BY <1>2

LEMMA MergedDelete ==
  ASSUME NEW v, NEW c, c.op = "delete"
  PROVE  /\ \A j : j \in DOMAIN Merge(v, c) <=> j \in DOMAIN v /\ v[j].id # c.row.id
         /\ \A i \in DOMAIN Merge(v, c) : Merge(v, c)[i] = v[i]
<1>1. Merge(v, c) = [i \in {j \in DOMAIN v : v[j].id # c.row.id} |-> v[i]]
  BY DEF Merge
<1> QED
  BY <1>1

LEMMA MergedType ==
  ASSUME NEW c \in CallType, CallOK(c), c.stage = "ok", NEW v, ListOK(v, c.kind)
  PROVE  ListOK(Merge(v, c), c.kind)
<1> DEFINE m == Merge(v, c)
           k == c.kind
<1>1. c.op \in {"list", "create", "update", "delete", "stop"} /\ c.answer \subseteq RowType
  BY CallFields
<1>2. \A r \in c.answer : r \in RowType /\ r.id \in Ids(k)
  BY <1>1 DEF CallOK
<1>3. DOMAIN v \subseteq Nat /\ IsFiniteSet(DOMAIN v) /\ \A i \in DOMAIN v : v[i] \in RowType /\ v[i].id \in Ids(k)
  BY DEF ListOK
<1>4. CASE c.op = "list"
  <2>1. IsFiniteSet(c.answer) /\ Keyed(c.answer)
    BY <1>4 DEF CallOK
  <2>2. DOMAIN m \subseteq Nat /\ IsFiniteSet(DOMAIN m) /\ \A i \in DOMAIN m : m[i] \in c.answer
    BY <1>4, <2>1, MergedList
  <2> HIDE DEF m
  <2> QED
    BY <1>2, <2>2 DEF ListOK, m
<1> DEFINE new == TheAnswer(c)
<1>5. c.op # "list" => new \in c.answer
  BY OneAnswer
<1>6. CASE c.op \in {"create", "stop"}
  <2>1. new \in c.answer
    BY <1>5, <1>6
  <2> DEFINE p == NextPlace(v)
  <2>3. p \in Nat /\ p \notin DOMAIN v
    BY NextPlaceIs
  <2>2. DOMAIN m = DOMAIN v \cup {p} /\ m[p] = new /\ \A i \in DOMAIN v : m[i] = v[i]
    BY <1>6, <2>3, MergedNew
  <2> HIDE DEF m, p, new
  <2>5. IsFiniteSet(DOMAIN m) /\ DOMAIN m \subseteq Nat
    BY <1>3, <2>2, <2>3, FS_AddElement
  <2>6. \A i \in DOMAIN m : m[i] \in RowType /\ m[i].id \in Ids(k)
    BY <1>2, <1>3, <2>1, <2>2
  <2> QED
    BY <2>5, <2>6 DEF ListOK, m
<1>7. CASE c.op = "update"
  <2>1. new \in c.answer
    BY <1>5, <1>7
  <2>2. DOMAIN m = DOMAIN v /\ \A i \in DOMAIN v : m[i] = IF v[i].id = c.row.id THEN new ELSE v[i]
    BY <1>7, MergedUpdate
  <2> HIDE DEF m, new
  <2>3. \A i \in DOMAIN m : m[i] \in RowType /\ m[i].id \in Ids(k)
    BY <1>2, <1>3, <2>1, <2>2
  <2> QED
    BY <1>3, <2>2, <2>3 DEF ListOK, m
<1>8. CASE c.op = "delete"
  <2>1. /\ \A j : j \in DOMAIN m <=> j \in DOMAIN v /\ v[j].id # c.row.id
        /\ \A i \in DOMAIN m : m[i] = v[i]
    BY <1>8, MergedDelete
  <2> HIDE DEF m
  <2>2. DOMAIN m \subseteq DOMAIN v /\ \A i \in DOMAIN m : m[i] = v[i]
    BY <2>1
  <2>3. IsFiniteSet(DOMAIN m)
    BY <1>3, <2>2, FS_Subset
  <2> QED
    BY <1>3, <2>2, <2>3 DEF ListOK, m
<1> QED
  BY <1>1, <1>4, <1>6, <1>7, <1>8

(***************************************************************************)
(* Types are preserved.                                                    *)
(***************************************************************************)
LEMMA QuietTypes ==
  ASSUME WellTyped, Quiet, PointerOK'
  PROVE  WellTyped'
<1>1. RowsOK' /\ ViewOK' /\ CallsOK'
  BY DEF Quiet, WellTyped, RowsOK, ViewOK, CallsOK
<1>2. CountsOK'
  BY DEF Quiet, PointerOK, WellTyped, CountsOK
<1> QED
  BY <1>1, <1>2 DEF PointerOK, WellTyped

LEMMA SendsTypes ==
  ASSUME WellTyped, Sends, PointerOK'
  PROVE  WellTyped'
<1>1. UNCHANGED <<page, day, rows, view>>
  BY DEF Sends
<1>2. PICK c : NewCall(c) /\ Send(<<c>>) /\ busy' = (busy \/ Saving(c))
  BY DEF Sends
<1>3. c \in CallType /\ CallOK(c) /\ c.op # "list"
  BY <1>2 DEF NewCall
<1>4. /\ calls' \in Seq(CallType) /\ DOMAIN calls = 1..Len(calls) /\ Len(calls) \in Nat
      /\ DOMAIN calls' = 1..(Len(calls) + 1)
      /\ \A j \in 1..Len(calls) : calls'[j] = calls[j]
      /\ calls'[Len(calls) + 1] = c /\ sent' \in 0..MaxRequests
  BY <1>2, <1>3, SendIs
<1>5. stale' \in [Kind -> BOOLEAN]
  BY <1>2, <1>3, SendStale
<1>6. RowsOK' /\ ViewOK'
  BY <1>1 DEF WellTyped, RowsOK, ViewOK
<1>7. CallsOK'
  <2>1. \A j \in 1..Len(calls) : CallOK(calls[j])
    BY <1>4 DEF WellTyped, CallsOK
  <2>2. \A j \in 1..(Len(calls) + 1) : j \in 1..Len(calls) \/ j = Len(calls) + 1
    BY <1>4
  <2>3. \A j \in DOMAIN calls' : CallOK(calls'[j])
    BY <1>3, <1>4, <2>1, <2>2
  <2> QED
    BY <1>4, <2>3 DEF CallsOK
<1>8. busy' \in BOOLEAN
  BY <1>2 DEF WellTyped, CountsOK
<1>9. CountsOK'
  BY <1>1, <1>4, <1>5, <1>8 DEF PointerOK, WellTyped, CountsOK
<1> QED
  BY <1>6, <1>7, <1>9 DEF PointerOK, WellTyped

LEMMA FetchesTypes ==
  ASSUME WellTyped, Fetches, PointerOK'
  PROVE  WellTyped'
<1>1. UNCHANGED <<page, rows, view, busy>> /\ day' \in Int
  BY DEF Fetches
<1>2. PICK a, b \in Int, lb, le \in CallType :
           /\ calls' \in Seq(CallType)
           /\ DOMAIN calls = 1..Len(calls) /\ Len(calls) \in Nat
           /\ DOMAIN calls' = 1..(Len(calls) + 2)
           /\ \A j \in 1..Len(calls) : calls'[j] = calls[j]
           /\ calls'[Len(calls) + 1] = lb /\ calls'[Len(calls) + 2] = le
           /\ CallOK(lb) /\ CallOK(le)
           /\ sent' \in 0..MaxRequests
           /\ stale' \in [Kind -> BOOLEAN]
  BY FetchIs
<1>3. RowsOK' /\ ViewOK'
  BY <1>1 DEF WellTyped, RowsOK, ViewOK
<1>4. CallsOK'
  <2>1. \A j \in 1..Len(calls) : CallOK(calls[j])
    BY <1>2 DEF WellTyped, CallsOK
  <2>2. \A j \in 1..(Len(calls) + 2) :
          j \in 1..Len(calls) \/ j = Len(calls) + 1 \/ j = Len(calls) + 2
    BY <1>2
  <2>3. \A j \in DOMAIN calls' : CallOK(calls'[j])
    BY <1>2, <2>1, <2>2
  <2> QED
    BY <1>2, <2>3 DEF CallsOK
<1>5. CountsOK'
  BY <1>1, <1>2 DEF PointerOK, WellTyped, CountsOK
<1> QED
  BY <1>3, <1>4, <1>5 DEF PointerOK, WellTyped

\* An answer that is in order keeps the requests in order.
LEMMA BecomesTypes ==
  ASSUME CallsOK, NEW i \in DOMAIN calls, NEW answer \in SUBSET RowType, Becomes(i, answer),
         CallOK([calls[i] EXCEPT !.stage = "ok", !.answer = answer])
  PROVE  CallsOK'
<1>1. \A j \in DOMAIN calls : CallOK(calls[j])
  BY DEF CallsOK
<1>2. /\ calls' \in Seq(CallType) /\ DOMAIN calls' = DOMAIN calls
      /\ \A j \in DOMAIN calls : j # i => calls'[j] = calls[j]
      /\ calls'[i] = [calls[i] EXCEPT !.stage = "ok", !.answer = answer]
  BY DEF Becomes
<1>3. \A j \in DOMAIN calls' : CallOK(calls'[j])
  BY <1>1, <1>2
<1> QED
  BY <1>2, <1>3 DEF CallsOK

LEMMA FoundIs ==
  ASSUME RowsOK, NEW c
  PROVE  /\ Found(c) \in SUBSET RowType /\ IsFiniteSet(Found(c)) /\ Keyed(Found(c))
         /\ Found(c) \subseteq rows
         /\ \A r \in Found(c) : r.id \in Ids(c.kind)
<1>1. Found(c) \subseteq rows
  BY DEF Found
<1>2. IsFiniteSet(Found(c))
  BY <1>1, FS_Subset DEF RowsOK
<1>3. \A r \in Found(c) : r.id \in Ids(c.kind)
  <2>1. \A r \in Found(c) : KindOf(r.id) = c.kind /\ r.id \in Blocks \cup Entries
    BY DEF Found, RowsOK
  <2> QED
    BY <2>1, Kinds
<1> QED
  BY <1>1, <1>2, <1>3 DEF RowsOK, Keyed

\* The tables with a row changed, added or taken away.
LEMMA WrittenRows ==
  ASSUME RowsOK, NEW id \in Blocks \cup Entries, NEW new \in RowType, new.id = id, NEW keep,
         rows' = Others(id) \cup (IF keep THEN {new} ELSE {})
  PROVE  RowsOK'
<1>1. rows \subseteq RowType /\ IsFiniteSet(rows) /\ Keyed(rows) /\ \A r \in rows : r.id \in Blocks \cup Entries
  BY DEF RowsOK
<1>2. Others(id) \subseteq rows /\ \A r \in Others(id) : r.id # id
  BY DEF Others
<1>3. IsFiniteSet(Others(id))
  BY <1>1, <1>2, FS_Subset
<1>4. IsFiniteSet(rows')
  <2>1. IsFiniteSet(Others(id) \cup {new})
    BY <1>3, FS_AddElement
  <2>2. rows' \subseteq Others(id) \cup {new}
    OBVIOUS
  <2> QED
    BY <2>1, <2>2, FS_Subset
<1>5. Keyed(rows')
  <2>1. Keyed(Others(id)) /\ \A r \in Others(id) : r.id # new.id
    BY <1>1, <1>2 DEF Keyed
  <2>2. Keyed(Others(id) \cup {new})
    BY <2>1 DEF Keyed
  <2>3. rows' \subseteq Others(id) \cup {new}
    OBVIOUS
  <2> QED
    BY <2>2, <2>3 DEF Keyed
<1>6. rows' \subseteq RowType /\ \A r \in rows' : r.id \in Blocks \cup Entries
  <2>1. rows' \subseteq Others(id) \cup {new}
    OBVIOUS
  <2> QED
    BY <1>1, <1>2, <2>1
<1> QED
  BY <1>4, <1>5, <1>6 DEF RowsOK

LEMMA ServeTypes ==
  ASSUME WellTyped, Serve
  PROVE  WellTyped'
<1>1. UNCHANGED <<page, edits, day, view, error, sent, stale, dialog, busy, gesture, drag>>
  BY ServeIs
<1>2. /\ ViewOK' /\ DialogOK' /\ GestureOK' /\ DragOK' /\ CountsOK'
  BY <1>1 DEF WellTyped, ViewOK, DialogOK, GestureOK, DragOK, CountsOK
<1>3. PICK i \in DOMAIN calls : ServedList(i) \/ \E id, new : ServedWrite(i, id, new)
  BY ServeIs
<1>4. RowsOK /\ CallsOK
  BY DEF WellTyped
<1> DEFINE c == calls[i]
<1>5. c \in CallType /\ CallOK(c)
  BY <1>4, CallAt
<1>6. CASE ServedList(i)
  <2>1. rows' = rows /\ c.op = "list" /\ Becomes(i, Found(c))
    BY <1>6 DEF ServedList
  <2>2. Found(c) \in SUBSET RowType /\ IsFiniteSet(Found(c)) /\ Keyed(Found(c))
        /\ \A r \in Found(c) : r.id \in Ids(c.kind)
    BY <1>4, FoundIs
  <2> DEFINE d == [c EXCEPT !.stage = "ok", !.answer = Found(c)]
  <2>3. /\ d.stage = "ok" /\ d.answer = Found(c) /\ d.op = c.op /\ d.kind = c.kind
        /\ d.row = c.row /\ d.by = c.by
    BY <1>5, <2>2, AnsweredIs
  <2> HIDE DEF d
  <2>4. CallOK(d)
    BY <1>5, <2>1, <2>2, <2>3 DEF CallOK
  <2>5. CallsOK'
    BY <1>4, <2>1, <2>2, <2>4, BecomesTypes DEF d
  <2>6. RowsOK'
    BY <1>4, <2>1 DEF RowsOK
  <2> QED
    BY <1>2, <2>5, <2>6 DEF WellTyped
<1>7. ASSUME NEW id, NEW new, ServedWrite(i, id, new)
      PROVE  WellTyped'
  <2>1. /\ c.op # "list" /\ new \in RowType /\ new.id = id /\ id \in Ids(c.kind)
        /\ c.op \in {"update", "delete"} => id = c.row.id
        /\ rows' = Others(id) \cup (IF c.op = "delete" THEN {} ELSE {new})
        /\ Becomes(i, {new})
    BY <1>7 DEF ServedWrite
  <2>2. id \in Blocks \cup Entries /\ {new} \in SUBSET RowType
    BY <1>5, <2>1, Kinds, CallFields
  <2> DEFINE d == [c EXCEPT !.stage = "ok", !.answer = {new}]
  <2>3. /\ d.stage = "ok" /\ d.answer = {new} /\ d.op = c.op /\ d.kind = c.kind
        /\ d.row = c.row /\ d.by = c.by
    BY <1>5, <2>2, AnsweredIs
  <2> HIDE DEF d
  <2>4. CallOK(d)
    BY <1>5, <2>1, <2>3 DEF CallOK
  <2>5. CallsOK'
    BY <1>4, <2>1, <2>2, <2>4, BecomesTypes DEF d
  <2>6. rows' = Others(id) \cup (IF c.op # "delete" THEN {new} ELSE {})
    BY <2>1
  <2>7. RowsOK'
    BY <1>4, <2>1, <2>2, <2>6, WrittenRows
  <2> QED
    BY <1>2, <2>5, <2>7 DEF WellTyped
<1> QED
  BY <1>3, <1>6, <1>7

LEMMA GoneTypes ==
  ASSUME CallsOK, NEW i, Gone(i)
  PROVE  CallsOK'
<1>1. \A j \in DOMAIN calls : CallOK(calls[j])
  BY DEF CallsOK
<1>2. \A j \in DOMAIN calls' : CallOK(calls'[j])
  BY <1>1 DEF Gone
<1> QED
  BY <1>2 DEF CallsOK, Gone

LEMMA AnswerTypes ==
  ASSUME WellTyped, Answer
  PROVE  WellTyped'
<1>1. UNCHANGED <<page, edits, day, rows, sent, gesture>> /\ PointerOK'
  BY AnswerIs
<1>2. PICK i \in DOMAIN calls : AnsweredAt(i)
  BY AnswerIs
<1> DEFINE c == calls[i]
<1>3. c \in CallType /\ CallOK(c) /\ c.kind \in Kind
  BY CallAt, CallFields DEF WellTyped
<1>4. Succeeded(c) \/ LostOrRefused(c)
  BY <1>2 DEF AnsweredAt
<1>5. RowsOK' /\ CallsOK'
  BY <1>1, <1>2, GoneTypes DEF WellTyped, RowsOK, AnsweredAt
<1>6. DOMAIN view = Kind /\ \A k \in Kind : ListOK(view[k], k)
  BY DEF WellTyped, ViewOK
<1>7. stale \in [Kind -> BOOLEAN]
  BY DEF WellTyped, CountsOK
<1>8. busy' \in BOOLEAN
  BY <1>2 DEF AnsweredAt, WellTyped, CountsOK
<1> HIDE DEF c
<1>9. ViewOK' /\ stale' \in [Kind -> BOOLEAN]
  <2>1. CASE Succeeded(c)
    <3>1. view' = [view EXCEPT ![c.kind] = Merge(view[c.kind], c)] /\ c.stage = "ok" /\ stale' = stale
      BY <2>1 DEF Succeeded
    <3>2. ListOK(Merge(view[c.kind], c), c.kind)
      BY <1>3, <1>6, <3>1, MergedType
    <3>3. DOMAIN view' = Kind /\ \A k \in Kind : ListOK(view'[k], k)
      BY <1>3, <1>6, <3>1, <3>2
    <3> QED
      BY <1>7, <3>1, <3>3 DEF ViewOK
  <2>2. CASE LostOrRefused(c)
    <3>1. view' = view /\ stale' = [stale EXCEPT ![c.kind] = TRUE]
      BY <2>2 DEF LostOrRefused
    <3> QED
      BY <1>6, <1>7, <3>1 DEF ViewOK
  <2> QED
    BY <1>4, <2>1, <2>2
<1>10. CountsOK'
  BY <1>1, <1>8, <1>9 DEF PointerOK, WellTyped, CountsOK
<1> QED
  BY <1>1, <1>5, <1>9, <1>10 DEF PointerOK, WellTyped

LEMMA StepTypes ==
  ASSUME WellTyped, [Next]_vars
  PROVE  WellTyped'
<1>1. CASE UNCHANGED vars
  <2>1. Quiet /\ UNCHANGED <<dialog, gesture, drag, edits, error>>
    BY <1>1 DEF vars, uiVars, Quiet
  <2>2. PointerOK'
    BY <2>1 DEF WellTyped, PointerOK, CountsOK, DialogOK, GestureOK, DragOK
  <2> QED
    BY <2>1, <2>2, QuietTypes
<1>2. CASE Next
  BY <1>2, StepsAre, QuietTypes, SendsTypes, FetchesTypes, ServeTypes, AnswerTypes
<1> QED
  BY <1>1, <1>2

(***************************************************************************)
(* The first state.                                                        *)
(***************************************************************************)
\* Its calls are the lists of both kinds for the shown days.
LEMMA FirstCalls ==
  ASSUME Init
  PROVE  \E a, b \in Int, lb, le \in CallType :
           /\ a <= b /\ ShownDays = a .. b
           /\ calls = <<lb, le>> /\ lb.kind = "block" /\ le.kind = "entry"
           /\ \A c \in {lb, le} : /\ CallOK(c) /\ ~Saving(c) /\ c.op = "list" /\ c.stage = "sent"
                                  /\ c.first = a /\ c.last = b
<1>1. day \in Int
  BY TimeAssumption DEF Init
<1>2. PICK a, b \in Int : a <= b /\ ShownDays = a .. b
  BY <1>1, ShownNow
<1> DEFINE lb == ListCall("block", a .. b)
           le == ListCall("entry", a .. b)
<1>3. calls = <<lb, le>>
  BY <1>2 DEF Init, Lists
<1>4. \A c \in {lb, le} : /\ c \in CallType /\ CallOK(c) /\ ~Saving(c)
                          /\ c.op = "list" /\ c.stage = "sent" /\ c.first = a /\ c.last = b
  BY <1>2, ListCallIs DEF Kind
<1>5. lb.kind = "block" /\ le.kind = "entry"
  BY <1>2, ListCallIs DEF Kind
<1> HIDE DEF lb, le
<1> QED
  BY <1>2, <1>3, <1>4, <1>5

LEMMA InitTypes == Init => WellTyped
<1> SUFFICES ASSUME Init PROVE WellTyped
  OBVIOUS
<1>1. RowsOK
  <2>1. rows = OldRows
    BY DEF Init
  <2>2. /\ OldRows \subseteq RowType /\ IsFiniteSet(OldRows) /\ \A r \in OldRows : r.id # NoId
        /\ Keyed(OldRows)
    BY OldRowsAssumption DEF Keyed
  <2>3. \A r \in OldRows : r.id \in Blocks \cup Entries
    BY <2>2, RowFields
  <2> QED
    BY <2>1, <2>2, <2>3 DEF RowsOK
<1>2. ViewOK
  <2>1. ListOK(<<>>, "block") /\ ListOK(<<>>, "entry")
    BY FS_EmptySet DEF ListOK
  <2>2. view = [k \in Kind |-> <<>>]
    BY DEF Init
  <2> QED
    BY <2>1, <2>2 DEF ViewOK, Kind
<1>3. CallsOK
  <2>1. PICK lb, le \in CallType : calls = <<lb, le>> /\ CallOK(lb) /\ CallOK(le)
    BY FirstCalls
  <2>2. calls \in Seq(CallType)
    BY <2>1
  <2>3. DOMAIN calls = {1, 2} /\ calls[1] = lb /\ calls[2] = le
    BY <2>1
  <2> QED
    BY <2>1, <2>2, <2>3 DEF CallsOK
<1>4. DialogOK
  BY ClosedOK DEF Init, DialogOK
<1>5. GestureOK
  BY IdleOK DEF Init, GestureOK
<1>6. DragOK
  BY NoDragOK DEF Init, DragOK
<1>7. CountsOK
  <2>1. page \in {"daily", "weekly"} /\ day \in Int
    BY PagesAssumption, TimeAssumption DEF Init
  <2>2. busy = FALSE /\ error = FALSE /\ stale = [k \in Kind |-> FALSE] /\ sent = 2 /\ edits = 0
    BY DEF Init
  <2>3. 2 \in 0..MaxRequests /\ 0 \in 0..MaxEdits
    BY BoundAssumption
  <2>4. stale \in [Kind -> BOOLEAN]
    BY <2>2
  <2> QED
    BY <2>1, <2>2, <2>3, <2>4 DEF CountsOK
<1> QED
  BY <1>1, <1>2, <1>3, <1>4, <1>5, <1>6, <1>7 DEF WellTyped

\* Every variable has its type, what the store, the table and an answer hold is
\* of its kind, and no row is in the table twice (useTimeBlockStore).
THEOREM TypeInvariance == Spec => []WellTyped
BY InitTypes, StepTypes, PTL DEF Spec

(***************************************************************************)
(* Saving an entry.                                                        *)
(***************************************************************************)
\* Every other request has its place among those that are left.
LEMMA PlaceIs ==
  ASSUME NEW n \in Nat, NEW i \in 1..n
  PROVE  /\ \A j, h \in 1..(n - 1) : Place(i, j) = Place(i, h) => j = h
         /\ \A h \in 1..n : h # i => \E j \in 1..(n - 1) : Place(i, j) = h
<1>1. \A j, h \in 1..(n - 1) : Place(i, j) = Place(i, h) => j = h
  BY DEF Place
<1>2. ASSUME NEW h \in 1..n, h # i PROVE \E j \in 1..(n - 1) : Place(i, j) = h
  <2>1. CASE h < i
    <3>1. h \in 1..(n - 1) /\ Place(i, h) = h
      BY <2>1 DEF Place
    <3> QED
      BY <3>1
  <2>2. CASE h > i
    <3>1. h - 1 \in 1..(n - 1) /\ Place(i, h - 1) = h
      BY <2>2 DEF Place
    <3> QED
      BY <3>1
  <2> QED
    BY <1>2, <2>1, <2>2
<1> QED
  BY <1>1, <1>2

LEMMA GoneSaving ==
  ASSUME CallsOK, busy \in BOOLEAN, SavingIsBusy, NEW i \in DOMAIN calls, AnsweredAt(i)
  PROVE  SavingIsBusy'
<1> DEFINE n == Len(calls)
<1>1. n \in Nat /\ i \in 1..n /\ DOMAIN calls = 1..n
  BY LenProperties DEF CallsOK
<1>2. /\ DOMAIN calls' = 1..(n - 1) /\ busy' = (busy /\ ~Saving(calls[i]))
      /\ \A j \in 1..(n - 1) : Place(i, j) \in DOMAIN calls /\ Place(i, j) # i
                               /\ calls'[j] = calls[Place(i, j)]
  BY DEF AnsweredAt, Gone
<1> HIDE DEF n
<1>3. /\ \A j, h \in 1..(n - 1) : Place(i, j) = Place(i, h) => j = h
      /\ \A h \in 1..n : h # i => \E j \in 1..(n - 1) : Place(i, j) = h
  BY <1>1, PlaceIs
<1>4. /\ busy => \E h \in DOMAIN calls : Saving(calls[h])
      /\ \A h, j \in DOMAIN calls : Saving(calls[h]) /\ Saving(calls[j]) => h = j
      /\ ~busy => \A h \in DOMAIN calls : ~Saving(calls[h])
  BY DEF SavingIsBusy
<1>5. ASSUME busy' PROVE \E j \in DOMAIN calls' : Saving(calls'[j])
  <2>1. PICK h \in DOMAIN calls : Saving(calls[h]) /\ h # i
    BY <1>2, <1>4, <1>5
  <2>2. PICK j \in 1..(n - 1) : Place(i, j) = h
    BY <1>1, <1>3, <2>1
  <2> QED
    BY <1>2, <2>1, <2>2
<1>6. ASSUME NEW h \in DOMAIN calls', NEW j \in DOMAIN calls', Saving(calls'[h]), Saving(calls'[j])
      PROVE  h = j
  <2>1. Saving(calls[Place(i, h)]) /\ Saving(calls[Place(i, j)])
    BY <1>2, <1>6
  <2>2. Place(i, h) = Place(i, j)
    BY <1>2, <1>4, <2>1
  <2> QED
    BY <1>2, <1>3, <2>2
<1>7. ASSUME ~busy', NEW j \in DOMAIN calls' PROVE ~Saving(calls'[j])
  BY <1>1, <1>2, <1>4, <1>7
<1> QED
  BY <1>5, <1>6, <1>7 DEF SavingIsBusy

\* A request that is served keeps all but its stage and its answer.
LEMMA BecomesFields ==
  ASSUME CallsOK, NEW i \in DOMAIN calls, NEW answer \in SUBSET RowType, Becomes(i, answer)
  PROVE  /\ calls'[i].stage = "ok" /\ calls'[i].answer = answer
         /\ calls'[i].op = calls[i].op /\ calls'[i].kind = calls[i].kind
         /\ calls'[i].row = calls[i].row /\ calls'[i].by = calls[i].by
         /\ calls'[i].first = calls[i].first /\ calls'[i].last = calls[i].last
<1> DEFINE c == calls[i]
           d == calls'[i]
<1>1. c \in CallType
  BY CallAt
<1>2. d = [c EXCEPT !.stage = "ok", !.answer = answer]
  BY DEF Becomes
<1> HIDE DEF c, d
<1>3. /\ d.stage = "ok" /\ d.answer = answer /\ d.op = c.op /\ d.kind = c.kind
      /\ d.row = c.row /\ d.by = c.by /\ d.first = c.first /\ d.last = c.last
  BY <1>1, <1>2, AnsweredIs
<1> QED
  BY <1>3 DEF c, d

LEMMA BecomesSaving ==
  ASSUME CallsOK, SavingIsBusy, NEW i \in DOMAIN calls, NEW answer \in SUBSET RowType,
         Becomes(i, answer), busy' = busy
  PROVE  SavingIsBusy'
<1>2. calls'[i].kind = calls[i].kind /\ calls'[i].by = calls[i].by
  BY BecomesFields
<1>3. DOMAIN calls' = DOMAIN calls /\ \A j \in DOMAIN calls : j # i => calls'[j] = calls[j]
  BY DEF Becomes
<1>4. \A j \in DOMAIN calls : Saving(calls'[j]) <=> Saving(calls[j])
  BY <1>2, <1>3 DEF Saving
<1> QED
  BY <1>3, <1>4 DEF SavingIsBusy

LEMMA StepSaving ==
  ASSUME WellTyped, SavingIsBusy, [Next]_vars
  PROVE  SavingIsBusy'
<1>1. CallsOK /\ busy \in BOOLEAN /\ RowsOK
  BY DEF WellTyped, CountsOK
<1>2. CASE UNCHANGED vars \/ Quiet
  <2>1. calls' = calls /\ busy' = busy
    BY <1>2 DEF vars, uiVars, Quiet
  <2> QED
    BY <2>1 DEF SavingIsBusy
<1>3. CASE Sends
  <2>1. PICK c : NewCall(c) /\ Send(<<c>>) /\ (Saving(c) => ~busy) /\ busy' = (busy \/ Saving(c))
    BY <1>3 DEF Sends
  <2> DEFINE n == Len(calls)
  <2>2. /\ DOMAIN calls = 1..n /\ n \in Nat /\ DOMAIN calls' = 1..(n + 1)
        /\ \A j \in 1..n : calls'[j] = calls[j]
        /\ calls'[n + 1] = c
    BY <2>1, SendIs DEF NewCall
  <2> HIDE DEF n
  <2>3. \A j \in 1..(n + 1) : j \in 1..n \/ j = n + 1
    BY <2>2
  <2>4. n + 1 \in 1..(n + 1) /\ \A j \in 1..n : j \in 1..(n + 1)
    BY <2>2
  <2> QED
    BY <1>1, <2>1, <2>2, <2>3, <2>4 DEF SavingIsBusy
<1>4. CASE Fetches
  <2> DEFINE n == Len(calls)
  <2>1. PICK lb, le \in CallType :
           /\ DOMAIN calls = 1..n /\ n \in Nat /\ DOMAIN calls' = 1..(n + 2)
           /\ \A j \in 1..n : calls'[j] = calls[j]
           /\ calls'[n + 1] = lb /\ calls'[n + 2] = le
           /\ ~Saving(lb) /\ ~Saving(le)
    BY <1>4, FetchIs
  <2>2. busy' = busy
    BY <1>4 DEF Fetches
  <2> HIDE DEF n
  <2>3. \A j \in 1..(n + 2) : j \in 1..n \/ j = n + 1 \/ j = n + 2
    BY <2>1
  <2>4. \A j \in 1..n : j \in 1..(n + 2)
    BY <2>1
  <2>5. \A j \in DOMAIN calls' : Saving(calls'[j]) => j \in DOMAIN calls /\ Saving(calls[j])
    BY <2>1, <2>3
  <2> QED
    BY <2>1, <2>2, <2>4, <2>5 DEF SavingIsBusy
<1>5. CASE Serve
  <2>1. busy' = busy
    BY <1>5, ServeIs
  <2>2. PICK i \in DOMAIN calls : ServedList(i) \/ \E id, new : ServedWrite(i, id, new)
    BY <1>5, ServeIs
  <2>3. Found(calls[i]) \in SUBSET RowType
    BY <1>1, FoundIs
  <2>4. \E answer \in SUBSET RowType : Becomes(i, answer)
    BY <2>2, <2>3 DEF ServedList, ServedWrite
  <2> QED
    BY <1>1, <2>1, <2>4, BecomesSaving
<1>6. CASE Answer
  <2>1. PICK i \in DOMAIN calls : AnsweredAt(i)
    BY <1>6, AnswerIs
  <2> QED
    BY <1>1, <2>1, GoneSaving
<1> QED
  BY <1>2, <1>3, <1>4, <1>5, <1>6, StepsAre

LEMMA InitSaving == Init => SavingIsBusy
<1> SUFFICES ASSUME Init PROVE SavingIsBusy
  OBVIOUS
<1>1. PICK lb, le \in CallType : calls = <<lb, le>> /\ ~Saving(lb) /\ ~Saving(le)
  BY FirstCalls
<1>2. DOMAIN calls = {1, 2} /\ calls[1] = lb /\ calls[2] = le
  BY <1>1
<1>3. ~busy
  BY DEF Init
<1> QED
  BY <1>1, <1>2, <1>3 DEF SavingIsBusy

LEMMA SavingCounts == WellTyped /\ SavingIsBusy => SubmittingIsSaving
<1> SUFFICES ASSUME WellTyped, SavingIsBusy PROVE SubmittingIsSaving
  OBVIOUS
<1> DEFINE S == {i \in DOMAIN calls : calls[i].kind = "entry" /\ calls[i].by = "dialog"}
<1>1. S = {i \in DOMAIN calls : Saving(calls[i])} /\ busy \in BOOLEAN
  BY DEF Saving, WellTyped, CountsOK
<1>2. CASE busy
  <2>1. PICK i \in DOMAIN calls : Saving(calls[i])
    BY <1>2 DEF SavingIsBusy
  <2>2. S = {i}
    BY <1>1, <2>1 DEF SavingIsBusy
  <2>3. Cardinality(S) = 1
    BY <2>2, FS_Singleton
  <2> QED
    BY <1>2, <2>3 DEF SubmittingIsSaving
<1>3. CASE ~busy
  <2>1. S = {}
    BY <1>1, <1>3 DEF SavingIsBusy
  <2>2. Cardinality(S) = 0
    BY <2>1, FS_EmptySet
  <2> QED
    BY <1>3, <2>2 DEF SubmittingIsSaving
<1> QED
  BY <1>1, <1>2, <1>3

\* The save button of an entry is disabled exactly while one save of an entry
\* is under way (isEntrySubmitting).
THEOREM EntrySavedOnce == Spec => []SubmittingIsSaving
<1>1. Init => WellTyped /\ SavingIsBusy
  BY InitTypes, InitSaving
<1>2. WellTyped /\ SavingIsBusy /\ [Next]_vars => (WellTyped /\ SavingIsBusy)'
  BY StepTypes, StepSaving
<1> QED
  BY <1>1, <1>2, SavingCounts, PTL DEF Spec

(***************************************************************************)
(* Types and gestures.                                                     *)
(***************************************************************************)
LEMMA TypesFollow == WellTyped => TypeOK
<1> SUFFICES ASSUME WellTyped PROVE TypeOK
  OBVIOUS
<1>1. /\ day \in Int /\ error \in BOOLEAN /\ busy \in BOOLEAN
      /\ sent \in 0..MaxRequests /\ edits \in 0..MaxEdits
  BY DEF WellTyped, CountsOK
<1>2. \A r \in rows : r.id \in Blocks \cup Entries
  BY DEF WellTyped, RowsOK
<1>3. ASSUME NEW k \in Kind, NEW i \in DOMAIN view[k] PROVE KindOf(view[k][i].id) = k
  <2>1. view[k][i].id \in Ids(k)
    BY DEF WellTyped, ViewOK, ListOK
  <2> QED
    BY <2>1, Kinds
<1>4. dialog.open \in BOOLEAN
  BY DEF WellTyped, DialogOK, DialogType
<1>5. gesture.on \in BOOLEAN
  BY DEF WellTyped, GestureOK, GestureType
<1>6. drag.held \in BOOLEAN
  BY DEF WellTyped, DragOK
<1>7. ASSUME NEW i \in DOMAIN calls PROVE calls[i].stage \in {"sent", "ok"}
  BY CallAt, CallFields DEF WellTyped
<1> QED
  BY <1>1, <1>2, <1>3, <1>4, <1>5, <1>6, <1>7 DEF TypeOK

\* Every variable has its type; what the store holds of a kind is of it.
THEOREM TypesHold == Spec => []TypeOK
BY TypeInvariance, TypesFollow, PTL

LEMMA StepGesture ==
  ASSUME WellTyped, MoveFaithful, [Next]_vars
  PROVE  MoveFaithful'
<1>1. CASE UNCHANGED vars
  BY <1>1 DEF vars, uiVars, MoveFaithful
<1> QED
  BY <1>1, GestureSteps

\* What the pointer shows is what is saved, wherever it goes: a moved block
\* keeps its length, a resized one its other edge, and a dropped task lands at
\* its indicator (handleMouseMove, useTimelineDrop).
THEOREM GesturesAreFaithful == Spec => []GestureFaithful
<1>1. Init => MoveFaithful
  BY IdleOK DEF Init, MoveFaithful
<1>2. WellTyped /\ MoveFaithful /\ [Next]_vars => MoveFaithful'
  BY StepGesture
<1>3. WellTyped /\ MoveFaithful => GestureFaithful
  BY DropsAreFaithful DEF GestureFaithful, WellTyped
<1> QED
  BY <1>1, <1>2, <1>3, TypeInvariance, PTL DEF Spec

(***************************************************************************)
(* What the page shows.                                                    *)
(***************************************************************************)
\* Requests under other numbers, or with others of the other kind, are the same.
LEMMA Renamed ==
  ASSUME NEW cs, NEW cs2, NEW m, NEW k, NEW rs, NEW v, NEW days,
         \A j \in CallsOf(cs2, k) : m[j] \in CallsOf(cs, k) /\ cs2[j] = cs[m[j]],
         \A j, h \in CallsOf(cs2, k) : m[j] = m[h] => j = h,
         \A h \in CallsOf(cs, k) : \E j \in CallsOf(cs2, k) : m[j] = h,
         Fresh(cs, rs, v, k, days)
  PROVE  Fresh(cs2, rs, v, k, days)
<1> DEFINE A == CallsOf(cs, k)
           B == CallsOf(cs2, k)
<1>1. /\ \A j \in B : m[j] \in A /\ cs2[j] = cs[m[j]]
      /\ \A j, h \in B : m[j] = m[h] => j = h
      /\ \A h \in A : \E j \in B : m[j] = h
  OBVIOUS
<1>2. HasList(cs2, k) <=> \E j \in B : cs2[j].op = "list"
  BY DEF HasList
<1>3. HasList(cs, k) <=> \E j \in A : cs[j].op = "list"
  BY DEF HasList
<1>4. Moving(cs2, k) = {id \in Blocks \cup Entries :
                          \E i \in B : cs2[i].stage = "ok" /\ id \in Subject(cs2[i])}
  BY DEF Moving
<1>5. Moving(cs, k) = {id \in Blocks \cup Entries :
                          \E i \in A : cs[i].stage = "ok" /\ id \in Subject(cs[i])}
  BY DEF Moving
<1>6. Listing(cs, rs, k, days) <=>
        /\ \A i, j \in A : i = j
        /\ \A i \in A : /\ days = cs[i].first .. cs[i].last
                        /\ cs[i].stage = "ok" => cs[i].answer = Expected(rs, k, days)
  BY DEF Listing
<1>7. Listing(cs2, rs, k, days) <=>
        /\ \A i, j \in B : i = j
        /\ \A i \in B : /\ days = cs2[i].first .. cs2[i].last
                        /\ cs2[i].stage = "ok" => cs2[i].answer = Expected(rs, k, days)
  BY DEF Listing
<1>8. Apart(cs, k) <=> \A i, j \in A : i # j => Subject(cs[i]) \cap Subject(cs[j]) = {}
  BY DEF Apart
<1>9. Apart(cs2, k) <=> \A i, j \in B : i # j => Subject(cs2[i]) \cap Subject(cs2[j]) = {}
  BY DEF Apart
<1>10. Settling(cs, rs, v, k, days) <=>
         /\ Apart(cs, k) /\ Once(v)
         /\ SettledView(cs, rs, v, k) /\ SettledRows(cs, rs, v, k, days)
         /\ \A i \in A : Answered(cs[i], rs, v)
  BY DEF Settling
<1>11. Settling(cs2, rs, v, k, days) <=>
         /\ Apart(cs2, k) /\ Once(v)
         /\ SettledView(cs2, rs, v, k) /\ SettledRows(cs2, rs, v, k, days)
         /\ \A i \in B : Answered(cs2[i], rs, v)
  BY DEF Settling
<1> HIDE DEF A, B
<1>12. HasList(cs2, k) <=> HasList(cs, k)
  BY <1>1, <1>2, <1>3
<1>13. Moving(cs2, k) = Moving(cs, k)
  BY <1>1, <1>4, <1>5
<1>14. Listing(cs, rs, k, days) => Listing(cs2, rs, k, days)
  BY <1>1, <1>6, <1>7
<1>15. Apart(cs, k) => Apart(cs2, k)
  BY <1>1, <1>8, <1>9
<1>16. /\ SettledView(cs, rs, v, k) => SettledView(cs2, rs, v, k)
       /\ SettledRows(cs, rs, v, k, days) => SettledRows(cs2, rs, v, k, days)
  BY <1>13 DEF SettledView, SettledRows
<1>17. Settling(cs, rs, v, k, days) => Settling(cs2, rs, v, k, days)
  BY <1>1, <1>10, <1>11, <1>15, <1>16
<1> QED
  BY <1>12, <1>14, <1>17 DEF Fresh

\* Nothing that happens to the rows of the other kind matters.
LEMMA OtherRows ==
  ASSUME NEW cs, NEW rs, NEW rs2, NEW v, NEW k \in Kind, NEW days, ListOK(v, k),
         \A i \in CallsOf(cs, k) : CallOK(cs[i]) /\ cs[i].op \in {"list", "create", "update", "delete", "stop"},
         \A r : KindOf(r.id) = k => (r \in rs <=> r \in rs2),
         Fresh(cs, rs, v, k, days)
  PROVE  Fresh(cs, rs2, v, k, days)
<1> DEFINE A == CallsOf(cs, k)
<1>1. Expected(rs2, k, days) = Expected(rs, k, days)
  BY DEF Expected
<1>2. Listing(cs, rs, k, days) => Listing(cs, rs2, k, days)
  BY <1>1 DEF Listing
<1>3. \A i \in DOMAIN v : KindOf(v[i].id) = k
  BY Kinds DEF ListOK
<1>4. SettledView(cs, rs, v, k) => SettledView(cs, rs2, v, k)
  BY <1>3 DEF SettledView
<1>5. SettledRows(cs, rs, v, k, days) => SettledRows(cs, rs2, v, k, days)
  BY <1>1 DEF SettledRows
<1>6. ASSUME NEW i \in A, Answered(cs[i], rs, v) PROVE Answered(cs[i], rs2, v)
  <2> DEFINE c == cs[i]
  <2>1. CallOK(c) /\ c.kind = k
    BY DEF CallsOf
  <2>2. Answered(c, rs, v)
    BY <1>6
  <2> HIDE DEF c
  <2>3. \A r \in c.answer : KindOf(r.id) = k
    BY <2>1, Kinds DEF CallOK
  <2>4. c.op = "delete" => KindOf(c.row.id) = k
    BY <2>1, Kinds DEF CallOK
  <2>5. c.stage = "ok" /\ c.op # "delete" => c.answer \subseteq rs2
    BY <2>2, <2>3 DEF Answered
  <2>6. c.stage = "ok" /\ c.op = "delete" => \A r \in rs2 : r.id # c.row.id
    BY <2>2, <2>4 DEF Answered
  <2>7. /\ c.op = "update" => c.row.id \in IdsIn(v)
        /\ c.stage = "ok" /\ c.op \in {"create", "stop"} => Subject(c) \cap IdsIn(v) = {}
    BY <2>2 DEF Answered
  <2>8. Answered(c, rs2, v)
    BY <2>5, <2>6, <2>7 DEF Answered
  <2> QED
    BY <2>8 DEF c
<1>7. Settling(cs, rs, v, k, days) => Settling(cs, rs2, v, k, days)
  BY <1>4, <1>5, <1>6 DEF Settling
<1> QED
  BY <1>2, <1>7 DEF Fresh

\* With nothing in flight, what is shown is what the table holds.
LEMMA FreshShows ==
  ASSUME WellTyped, AllFresh
  PROVE  ViewTrue
<1> SUFFICES ASSUME calls = <<>>, NEW k \in Kind, ~stale[k]
             PROVE  /\ Shown(k) = {r \in rows : KindOf(r.id) = k /\ LocalDate(r.s) \in ShownDays}
                    /\ \A i, j \in Places(k) : i # j => view[k][i].id # view[k][j].id
  BY DEF ViewTrue
<1> DEFINE v == view[k]
           E == Expected(rows, k, ShownDays)
<1>1. Fresh(calls, rows, v, k, ShownDays) /\ ListOK(v, k)
  BY DEF AllFresh, WellTyped, ViewOK
<1>2. CallsOf(calls, k) = {}
  BY DEF CallsOf
<1>3. ~HasList(calls, k) /\ Moving(calls, k) = {}
  BY <1>2 DEF HasList, Moving
<1>4. Settling(calls, rows, v, k, ShownDays)
  BY <1>1, <1>3 DEF Fresh
<1>5. Places(k) = {i \in DOMAIN v : LocalDate(v[i].s) \in ShownDays} /\ Shown(k) = {v[i] : i \in Places(k)}
  BY DEF Places, Shown
<1>6. E = {r \in rows : KindOf(r.id) = k /\ LocalDate(r.s) \in ShownDays}
  BY DEF Expected
<1> HIDE DEF v, E
<1>7. \A i \in DOMAIN v : v[i] \in rows /\ KindOf(v[i].id) = k
  BY <1>1, <1>3, <1>4, Kinds DEF Settling, SettledView, ListOK
<1>8. \A r \in E : \E i \in DOMAIN v : v[i] = r
  BY <1>3, <1>4 DEF Settling, SettledRows, E
<1>9. Once(v)
  BY <1>4 DEF Settling
<1>10. Shown(k) = E
  BY <1>5, <1>6, <1>7, <1>8
<1>11. \A i, j \in Places(k) : i # j => v[i].id # v[j].id
  BY <1>5, <1>9 DEF Once
<1> QED
  BY <1>6, <1>10, <1>11 DEF v

LEMMA SendsFresh ==
  ASSUME WellTyped, AllFresh, Sends
  PROVE  AllFresh'
<1>1. /\ rows' = rows /\ view' = view /\ ShownDays' = ShownDays
  BY DEF Sends, ShownDays
<1>2. PICK c : NewCall(c) /\ Send(<<c>>)
  BY DEF Sends
<1>3. /\ c \in CallType /\ CallOK(c) /\ c.op # "list" /\ c.stage = "sent" /\ c.answer = {}
      /\ c.kind \in Kind /\ c.op \in {"create", "update", "delete", "stop"}
      /\ c.op = "delete" => c.row.id \in Viewed(c.kind)
  BY <1>2, CallFields DEF NewCall, CallOK
<1> DEFINE n == Len(calls)
<1>4. /\ DOMAIN calls = 1..n /\ n \in Nat /\ DOMAIN calls' = 1..(n + 1)
      /\ \A j \in 1..n : calls'[j] = calls[j]
      /\ calls'[n + 1] = c
  BY <1>2, <1>3, SendIs
<1> HIDE DEF n
<1>5. \A j \in 1..(n + 1) : j \in 1..n \/ j = n + 1
  BY <1>4
<1>6. n + 1 \in 1..(n + 1) /\ n + 1 \notin 1..n /\ \A j \in 1..n : j \in 1..(n + 1)
  BY <1>4
<1> SUFFICES ASSUME NEW k \in Kind, ~stale'[k]
             PROVE  Fresh(calls', rows', view'[k], k, ShownDays')
  BY DEF AllFresh
<1>7. /\ ~stale[k]
      /\ c.kind = k => ~Misses(c) /\ \A i \in CallsOf(calls, k) : ~Disturbs(c, calls[i])
  BY <1>2, <1>3, SendStale
<1>8. Fresh(calls, rows, view[k], k, ShownDays)
  BY <1>7 DEF AllFresh
<1>9. CASE c.kind # k
  <2> DEFINE m == [j \in 1..n |-> j]
  <2>1. CallsOf(calls', k) = CallsOf(calls, k) /\ CallsOf(calls, k) \subseteq 1..n
    BY <1>4, <1>5, <1>6, <1>9 DEF CallsOf
  <2>2. \A j \in 1..n : m[j] = j /\ calls'[j] = calls[j]
    BY <1>4
  <2> HIDE DEF m
  <2>3. Fresh(calls', rows, view[k], k, ShownDays)
    BY <1>8, <2>1, <2>2, Renamed
  <2> QED
    BY <1>1, <2>3
<1>10. CASE c.kind = k
  <2> DEFINE v == view[k]
             A == CallsOf(calls, k)
             B == CallsOf(calls', k)
  <2>1. B = A \cup {n + 1} /\ A \subseteq 1..n
    BY <1>4, <1>5, <1>6, <1>10 DEF CallsOf
  <2>2. \A j \in A : calls'[j] = calls[j]
    BY <1>4, <2>1
  <2>3. \A j \in A : /\ calls[j].op # "list"
                     /\ c.row.id # NoId => c.row.id # calls[j].row.id
    BY <1>7, <1>10 DEF Disturbs
  <2>4. ~HasList(calls, k) /\ ~HasList(calls', k)
    BY <1>3, <1>4, <2>1, <2>2, <2>3 DEF HasList
  <2>5. Settling(calls, rows, v, k, ShownDays)
    BY <1>8, <2>4 DEF Fresh
  <2>6. c.op \in {"update", "delete"} => c.row.id \in IdsIn(v) /\ c.row.id # NoId
    <3>1. c.op \in {"update", "delete"} => c.row.id \in Viewed(k)
      BY <1>3, <1>7, <1>10 DEF Misses
    <3>2. c.op \in {"update", "delete"} => c.row.id \in Ids(k)
      BY <1>3, <1>10 DEF CallOK
    <3> QED
      BY <3>1, <3>2, ViewedOf, Kinds
  <2>7. Subject(c) = IF c.op \in {"update", "delete"} THEN {c.row.id} ELSE {}
    BY <1>3 DEF Subject
  <2> HIDE DEF A, B, v
  <2>8. ASSUME NEW j \in A
        PROVE  Subject(c) \cap Subject(calls[j]) = {}
    <3> DEFINE d == calls[j]
    <3>1. d \in CallType /\ CallOK(d)
      BY <1>4, <2>1, CallAt DEF WellTyped
    <3>2. Answered(d, rows, v)
      BY <2>5 DEF Settling, A
    <3>3. d.op # "list" /\ (c.row.id # NoId => c.row.id # d.row.id)
      BY <2>3
    <3> HIDE DEF d
    <3>4. d.op \in {"create", "update", "delete", "stop"}
      BY <3>1, <3>3, CallFields
    <3>5. CASE d.op \in {"update", "delete"}
      <4>1. Subject(d) = {d.row.id}
        BY <3>5 DEF Subject
      <4> QED
        BY <2>6, <2>7, <3>3, <4>1 DEF d
    <3>6. CASE d.op \in {"create", "stop"}
      <4>1. Subject(d) = {r.id : r \in d.answer}
        BY <3>6 DEF Subject
      <4>2. CASE d.stage = "ok"
        <5>1. Subject(d) \cap IdsIn(v) = {}
          BY <3>2, <3>6, <4>2 DEF Answered
        <5> QED
          BY <2>6, <2>7, <5>1 DEF d
      <4>3. CASE d.stage = "sent"
        <5>1. d.answer = {}
          BY <3>1, <4>3 DEF CallOK
        <5> QED
          BY <4>1, <5>1 DEF d
      <4> QED
        BY <3>1, <4>2, <4>3, CallFields
    <3> QED
      BY <3>4, <3>5, <3>6
  <2>9. Apart(calls', k)
    <3>1. \A i, j \in A : i # j => Subject(calls[i]) \cap Subject(calls[j]) = {}
      BY <2>5 DEF Settling, Apart, A
    <3>2. \A i, j \in B : i # j => Subject(calls'[i]) \cap Subject(calls'[j]) = {}
      BY <1>4, <2>1, <2>2, <2>8, <3>1
    <3> QED
      BY <3>2 DEF Apart, B
  <2>10. Moving(calls', k) = Moving(calls, k)
    <3>1. Moving(calls', k) = {id \in Blocks \cup Entries :
                                 \E i \in B : calls'[i].stage = "ok" /\ id \in Subject(calls'[i])}
      BY DEF Moving, B
    <3>2. Moving(calls, k) = {id \in Blocks \cup Entries :
                                \E i \in A : calls[i].stage = "ok" /\ id \in Subject(calls[i])}
      BY DEF Moving, A
    <3> QED
      BY <1>3, <1>4, <2>1, <2>2, <3>1, <3>2
  <2>11. Answered(c, rows, v)
    BY <1>3, <2>6 DEF Answered
  <2>12. \A i \in B : Answered(calls'[i], rows, v)
    <3>1. \A i \in A : Answered(calls[i], rows, v)
      BY <2>5 DEF Settling, A
    <3> QED
      BY <1>4, <2>1, <2>2, <2>11, <3>1
  <2>13. Settling(calls', rows, v, k, ShownDays)
    BY <2>5, <2>9, <2>10, <2>12 DEF Settling, SettledView, SettledRows, B
  <2> QED
    BY <1>1, <2>4, <2>13 DEF Fresh, v
<1> QED
  BY <1>9, <1>10

LEMMA FetchesFresh ==
  ASSUME WellTyped, Fetches
  PROVE  AllFresh'
<1> DEFINE n == Len(calls)
<1>1. PICK a, b \in Int, lb, le \in CallType :
           /\ ShownDays' = a .. b
           /\ DOMAIN calls = 1..n /\ n \in Nat
           /\ DOMAIN calls' = 1..(n + 2)
           /\ \A j \in 1..n : calls'[j] = calls[j]
           /\ calls'[n + 1] = lb /\ calls'[n + 2] = le
           /\ lb.kind = "block" /\ le.kind = "entry"
           /\ \A c \in {lb, le} : /\ c.op = "list" /\ c.stage = "sent"
                                  /\ c.first = a /\ c.last = b
           /\ \A k \in Kind : ~stale'[k] => CallsOf(calls, k) = {}
  BY FetchIs
<1> HIDE DEF n
<1>2. \A j \in 1..(n + 2) : j \in 1..n \/ j = n + 1 \/ j = n + 2
  BY <1>1
<1>3. n + 1 \in 1..(n + 2) /\ n + 2 \in 1..(n + 2) /\ \A j \in 1..n : j \in 1..(n + 2)
  BY <1>1
<1> SUFFICES ASSUME NEW k \in Kind, ~stale'[k]
             PROVE  Fresh(calls', rows', view'[k], k, ShownDays')
  BY DEF AllFresh
<1>4. \A j \in 1..n : calls[j].kind # k
  BY <1>1 DEF CallsOf
<1> DEFINE p == IF k = "block" THEN n + 1 ELSE n + 2
           c == IF k = "block" THEN lb ELSE le
<1>5. k \in {"block", "entry"}
  BY DEF Kind
<1>6. p \in 1..(n + 2) /\ calls'[p] = c /\ c.kind = k /\ c.op = "list" /\ c.stage = "sent"
      /\ c.first = a /\ c.last = b
  BY <1>1, <1>3, <1>5
<1>7. \A j \in 1..(n + 2) : calls'[j].kind = k => j = p
  BY <1>1, <1>2, <1>4, <1>5
<1> HIDE DEF p, c
<1>8. CallsOf(calls', k) = {p}
  BY <1>1, <1>6, <1>7 DEF CallsOf
<1>9. HasList(calls', k)
  BY <1>6, <1>8 DEF HasList
<1>10. Listing(calls', rows', k, ShownDays')
  BY <1>1, <1>6, <1>8 DEF Listing
<1> QED
  BY <1>9, <1>10 DEF Fresh

\* A list asks for the days from the first to the last.
LEMMA ListedDays ==
  ASSUME MidnightsClear, RowsOK, NEW c \in CallType
  PROVE  Found(c) = Expected(rows, c.kind, c.first .. c.last)
<1>1. c.first \in Int /\ c.last \in Int /\ c.last + 1 \in Int
  BY CallFields
<1>2. UtcRange(c.first, c.last).from = LocalToUtc(c.first, 0)
      /\ UtcRange(c.first, c.last).to = LocalToUtc(c.last + 1, 0)
  BY DEF UtcRange
<1>3. ASSUME NEW r \in rows
      PROVE  (r.s >= UtcRange(c.first, c.last).from /\ r.s < UtcRange(c.first, c.last).to)
               <=> LocalDate(r.s) \in c.first .. c.last
  <2>1. r.s \in Int
    BY RowFields DEF RowsOK
  <2>2. LocalDate(r.s) \in Int /\ LocalToUtc(c.first, 0) \in Int /\ LocalToUtc(c.last + 1, 0) \in Int
    <3>1. 0 \in Int
      OBVIOUS
    <3>2. LocalDate(r.s) \in Int
      BY <2>1, LocalTypes
    <3>3. LocalToUtc(c.first, 0) \in Int
      BY <1>1, <3>1, InstantType
    <3>4. LocalToUtc(c.last + 1, 0) \in Int
      BY <1>1, <3>1, InstantType
    <3> QED
      BY <3>2, <3>3, <3>4
  <2>3. /\ r.s >= LocalToUtc(c.first, 0) <=> LocalDate(r.s) >= c.first
        /\ r.s >= LocalToUtc(c.last + 1, 0) <=> LocalDate(r.s) >= c.last + 1
    BY <1>1, <2>1, Midnight
  <2>4. r.s < LocalToUtc(c.last + 1, 0) <=> ~(r.s >= LocalToUtc(c.last + 1, 0))
    BY <2>1, <2>2
  <2>5. ~(LocalDate(r.s) >= c.last + 1) <=> LocalDate(r.s) <= c.last
    BY <1>1, <2>2
  <2> QED
    BY <1>1, <1>2, <2>2, <2>3, <2>4, <2>5
<1> QED
  BY <1>3 DEF Found, Expected

\* The requests of the other kind stay what they are when one is served.
LEMMA OthersServed ==
  ASSUME CallsOK, NEW i \in DOMAIN calls, NEW answer \in SUBSET RowType, Becomes(i, answer),
         NEW k, calls[i].kind # k, NEW rs, NEW v, NEW days, Fresh(calls, rs, v, k, days)
  PROVE  Fresh(calls', rs, v, k, days)
<1>1. DOMAIN calls' = DOMAIN calls /\ \A j \in DOMAIN calls : j # i => calls'[j] = calls[j]
  BY DEF Becomes
<1>2. calls'[i].kind = calls[i].kind
  BY BecomesFields
<1>3. CallsOf(calls', k) = CallsOf(calls, k) /\ i \notin CallsOf(calls, k)
      /\ CallsOf(calls, k) \subseteq DOMAIN calls
  BY <1>1, <1>2 DEF CallsOf
<1> DEFINE m == [j \in DOMAIN calls |-> j]
<1>4. \A j \in CallsOf(calls', k) : m[j] = j /\ m[j] \in CallsOf(calls, k) /\ calls'[j] = calls[m[j]]
  BY <1>1, <1>3
<1> HIDE DEF m
<1>5. /\ \A j \in CallsOf(calls', k) : m[j] \in CallsOf(calls, k) /\ calls'[j] = calls[m[j]]
      /\ \A j, h \in CallsOf(calls', k) : m[j] = m[h] => j = h
      /\ \A h \in CallsOf(calls, k) : \E j \in CallsOf(calls', k) : m[j] = h
  BY <1>3, <1>4
<1> QED
  BY <1>5, Renamed

LEMMA ListFresh ==
  ASSUME MidnightsClear, WellTyped, AllFresh, NEW i \in DOMAIN calls, ServedList(i),
         UNCHANGED <<view, stale>>, ShownDays' = ShownDays
  PROVE  AllFresh'
<1> DEFINE c == calls[i]
           found == Found(c)
<1>1. CallsOK /\ RowsOK /\ c \in CallType
  BY CallAt DEF WellTyped
<1>2. found \in SUBSET RowType /\ Becomes(i, found) /\ rows' = rows /\ c.op = "list"
  BY <1>1, FoundIs DEF ServedList
<1>3. /\ calls'[i].stage = "ok" /\ calls'[i].answer = found
      /\ calls'[i].op = c.op /\ calls'[i].kind = c.kind
      /\ calls'[i].first = c.first /\ calls'[i].last = c.last
  BY <1>1, <1>2, BecomesFields
<1>4. found = Expected(rows, c.kind, c.first .. c.last)
  BY <1>1, ListedDays
<1>5. DOMAIN calls' = DOMAIN calls
  BY <1>2 DEF Becomes
<1> HIDE DEF found
<1> SUFFICES ASSUME NEW k \in Kind, ~stale[k]
             PROVE  Fresh(calls', rows, view[k], k, ShownDays)
  BY <1>2 DEF AllFresh
<1>6. Fresh(calls, rows, view[k], k, ShownDays)
  BY DEF AllFresh
<1>7. CASE c.kind # k
  BY <1>1, <1>2, <1>6, <1>7, OthersServed
<1>8. CASE c.kind = k
  <2>1. i \in CallsOf(calls, k) /\ i \in CallsOf(calls', k)
    BY <1>3, <1>5, <1>8 DEF CallsOf
  <2>2. HasList(calls, k) /\ HasList(calls', k)
    BY <1>2, <1>3, <2>1 DEF HasList
  <2>3. Listing(calls, rows, k, ShownDays)
    BY <1>6, <2>2 DEF Fresh
  <2>4. \A j \in CallsOf(calls, k) : j = i
    BY <2>1, <2>3 DEF Listing
  <2>5. \A j \in CallsOf(calls', k) : j = i
    <3>1. \A j \in DOMAIN calls : j # i => calls'[j] = calls[j]
      BY <1>2 DEF Becomes
    <3> QED
      BY <1>5, <2>4, <3>1 DEF CallsOf
  <2>6. ShownDays = c.first .. c.last
    BY <2>1, <2>3 DEF Listing
  <2>7. Listing(calls', rows, k, ShownDays)
    BY <1>3, <1>4, <1>8, <2>5, <2>6 DEF Listing
  <2> QED
    BY <2>2, <2>7 DEF Fresh
<1> QED
  BY <1>7, <1>8

\* What is named by a request is known.
LEMMA SubjectKnown ==
  ASSUME CallsOK, NEW j \in DOMAIN calls
  PROVE  Subject(calls[j]) \subseteq Known
<1>1. calls[j] \in ToSet(calls)
  BY DEF ToSet
<1> DEFINE c == calls[j]
<1> DEFINE Names(x) == {x.row.id} \cup {r.id : r \in x.answer}
           all == UNION {Names(x) : x \in ToSet(calls)}
           rest == {r.id : r \in rows} \cup {dialog.id, gesture.id} \cup (UNION {Viewed(k) : k \in Kind})
<1>2. Known = rest \cup all
  BY DEF Known
<1>3. Subject(c) \subseteq Names(c)
  BY DEF Subject
<1> HIDE DEF Names, c
<1>4. Names(c) \subseteq all
  <2>1. Names(c) \in {Names(x) : x \in ToSet(calls)}
    BY <1>1 DEF c
  <2>2. \A S : Names(c) \in S => Names(c) \subseteq UNION S
    OBVIOUS
  <2> QED
    BY <2>1, <2>2
<1> HIDE DEF all, rest
<1> QED
  BY <1>2, <1>3, <1>4 DEF c

LEMMA WriteFresh ==
  ASSUME WellTyped, AllFresh, NEW i \in DOMAIN calls, NEW id, NEW new, ServedWrite(i, id, new),
         UNCHANGED <<view, stale>>, ShownDays' = ShownDays
  PROVE  AllFresh'
<1> DEFINE c == calls[i]
           c2 == calls'[i]
<1>1. CallsOK /\ RowsOK /\ c \in CallType /\ CallOK(c) /\ c.kind \in Kind
  BY CallAt, CallFields DEF WellTyped
<1>2. /\ c.op # "list" /\ new \in RowType /\ new.id = id /\ id \in Ids(c.kind)
      /\ IF c.op \in {"create", "stop"} THEN id \notin Known ELSE id = c.row.id
      /\ rows' = Others(id) \cup (IF c.op = "delete" THEN {} ELSE {new})
      /\ Becomes(i, {new})
  BY DEF ServedWrite
<1>3. c.op \in {"create", "stop", "update", "delete"}
  BY <1>1, <1>2, CallFields
<1>4. KindOf(id) = c.kind /\ id \in Blocks \cup Entries
  BY <1>1, <1>2, Kinds
<1>5. {new} \in SUBSET RowType
  BY <1>2
<1>6. /\ c2.stage = "ok" /\ c2.answer = {new}
      /\ c2.op = c.op /\ c2.kind = c.kind /\ c2.row = c.row
  BY <1>1, <1>2, <1>5, BecomesFields
<1>7. DOMAIN calls' = DOMAIN calls /\ \A j \in DOMAIN calls : j # i => calls'[j] = calls[j]
  BY <1>2 DEF Becomes
<1>8. Others(id) = {r \in rows : r.id # id}
  BY DEF Others
<1> SUFFICES ASSUME NEW k \in Kind, ~stale[k]
             PROVE  Fresh(calls', rows', view[k], k, ShownDays)
  BY DEF AllFresh
<1>9. Fresh(calls, rows, view[k], k, ShownDays) /\ ListOK(view[k], k)
  BY DEF AllFresh, WellTyped, ViewOK
<1>10. CASE c.kind # k
  <2>1. \A r : KindOf(r.id) = k => (r \in rows <=> r \in rows')
    BY <1>2, <1>4, <1>8, <1>10
  <2>2. \A j \in CallsOf(calls, k) : CallOK(calls[j])
          /\ calls[j].op \in {"list", "create", "update", "delete", "stop"}
    BY <1>1, CallAt, CallFields DEF CallsOf
  <2>3. Fresh(calls, rows', view[k], k, ShownDays)
    BY <1>9, <2>1, <2>2, OtherRows
  <2> QED
    BY <1>1, <1>2, <1>5, <1>10, <2>3, OthersServed
<1>11. CASE c.kind = k
  <2> DEFINE v == view[k]
             A == CallsOf(calls, k)
  <2>1. i \in A /\ CallsOf(calls', k) = A /\ A \subseteq DOMAIN calls
    BY <1>6, <1>7, <1>11 DEF CallsOf
  <2>2. ~HasList(calls, k)
    <3> SUFFICES ASSUME HasList(calls, k) PROVE FALSE
      OBVIOUS
    <3>1. PICK j \in A : calls[j].op = "list"
      BY DEF HasList
    <3>2. Listing(calls, rows, k, ShownDays)
      BY <1>9 DEF Fresh
    <3>3. j = i
      BY <2>1, <3>2 DEF Listing
    <3> QED
      BY <1>2, <3>1, <3>3
  <2>3. ~HasList(calls', k)
    BY <1>2, <1>6, <1>7, <2>1, <2>2 DEF HasList
  <2>4. Settling(calls, rows, v, k, ShownDays)
    BY <1>9, <2>2 DEF Fresh
  <2>5. Subject(c2) = {id} /\ (c.op \in {"update", "delete"} => Subject(c) = {id})
    BY <1>2, <1>3, <1>6 DEF Subject
  <2>6. c.op \in {"create", "stop"} => id \notin IdsIn(v)
    <3>1. Viewed(k) \subseteq Known
      BY DEF Known
    <3> QED
      BY <1>2, <3>1, ViewedOf
  <2>7. c.op = "update" => id \in IdsIn(v)
    BY <1>2, <2>1, <2>4 DEF Settling, Answered
  <2> HIDE DEF A, c, c2, v
  <2>8. \A j \in A : j # i => id \notin Subject(calls[j])
    <3> SUFFICES ASSUME NEW j \in A, j # i PROVE id \notin Subject(calls[j])
      OBVIOUS
    <3>1. CASE c.op \in {"create", "stop"}
      <4>1. Subject(calls[j]) \subseteq Known
        BY <1>1, <2>1, SubjectKnown
      <4> QED
        BY <1>2, <3>1, <4>1
    <3>2. CASE c.op \in {"update", "delete"}
      <4>1. Subject(calls[i]) \cap Subject(calls[j]) = {}
        BY <2>1, <2>4 DEF Settling, Apart, A
      <4> QED
        BY <2>5, <3>2, <4>1 DEF c
    <3> QED
      BY <1>3, <3>1, <3>2
  <2>9. Apart(calls', k)
    <3>1. \A h, j \in A : h # j => Subject(calls[h]) \cap Subject(calls[j]) = {}
      BY <2>4 DEF Settling, Apart, A
    <3>2. \A j \in A : j # i => Subject(calls'[j]) = Subject(calls[j])
      BY <1>7, <2>1
    <3>3. Subject(calls'[i]) = {id}
      BY <2>5 DEF c2
    <3>4. \A h, j \in A : h # j => Subject(calls'[h]) \cap Subject(calls'[j]) = {}
      BY <2>8, <3>1, <3>2, <3>3
    <3> QED
      BY <2>1, <3>4 DEF Apart
  <2>10. \A x \in Blocks \cup Entries : x \in Moving(calls, k) \/ x = id => x \in Moving(calls', k)
    <3>1. Moving(calls, k) = {x \in Blocks \cup Entries :
                                \E j \in A : calls[j].stage = "ok" /\ x \in Subject(calls[j])}
      BY DEF Moving, A
    <3>2. Moving(calls', k) = {x \in Blocks \cup Entries :
                                 \E j \in A : calls'[j].stage = "ok" /\ x \in Subject(calls'[j])}
      BY <2>1 DEF Moving
    <3>3. c.stage = "sent"
      BY DEF ServedWrite, c
    <3>4. \A j \in A : calls[j].stage = "ok" => j # i
      BY <3>3 DEF c
    <3> QED
      BY <1>6, <1>7, <2>1, <2>5, <3>1, <3>2, <3>4 DEF c2
  <2>11. \A x \in Blocks \cup Entries : x \notin Moving(calls', k) => x \notin Moving(calls, k) /\ x # id
    BY <2>10
  <2>12. \A r : r.id # id => (r \in rows <=> r \in rows')
    BY <1>2, <1>8
  <2>13. SettledView(calls', rows', v, k)
    <3>1. \A j \in DOMAIN v : v[j].id \in Blocks \cup Entries
      BY <1>9, Kinds DEF ListOK, v
    <3>2. \A j \in DOMAIN v : v[j].id \notin Moving(calls, k) => v[j] \in rows
      BY <2>4 DEF Settling, SettledView
    <3> QED
      BY <2>11, <2>12, <3>1, <3>2 DEF SettledView
  <2>14. SettledRows(calls', rows', v, k, ShownDays)
    <3>1. \A r \in Expected(rows, k, ShownDays) : r.id \notin Moving(calls, k) => \E j \in DOMAIN v : v[j] = r
      BY <2>4 DEF Settling, SettledRows
    <3>2. \A r \in Expected(rows', k, ShownDays) : r.id \in Blocks \cup Entries
      <4>1. \A r \in rows' : r.id \in Blocks \cup Entries
        BY <1>1, <1>2, <1>4, <1>8 DEF RowsOK
      <4> QED
        BY <4>1 DEF Expected
    <3>3. \A r \in Expected(rows', k, ShownDays) : r.id # id => r \in Expected(rows, k, ShownDays)
      BY <2>12 DEF Expected
    <3> QED
      BY <2>11, <3>1, <3>2, <3>3 DEF SettledRows
  <2>15. ASSUME NEW j \in A, j # i PROVE Answered(calls[j], rows', v)
    <3> DEFINE d == calls[j]
    <3>1. CallOK(d) /\ d \in CallType
      BY <1>1, <2>1, CallAt
    <3>2. Answered(d, rows, v)
      BY <2>4 DEF Settling, A
    <3>3. id \notin Subject(d)
      BY <2>8, <2>15
    <3>4. d.op # "list"
      BY <2>2 DEF HasList, A
    <3> HIDE DEF d
    <3>5. d.stage = "ok" /\ d.op # "delete" => d.answer \subseteq rows'
      <4>1. \A r \in d.answer : r.id \in Subject(d)
        BY <3>1 DEF CallOK, Subject
      <4> QED
        BY <2>12, <3>2, <3>3, <4>1 DEF Answered
    <3>6. d.stage = "ok" /\ d.op = "delete" => \A r \in rows' : r.id # d.row.id
      <4>1. d.op = "delete" => id # d.row.id
        BY <3>3 DEF Subject
      <4>2. \A r \in rows' : r \in rows \/ r.id = id
        BY <1>2, <1>8
      <4> QED
        BY <3>2, <4>1, <4>2 DEF Answered
    <3> QED
      BY <3>2, <3>5, <3>6 DEF Answered, d
  <2>16. Answered(c2, rows', v)
    <3>1. c.op # "delete" => new \in rows'
      BY <1>2
    <3>2. c.op = "delete" => \A r \in rows' : r.id # id
      BY <1>2, <1>8
    <3>3. c.op \in {"create", "stop"} => Subject(c2) \cap IdsIn(v) = {}
      BY <2>5, <2>6
    <3>4. c.op \in {"update", "delete"} => c.row.id = id
      BY <1>2
    <3> QED
      BY <1>6, <2>7, <3>1, <3>2, <3>3, <3>4 DEF Answered
  <2>17. \A j \in A : Answered(calls'[j], rows', v)
    BY <1>7, <2>1, <2>15, <2>16 DEF c2
  <2>18. Once(v)
    BY <2>4 DEF Settling
  <2>19. Settling(calls', rows', v, k, ShownDays)
    BY <2>1, <2>9, <2>13, <2>14, <2>17, <2>18 DEF Settling
  <2> QED
    BY <2>3, <2>19 DEF Fresh, v
<1> QED
  BY <1>10, <1>11

\* When a request is answered, those of the other kind are left.
LEMMA OthersLeft ==
  ASSUME CallsOK, NEW i \in DOMAIN calls, Gone(i), NEW k, calls[i].kind # k,
         NEW rs, NEW v, NEW days, Fresh(calls, rs, v, k, days)
  PROVE  Fresh(calls', rs, v, k, days)
<1> DEFINE n == Len(calls)
           m == [j \in 1..(n - 1) |-> Place(i, j)]
<1>1. n \in Nat /\ i \in 1..n /\ DOMAIN calls = 1..n
  BY LenProperties DEF CallsOK
<1>2. /\ DOMAIN calls' = 1..(n - 1)
      /\ \A j \in 1..(n - 1) : Place(i, j) \in DOMAIN calls /\ calls'[j] = calls[Place(i, j)]
  BY DEF Gone
<1>3. \A j \in 1..(n - 1) : m[j] = Place(i, j)
  OBVIOUS
<1> HIDE DEF n, m
<1>4. /\ \A j, h \in 1..(n - 1) : Place(i, j) = Place(i, h) => j = h
      /\ \A h \in 1..n : h # i => \E j \in 1..(n - 1) : Place(i, j) = h
  BY <1>1, PlaceIs
<1>5. CallsOf(calls', k) \subseteq 1..(n - 1)
      /\ \A j \in CallsOf(calls', k) : m[j] \in CallsOf(calls, k) /\ calls'[j] = calls[m[j]]
  BY <1>2, <1>3 DEF CallsOf
<1>6. \A j, h \in CallsOf(calls', k) : m[j] = m[h] => j = h
  BY <1>3, <1>4, <1>5
<1>7. ASSUME NEW h \in CallsOf(calls, k) PROVE \E j \in CallsOf(calls', k) : m[j] = h
  <2>1. h # i /\ h \in 1..n /\ calls[h].kind = k
    BY <1>1 DEF CallsOf
  <2>2. PICK j \in 1..(n - 1) : Place(i, j) = h
    BY <1>4, <2>1
  <2>3. j \in CallsOf(calls', k)
    BY <1>2, <2>1, <2>2 DEF CallsOf
  <2> QED
    BY <1>3, <2>2, <2>3
<1> QED
  BY <1>5, <1>6, <1>7, Renamed

\* What an answer other than a list makes of the store: only the row it is
\* about is put, changed or taken away.
OnlyOf(w, v, x) ==
  /\ Once(w)
  /\ \A j \in DOMAIN w : w[j].id = x => w[j] \in rows
  /\ \A j \in DOMAIN w : w[j].id # x => \E h \in DOMAIN v : v[h] = w[j]
  /\ \A h \in DOMAIN v : v[h].id # x => \E j \in DOMAIN w : w[j] = v[h]
  /\ \A r \in rows : r.id = x => \E j \in DOMAIN w : w[j] = r

LEMMA MergedOnly ==
  ASSUME RowsOK, NEW c \in CallType, CallOK(c), c.stage = "ok", c.op # "list",
         NEW v, ListOK(v, c.kind), Once(v), Answered(c, rows, v)
  PROVE  \E x : Subject(c) = {x} /\ OnlyOf(Merge(v, c), v, x)
<1> DEFINE w == Merge(v, c)
           new == TheAnswer(c)
<1>1. new \in c.answer /\ c.answer = {new}
  BY OneAnswer
<1>2. c.op \in {"create", "stop", "update", "delete"}
  BY CallFields
<1>3. \A r, q \in rows : r.id = q.id => r = q
  BY DEF RowsOK, Keyed
<1>4. \A i, j \in DOMAIN v : i # j => v[i].id # v[j].id
  BY DEF Once
<1>5. CASE c.op \in {"create", "stop"}
  <2> DEFINE p == NextPlace(v)
             x == new.id
  <2>1. p \notin DOMAIN v
    BY NextPlaceIs
  <2>2. DOMAIN w = DOMAIN v \cup {p} /\ w[p] = new /\ \A i \in DOMAIN v : w[i] = v[i]
    BY <1>5, <2>1, MergedNew
  <2>3. Subject(c) = {x}
    BY <1>1, <1>5 DEF Subject
  <2>4. new \in rows /\ Subject(c) \cap IdsIn(v) = {}
    BY <1>1, <1>5 DEF Answered
  <2>5. \A j \in DOMAIN v : v[j].id # x
    BY <2>3, <2>4 DEF IdsIn
  <2> HIDE DEF w, new, p
  <2>6. Once(w)
    BY <1>4, <2>1, <2>2, <2>5 DEF Once
  <2>7. OnlyOf(w, v, x)
    BY <1>3, <2>2, <2>4, <2>5, <2>6 DEF OnlyOf
  <2> QED
    BY <2>3, <2>7 DEF w
<1>6. CASE c.op = "update"
  <2> DEFINE x == c.row.id
  <2>1. DOMAIN w = DOMAIN v /\ \A i \in DOMAIN v : w[i] = IF v[i].id = x THEN new ELSE v[i]
    BY <1>6, MergedUpdate
  <2>2. Subject(c) = {x} /\ x \in IdsIn(v) /\ new \in rows /\ new.id = x
    BY <1>1, <1>6 DEF Subject, Answered, CallOK
  <2> HIDE DEF w, new, x
  <2>3. \A i \in DOMAIN v : w[i].id = v[i].id
    BY <2>1, <2>2
  <2>4. Once(w)
    BY <1>4, <2>1, <2>3 DEF Once
  <2>5. PICK h \in DOMAIN v : v[h].id = x
    BY <2>2 DEF IdsIn
  <2>6. w[h] = new /\ h \in DOMAIN w
    BY <2>1, <2>5
  <2>7. OnlyOf(w, v, x)
    BY <1>3, <2>1, <2>2, <2>3, <2>4, <2>6 DEF OnlyOf
  <2> QED
    BY <2>2, <2>7 DEF w
<1>7. CASE c.op = "delete"
  <2> DEFINE x == c.row.id
  <2>1. /\ \A j : j \in DOMAIN w <=> j \in DOMAIN v /\ v[j].id # x
        /\ \A i \in DOMAIN w : w[i] = v[i]
    BY <1>7, MergedDelete
  <2>2. Subject(c) = {x} /\ \A r \in rows : r.id # x
    BY <1>7 DEF Subject, Answered
  <2> HIDE DEF w, new, x
  <2>3. Once(w)
    BY <1>4, <2>1 DEF Once
  <2>4. OnlyOf(w, v, x)
    BY <2>1, <2>2, <2>3 DEF OnlyOf
  <2> QED
    BY <2>2, <2>4 DEF w
<1> QED
  BY <1>2, <1>5, <1>6, <1>7

\* The list of a kind arrived: it is what is expected, and nothing moves.
LEMMA ListArrived ==
  ASSUME RowsOK, NEW c \in CallType, CallOK(c), c.stage = "ok", c.op = "list",
         NEW k, NEW v, NEW days, c.answer = Expected(rows, k, days), CallsOf(calls', k) = {}
  PROVE  Fresh(calls', rows, Merge(v, c), k, days)
<1> DEFINE w == Merge(v, c)
<1>1. IsFiniteSet(c.answer) /\ Keyed(c.answer)
  BY DEF CallOK
<1>2. /\ Once(w) /\ \A i \in DOMAIN w : w[i] \in c.answer
      /\ \A x \in c.answer : \E i \in DOMAIN w : w[i] = x
  BY <1>1, MergedList
<1> HIDE DEF w
<1>3. ~HasList(calls', k) /\ Apart(calls', k)
  BY DEF HasList, Apart
<1>4. c.answer \subseteq rows
  BY DEF Expected
<1>5. SettledView(calls', rows, w, k)
  BY <1>2, <1>4 DEF SettledView
<1>6. SettledRows(calls', rows, w, k, days)
  BY <1>2 DEF SettledRows
<1>7. Settling(calls', rows, w, k, days)
  BY <1>2, <1>3, <1>5, <1>6 DEF Settling
<1> QED
  BY <1>3, <1>7 DEF Fresh, w

\* Another answer: what it was about is in order too.
LEMMA WriteArrived ==
  ASSUME CallsOK, NEW i \in DOMAIN calls, Gone(i), NEW k, calls[i].kind = k, NEW v, NEW w, NEW days,
         ~HasList(calls, k), Settling(calls, rows, v, k, days),
         NEW x, Subject(calls[i]) = {x}, OnlyOf(w, v, x), ListOK(w, k), k \in Kind,
         \A r \in rows : r.id \in Blocks \cup Entries
  PROVE  Fresh(calls', rows, w, k, days)
<1> DEFINE n == Len(calls)
           A == CallsOf(calls, k)
           B == CallsOf(calls', k)
<1>1. n \in Nat /\ i \in 1..n /\ DOMAIN calls = 1..n
  BY LenProperties DEF CallsOK
<1>2. /\ DOMAIN calls' = 1..(n - 1)
      /\ \A j \in 1..(n - 1) : Place(i, j) \in DOMAIN calls /\ Place(i, j) # i
                               /\ calls'[j] = calls[Place(i, j)]
  BY DEF Gone
<1>3. i \in A /\ A \subseteq 1..n /\ B \subseteq 1..(n - 1)
      /\ \A j \in B : Place(i, j) \in A /\ Place(i, j) # i /\ calls'[j] = calls[Place(i, j)]
  BY <1>1, <1>2 DEF CallsOf
<1> HIDE DEF n
<1>20. /\ \A j, h \in 1..(n - 1) : Place(i, j) = Place(i, h) => j = h
       /\ \A h \in 1..n : h # i => \E j \in 1..(n - 1) : Place(i, j) = h
  BY <1>1, PlaceIs
<1>4. ASSUME NEW h \in A, h # i PROVE \E j \in B : Place(i, j) = h
  <2>1. PICK j \in 1..(n - 1) : Place(i, j) = h
    BY <1>3, <1>4, <1>20
  <2>2. calls'[j].kind = k
    BY <1>2, <2>1 DEF CallsOf
  <2> QED
    BY <1>2, <2>1, <2>2 DEF CallsOf
<1>5. \A j, h \in B : Place(i, j) = Place(i, h) => j = h
  BY <1>3, <1>20
<1>6. ~HasList(calls', k)
  BY <1>3 DEF HasList
<1>7. \A h, j \in A : h # j => Subject(calls[h]) \cap Subject(calls[j]) = {}
  BY DEF Settling, Apart
<1>8. Apart(calls', k)
  <2>1. \A h, j \in B : h # j => Subject(calls'[h]) \cap Subject(calls'[j]) = {}
    BY <1>3, <1>5, <1>7
  <2> QED
    BY <2>1 DEF Apart
<1>9. Moving(calls, k) = {y \in Blocks \cup Entries :
                            \E j \in A : calls[j].stage = "ok" /\ y \in Subject(calls[j])}
  BY DEF Moving
<1>10. Moving(calls', k) = {y \in Blocks \cup Entries :
                              \E j \in B : calls'[j].stage = "ok" /\ y \in Subject(calls'[j])}
  BY DEF Moving
<1>11. \A j \in A : Answered(calls[j], rows, v)
  BY DEF Settling
<1>12. /\ \A j \in DOMAIN v : v[j].id \notin Moving(calls, k) => v[j] \in rows
       /\ \A r \in Expected(rows, k, days) : r.id \notin Moving(calls, k) => \E j \in DOMAIN v : v[j] = r
  BY DEF Settling, SettledView, SettledRows
<1> HIDE DEF A, B
<1>13. \A y \in Blocks \cup Entries : y \notin Moving(calls', k) /\ y # x => y \notin Moving(calls, k)
  <2> SUFFICES ASSUME NEW y \in Blocks \cup Entries, y # x, y \in Moving(calls, k)
               PROVE  y \in Moving(calls', k)
    OBVIOUS
  <2>1. PICK h \in A : calls[h].stage = "ok" /\ y \in Subject(calls[h])
    BY <1>9
  <2>2. h # i
    BY <2>1
  <2>3. PICK j \in B : Place(i, j) = h
    BY <1>4, <2>2
  <2> QED
    BY <1>3, <1>10, <2>1, <2>3
<1>14. /\ Once(w)
       /\ \A j \in DOMAIN w : w[j].id = x => w[j] \in rows
       /\ \A j \in DOMAIN w : w[j].id # x => \E h \in DOMAIN v : v[h] = w[j]
       /\ \A h \in DOMAIN v : v[h].id # x => \E j \in DOMAIN w : w[j] = v[h]
       /\ \A r \in rows : r.id = x => \E j \in DOMAIN w : w[j] = r
  BY DEF OnlyOf
<1>15. \A j \in DOMAIN w : w[j].id \in Blocks \cup Entries
  BY Kinds DEF ListOK
<1>16. SettledView(calls', rows, w, k)
  BY <1>12, <1>13, <1>14, <1>15 DEF SettledView
<1>17. SettledRows(calls', rows, w, k, days)
  <2> SUFFICES ASSUME NEW r \in Expected(rows, k, days), r.id \notin Moving(calls', k)
               PROVE  \E j \in DOMAIN w : w[j] = r
    BY DEF SettledRows
  <2>1. r \in rows /\ r.id \in Blocks \cup Entries
    BY DEF Expected
  <2>2. CASE r.id = x
    BY <1>14, <2>1, <2>2
  <2>3. CASE r.id # x
    <3>1. r.id \notin Moving(calls, k)
      BY <1>13, <2>1, <2>3
    <3>2. PICK h \in DOMAIN v : v[h] = r
      BY <1>12, <3>1
    <3> QED
      BY <1>14, <2>3, <3>2
  <2> QED
    BY <2>2, <2>3
<1>18. ASSUME NEW j \in B PROVE Answered(calls'[j], rows, w)
  <2> DEFINE d == calls'[j]
             h == Place(i, j)
  <2>1. h \in A /\ h # i /\ d = calls[h]
    BY <1>3
  <2> HIDE DEF d, h
  <2>2. Answered(d, rows, v)
    BY <1>11, <2>1
  <2>3. x \notin Subject(d)
    BY <1>3, <1>7, <2>1
  <2>4. d.op = "update" => d.row.id \in IdsIn(w)
    <3>1. d.op = "update" => d.row.id \in IdsIn(v) /\ d.row.id # x
      BY <2>2, <2>3 DEF Answered, Subject
    <3>2. \A y \in IdsIn(v) : y # x => y \in IdsIn(w)
      BY <1>14 DEF IdsIn
    <3> QED
      BY <3>1, <3>2
  <2>5. d.stage = "ok" /\ d.op \in {"create", "stop"} => Subject(d) \cap IdsIn(w) = {}
    <3>1. \A y \in IdsIn(w) : y # x => y \in IdsIn(v)
      BY <1>14 DEF IdsIn
    <3>2. d.stage = "ok" /\ d.op \in {"create", "stop"} => Subject(d) \cap IdsIn(v) = {}
      BY <2>2 DEF Answered
    <3> QED
      BY <2>3, <3>1, <3>2
  <2> QED
    BY <2>2, <2>4, <2>5 DEF Answered, d
<1>19. Settling(calls', rows, w, k, days)
  BY <1>8, <1>14, <1>16, <1>17, <1>18 DEF Settling, B
<1> QED
  BY <1>6, <1>19 DEF Fresh

LEMMA AnswerFresh ==
  ASSUME WellTyped, AllFresh, Answer
  PROVE  AllFresh'
<1>1. page' = page /\ day' = day /\ rows' = rows
  BY AnswerIs
<1>2. ShownDays' = ShownDays
  BY <1>1 DEF ShownDays
<1>3. PICK i \in DOMAIN calls : AnsweredAt(i)
  BY AnswerIs
<1> DEFINE c == calls[i]
<1>4. /\ CallsOK /\ RowsOK /\ c \in CallType /\ CallOK(c) /\ c.kind \in Kind
      /\ DOMAIN view = Kind /\ stale \in [Kind -> BOOLEAN]
  BY CallAt, CallFields DEF WellTyped, ViewOK, CountsOK
<1>5. Gone(i) /\ (Succeeded(c) \/ LostOrRefused(c))
  BY <1>3 DEF AnsweredAt
<1> HIDE DEF c
<1>6. view' = view \/ view' = [view EXCEPT ![c.kind] = Merge(view[c.kind], c)]
  BY <1>5 DEF Succeeded, LostOrRefused
<1> SUFFICES ASSUME NEW k \in Kind, ~stale'[k]
             PROVE  Fresh(calls', rows, view'[k], k, ShownDays)
  BY <1>1, <1>2 DEF AllFresh
<1>7. ~stale[k] /\ (c.kind = k => Succeeded(c))
  BY <1>4, <1>5 DEF Succeeded, LostOrRefused
<1> DEFINE v == view[k]
<1>8. Fresh(calls, rows, v, k, ShownDays) /\ ListOK(v, k)
  BY <1>7 DEF AllFresh, WellTyped, ViewOK
<1>9. CASE c.kind # k
  <2>1. view'[k] = v
    BY <1>4, <1>6, <1>9
  <2>2. Fresh(calls', rows, v, k, ShownDays)
    BY <1>4, <1>5, <1>8, <1>9, OthersLeft DEF c
  <2> QED
    BY <2>1, <2>2
<1>10. CASE c.kind = k
  <2> DEFINE w == Merge(v, c)
  <2>1. c.stage = "ok" /\ view'[k] = w
    BY <1>4, <1>7, <1>10 DEF Succeeded
  <2>2. i \in CallsOf(calls, k)
    BY <1>10 DEF CallsOf, c
  <2>3. CASE c.op = "list"
    <3>1. Listing(calls, rows, k, ShownDays)
      BY <1>8, <2>2, <2>3 DEF Fresh, HasList, c
    <3>2. \A j \in CallsOf(calls, k) : j = i
      BY <2>2, <3>1 DEF Listing
    <3>3. c.answer = Expected(rows, k, ShownDays)
      BY <2>1, <2>2, <3>1 DEF Listing, c
    <3>4. CallsOf(calls', k) = {}
      <4>1. \A j \in DOMAIN calls' : calls'[j].kind # k
        BY <1>5, <3>2 DEF Gone, CallsOf
      <4> QED
        BY <4>1 DEF CallsOf
    <3>5. Fresh(calls', rows, w, k, ShownDays)
      BY <1>4, <2>1, <2>3, <3>3, <3>4, ListArrived
    <3> QED
      BY <2>1, <3>5
  <2>4. CASE c.op # "list"
    <3>1. ~HasList(calls, k)
      <4> SUFFICES ASSUME HasList(calls, k) PROVE FALSE
        OBVIOUS
      <4>1. PICK j \in CallsOf(calls, k) : calls[j].op = "list"
        BY DEF HasList
      <4>2. Listing(calls, rows, k, ShownDays)
        BY <1>8 DEF Fresh
      <4>3. j = i
        BY <2>2, <4>2 DEF Listing
      <4> QED
        BY <2>4, <4>1, <4>3 DEF c
    <3>2. Settling(calls, rows, v, k, ShownDays)
      BY <1>8, <3>1 DEF Fresh
    <3>3. Once(v) /\ Answered(c, rows, v)
      BY <2>2, <3>2 DEF Settling, c
    <3>4. PICK x : Subject(c) = {x} /\ OnlyOf(w, v, x)
      BY <1>4, <1>8, <1>10, <2>1, <2>4, <3>3, MergedOnly
    <3>5. ListOK(w, k)
      BY <1>4, <1>8, <1>10, <2>1, MergedType
    <3>6. \A r \in rows : r.id \in Blocks \cup Entries
      BY <1>4 DEF RowsOK
    <3> HIDE DEF v, w
    <3>7. Fresh(calls', rows, w, k, ShownDays)
      BY <1>4, <1>5, <1>10, <3>1, <3>2, <3>4, <3>5, <3>6, WriteArrived DEF c
    <3> QED
      BY <2>1, <3>7 DEF w
  <2> QED
    BY <2>3, <2>4
<1> QED
  BY <1>9, <1>10

LEMMA StepFresh ==
  ASSUME MidnightsClear, WellTyped, AllFresh, [Next]_vars
  PROVE  AllFresh'
<1>1. CASE UNCHANGED vars \/ Quiet
  <2>1. UNCHANGED <<page, day, rows, view, calls, stale>>
    BY <1>1 DEF vars, Quiet
  <2>2. ShownDays' = ShownDays
    BY <2>1 DEF ShownDays
  <2> QED
    BY <2>1, <2>2 DEF AllFresh
<1>2. CASE Serve
  <2>1. UNCHANGED <<page, day, view, stale>>
    BY <1>2, ServeIs
  <2>2. ShownDays' = ShownDays
    BY <2>1 DEF ShownDays
  <2>3. PICK i \in DOMAIN calls : ServedList(i) \/ \E id, new : ServedWrite(i, id, new)
    BY <1>2, ServeIs
  <2> QED
    BY <2>1, <2>2, <2>3, ListFresh, WriteFresh
<1> QED
  BY <1>1, <1>2, StepsAre, SendsFresh, FetchesFresh, AnswerFresh

LEMMA InitFresh == Init => AllFresh
<1> SUFFICES ASSUME Init PROVE AllFresh
  OBVIOUS
<1>1. PICK a, b \in Int, lb, le \in CallType :
           /\ ShownDays = a .. b
           /\ calls = <<lb, le>> /\ lb.kind = "block" /\ le.kind = "entry"
           /\ \A c \in {lb, le} : c.op = "list" /\ c.stage = "sent" /\ c.first = a /\ c.last = b
  BY FirstCalls
<1>2. DOMAIN calls = {1, 2} /\ calls[1] = lb /\ calls[2] = le
  BY <1>1
<1> SUFFICES ASSUME NEW k \in Kind PROVE Fresh(calls, rows, view[k], k, ShownDays)
  BY DEF AllFresh
<1> DEFINE p == IF k = "block" THEN 1 ELSE 2
           c == IF k = "block" THEN lb ELSE le
<1>3. k \in {"block", "entry"}
  BY DEF Kind
<1>4. CallsOf(calls, k) = {p}
  BY <1>1, <1>2, <1>3 DEF CallsOf
<1>5. calls[p] = c /\ c.op = "list" /\ c.stage = "sent" /\ c.first = a /\ c.last = b
  BY <1>1, <1>2, <1>3
<1> HIDE DEF p, c
<1>6. HasList(calls, k)
  BY <1>4, <1>5 DEF HasList
<1>7. Listing(calls, rows, k, ShownDays)
  BY <1>1, <1>4, <1>5 DEF Listing
<1> QED
  BY <1>6, <1>7 DEF Fresh

\* In a timezone whose midnights are clear of its transition, the page shows
\* every row of its days as it is in the table, once, when nothing is in
\* flight; unless since the last list a request failed, was about a row that
\* the store no longer held, or overlapped with one that its answer could undo
\* (useTimeBlockStore).
THEOREM PageShowsTables ==
  ASSUME MidnightsClear
  PROVE  Spec => []ViewTrue
<1>1. WellTyped /\ AllFresh /\ [Next]_vars => AllFresh'
  BY StepFresh
<1> QED
  BY <1>1, InitFresh, FreshShows, TypeInvariance, PTL DEF Spec
=============================================================================

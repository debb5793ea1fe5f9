----------------------------- MODULE Tour_proofs -----------------------------
(***************************************************************************)
(* For any users, zones, tours, numbers of requests, tokens, timers and    *)
(* troubles: the types of the shell, that a page shows only what belongs   *)
(* to the user who is signed in (ShownIsTheirs), and what may end a        *)
(* session (SessionEndsForCause).  The guides take no part in it: what     *)
(* they do to the shell is to change the page.                             *)
(***************************************************************************)
EXTENDS Tour, SequenceTheorems, FiniteSetTheorems, TLAPS

(***************************************************************************)
(* The inductive invariant.  Its parts are operators of the requests under *)
(* way, so that they can be carried from one list of requests to the next. *)
(***************************************************************************)
Logins == {"login", "register", "demo"}
Kinds == Logins \cup {"settings", "lists", "current", "start", "stop", "save"}
Tokens == {NoToken} \cup [of : Users, no : 1..MaxTokens]
TimerNos == 0..MaxTimers
AnswerType ==
  [token : Tokens, zone : Zones, configured : BOOLEAN, timer : TimerNos,
   entries : Seq(TimerNos)]
CallType ==
  [kind : Kinds, job : Nat, by : Tokens, token : Tokens, user : Users \cup {NoUser},
   zone : Zones, stage : {"sent", "ok", "failed", "refused"}, ret : AnswerType]
TimerType == [current : TimerNos, ticking : BOOLEAN, loading : BOOLEAN]
DialogType == [open : BOOLEAN, mode : {"manual", "existing"}, given : BOOLEAN]
LoginType ==
  [mode : {"login", "register"}, persona : BOOLEAN, busy : BOOLEAN, error : BOOLEAN]
DataType == [of : Users \cup {NoUser}, entries : Seq(TimerNos)]
SettingsType == [zone : Zones, configured : BOOLEAN]
ServerType ==
  [accounts : SUBSET Users, configured : SUBSET Users, zone : [Users -> Zones],
   running : [Users -> TimerNos], ended : [Users -> Seq(TimerNos)],
   issued : 0..MaxTokens, started : 0..MaxTimers, expired : SUBSET (1..MaxTokens)]

Typed ==
  /\ session \in Tokens /\ client = session
  /\ login \in LoginType
  /\ ready \in BOOLEAN /\ loading \in BOOLEAN
  /\ settings \in SettingsType
  /\ data \in DataType
  /\ timer \in TimerType /\ timer.ticking = (timer.current # 0)
  /\ dialog \in DialogType
  /\ calls \in Seq(CallType)
  /\ server \in ServerType /\ \A u \in Users : server.running[u] <= server.started
  /\ unsure \in BOOLEAN

\* A request has the token of the session that sent it, and one that needs
\* no session has none and names its user; a refused one had no token or one
\* that has expired.
Proper(c) ==
  /\ c.token = c.by
  /\ c.kind \in Logins => c.by = NoToken /\ (c.kind = "demo" \/ c.user \in Users)
Owned(cs, expired) ==
  \A i \in 1..Len(cs) :
    /\ Proper(cs[i])
    /\ cs[i].stage = "refused" => cs[i].by = NoToken \/ cs[i].by.no \in expired

\* Nobody signs in twice, or while somebody is signed in.
OneLogin(cs, s, busy, accounts) ==
  \A i \in 1..Len(cs) :
    cs[i].kind \in Logins =>
      /\ s = NoToken /\ busy
      /\ \A j \in 1..Len(cs) : j # i => cs[j].kind \notin Logins
      /\ cs[i].kind = "demo" /\ cs[i].stage = "sent" => Users \ accounts # {}

Mine(cs, s) == \A i \in 1..Len(cs) : cs[i].token = s

\* What has been read is still so, and only a start or a stop can fail.
StillTrue(cs, u, sv) ==
  \A i \in 1..Len(cs) :
    /\ cs[i].kind = "lists" /\ cs[i].stage = "ok" => cs[i].ret.entries = sv.ended[u]
    /\ cs[i].kind = "current" /\ cs[i].stage = "ok" => cs[i].ret.timer = sv.running[u]
    /\ cs[i].stage = "failed" => cs[i].kind \in Writes

\* The loading screen is shown until a request of this kind has come back.
Awaited(cs, kind, l) ==
  l /\ \A i \in 1..Len(cs) :
         cs[i].job # 0 =>
           \E j \in 1..Len(cs) : cs[j].job = cs[i].job /\ cs[j].kind \in {"settings", kind}

\* The rows are those of the user; only an answered stop is not among them.
RowsRight(cs, u, d, sv) ==
  /\ d.of = u
  /\ \A i \in 1..Len(cs) :
       cs[i].kind = "stop" /\ cs[i].stage = "ok" =>
         sv.ended[u] = Append(d.entries, cs[i].ret.timer)
  /\ (\A i \in 1..Len(cs) : ~(cs[i].kind = "stop" /\ cs[i].stage = "ok")) =>
       d.entries = sv.ended[u]

\* The timer is the one that runs, but for an answered start or stop.
ClockRight(cs, u, current, sv) ==
  /\ \A i \in 1..Len(cs) :
       /\ cs[i].kind = "start" /\ cs[i].stage = "ok" => sv.running[u] = cs[i].ret.timer
       /\ cs[i].kind = "stop" /\ cs[i].stage = "ok" => sv.running[u] = 0
  /\ (\A i \in 1..Len(cs) : ~(cs[i].kind \in Writes /\ cs[i].stage = "ok")) =>
       current = sv.running[u]

\* As long as somebody is signed in and nothing has gone wrong:
Theirs(cs, s, d, current, sv, l) ==
  /\ Mine(cs, s)
  /\ StillTrue(cs, s.of, sv)
  /\ Awaited(cs, "lists", l) \/ RowsRight(cs, s.of, d, sv)
  /\ Awaited(cs, "current", l) \/ ClockRight(cs, s.of, current, sv)

IInv ==
  /\ Typed
  /\ Owned(calls, server.expired)
  /\ OneLogin(calls, session, login.busy, server.accounts)
  /\ ~unsure => ~Clashing(calls)
  /\ session # NoToken /\ ~unsure =>
       Theirs(calls, session, data, timer.current, server, loading)

-----------------------------------------------------------------------------
(***************************************************************************)
(* The lists of requests.                                                  *)
(***************************************************************************)
\* The list without its i-th element.
LEMMA Removed ==
  ASSUME NEW S, NEW s \in Seq(S), NEW i \in 1..Len(s)
  PROVE  /\ RemoveAt(s, i) \in Seq(S)
         /\ Len(RemoveAt(s, i)) = Len(s) - 1
         /\ \A j \in 1..(Len(s) - 1) :
              RemoveAt(s, i)[j] = IF j < i THEN s[j] ELSE s[j + 1]
<1> DEFINE a == SubSeq(s, 1, i - 1)
           b == SubSeq(s, i + 1, Len(s))
<1>1. Len(s) \in Nat /\ \A j \in 1..Len(s) : s[j] \in S
  BY LenProperties, ElementOfSeq
<1>2. /\ a \in Seq(S) /\ Len(a) = i - 1
      /\ \A j \in 1..(i - 1) : a[j] = s[j]
  <2>1. \A j \in 1..(i - 1) : s[j] \in S
    BY <1>1
  <2> QED
    BY <2>1, <1>1, SubSeqProperties
<1>3. /\ b \in Seq(S) /\ Len(b) = Len(s) - i
      /\ \A j \in 1..(Len(s) - i) : b[j] = s[i + j]
  <2>1. \A j \in (i + 1)..Len(s) : s[j] \in S
    BY <1>1
  <2> QED
    BY <2>1, <1>1, SubSeqProperties
<1> HIDE DEF a, b
<1>4. /\ a \o b \in Seq(S) /\ Len(a \o b) = Len(a) + Len(b)
      /\ \A j \in 1..(Len(a) + Len(b)) :
           (a \o b)[j] = IF j <= Len(a) THEN a[j] ELSE b[j - Len(a)]
  BY <1>2, <1>3, ConcatProperties
<1>5. RemoveAt(s, i) = a \o b
  BY DEF RemoveAt, a, b
<1>6. ASSUME NEW j \in 1..(Len(s) - 1)
      PROVE  (a \o b)[j] = IF j < i THEN s[j] ELSE s[j + 1]
  <2>1. (a \o b)[j] = IF j <= i - 1 THEN a[j] ELSE b[j - (i - 1)]
    BY <1>1, <1>2, <1>3, <1>4
  <2>2. CASE j < i
    BY <2>1, <2>2, <1>1, <1>2
  <2>3. CASE ~(j < i)
    <3>1. j - (i - 1) \in 1..(Len(s) - i) /\ i + (j - (i - 1)) = j + 1 /\ ~(j <= i - 1)
      BY <2>3, <1>1
    <3> QED
      BY <2>1, <2>3, <3>1, <1>3
  <2> QED
    BY <2>2, <2>3
<1> QED
  BY <1>1, <1>2, <1>3, <1>4, <1>5, <1>6

\* An element is still there unless it was the i-th, and no other comes.
LEMMA RemovedElements ==
  ASSUME NEW S, NEW s \in Seq(S), NEW i \in 1..Len(s)
  PROVE  /\ \A k \in 1..Len(RemoveAt(s, i)) :
              \E j \in 1..Len(s) : j # i /\ RemoveAt(s, i)[k] = s[j]
         /\ \A j \in 1..Len(s) :
              j # i => \E k \in 1..Len(RemoveAt(s, i)) : RemoveAt(s, i)[k] = s[j]
<1> DEFINE r == RemoveAt(s, i)
           n == Len(s)
<1>1. n \in Nat /\ i \in 1..n
  BY LenProperties
<1>2. /\ Len(r) = n - 1
      /\ \A j \in 1..(n - 1) : r[j] = IF j < i THEN s[j] ELSE s[j + 1]
  BY Removed
<1> SUFFICES /\ \A k \in 1..Len(r) : \E j \in 1..n : j # i /\ r[k] = s[j]
             /\ \A j \in 1..n : j # i => \E k \in 1..Len(r) : r[k] = s[j]
  OBVIOUS
<1> HIDE DEF r, n
<1>3. ASSUME NEW k \in 1..(n - 1)
      PROVE  \E j \in 1..n : j # i /\ r[k] = s[j]
  <2>1. CASE k < i
    BY <1>1, <1>2, <2>1
  <2>2. CASE ~(k < i)
    <3>1. k + 1 \in 1..n /\ k + 1 # i /\ r[k] = s[k + 1]
      BY <1>1, <1>2, <2>2
    <3> QED
      BY <3>1
  <2> QED
    BY <2>1, <2>2
<1>4. ASSUME NEW j \in 1..n, j # i
      PROVE  \E k \in 1..(n - 1) : r[k] = s[j]
  <2>1. CASE j < i
    BY <1>1, <1>2, <2>1
  <2>2. CASE j > i
    <3>1. j - 1 \in 1..(n - 1) /\ ~(j - 1 < i) /\ (j - 1) + 1 = j
      BY <1>1, <2>2
    <3>2. r[j - 1] = s[j]
      BY <1>2, <3>1
    <3> QED
      BY <3>1, <3>2
  <2> QED
    BY <1>1, <1>4, <2>1, <2>2
<1> QED
  BY <1>2, <1>3, <1>4

LEMMA Appended ==
  ASSUME NEW S, NEW s \in Seq(S), NEW e \in S
  PROVE  /\ Append(s, e) \in Seq(S)
         /\ Len(Append(s, e)) = Len(s) + 1
         /\ Len(s) \in Nat
         /\ \A k \in 1..Len(s) : Append(s, e)[k] = s[k]
         /\ Append(s, e)[Len(s) + 1] = e
         /\ \A k \in 1..Len(Append(s, e)) :
              k \in 1..Len(s) \/ (k = Len(s) + 1 /\ Append(s, e)[k] = e)
<1>1. /\ Append(s, e) \in Seq(S) /\ Len(Append(s, e)) = Len(s) + 1
      /\ \A k \in 1..Len(s) : Append(s, e)[k] = s[k]
      /\ Append(s, e)[Len(s) + 1] = e
  BY AppendProperties
<1>2. Len(s) \in Nat
  BY LenProperties
<1> QED
  BY <1>1, <1>2

LEMMA FirstNumbers ==
  ASSUME NEW n \in Nat
  PROVE  IsFiniteSet(1..n) /\ Cardinality(1..n) = n
<1>1. IsFiniteSet(1..n)
  BY FS_Interval
<1>2. n \in Int /\ 1 \in Int
  OBVIOUS
<1>3. Cardinality(1..n) = IF 1 > n THEN 0 ELSE n - 1 + 1
  BY <1>2, FS_Interval, SMTT(30)
<1> QED
  BY <1>1, <1>3

(* A job nobody has: there are fewer requests than numbers to choose from.  *)
LEMMA FreshJobIsNumber ==
  ASSUME NEW cs \in Seq(CallType)
  PROVE  FreshJob(cs) \in Nat
<1> DEFINE n == Len(cs)
           Has(j) == \E i \in 1..n : cs[i].job = j
<1>1. n \in Nat
  BY LenProperties
<1>2. \E j \in 1..(n + 1) : \A i \in 1..n : cs[i].job # j
  <2> SUFFICES ASSUME \A j \in 1..(n + 1) : \E i \in 1..n : cs[i].job = j
               PROVE  FALSE
    OBVIOUS
  <2> DEFINE f == [j \in 1..(n + 1) |-> CHOOSE i \in 1..n : cs[i].job = j]
  <2>1. ASSUME NEW j \in 1..(n + 1)
        PROVE  f[j] \in 1..n /\ cs[f[j]].job = j
    <3>1. \E i \in 1..n : cs[i].job = j
      OBVIOUS
    <3>2. f[j] = CHOOSE i \in 1..n : cs[i].job = j
      OBVIOUS
    <3> QED
      BY <3>1, <3>2
  <2>2. f \in [1..(n + 1) -> 1..n]
    <3>1. f = [j \in 1..(n + 1) |-> f[j]]
      OBVIOUS
    <3> HIDE DEF f
    <3> QED
      BY <3>1, <2>1
  <2> HIDE DEF f
  <2>3. /\ IsFiniteSet(1..n) /\ Cardinality(1..n) = n
        /\ IsFiniteSet(1..(n + 1)) /\ Cardinality(1..(n + 1)) = n + 1
    <3>1. n + 1 \in Nat
      BY <1>1
    <3> HIDE DEF n
    <3> QED
      BY <1>1, <3>1, FirstNumbers
  <2>4. Cardinality(1..n) < Cardinality(1..(n + 1))
    BY <1>1, <2>3
  <2> DEFINE S == 1..(n + 1)
             T == 1..n
  <2> HIDE DEF n, S, T
  <2>5. \E x, y \in S : x # y /\ f[x] = f[y]
    <3>1. /\ IsFiniteSet(S) /\ IsFiniteSet(T) /\ Cardinality(T) < Cardinality(S)
          /\ f \in [S -> T]
      BY <2>2, <2>3, <2>4 DEF S, T
    <3> QED
      BY <3>1, FS_PigeonHole
  <2> QED
    BY <2>1, <2>5 DEF S
<1>3. FreshJob(cs) \in 1..(n + 1)
  BY <1>2 DEF FreshJob
<1> QED
  BY <1>1, <1>3

(* A request that is added to those under way.                              *)
LEMMA OneMore ==
  ASSUME NEW cs \in Seq(CallType), NEW c \in CallType, c.stage = "sent"
  PROVE  /\ \A x : Owned(cs, x) /\ Proper(c) => Owned(Append(cs, c), x)
         /\ \A s, b, a : OneLogin(cs, s, b, a) /\ c.kind \notin Logins
                           => OneLogin(Append(cs, c), s, b, a)
         /\ \A s : Mine(cs, s) /\ c.token = s => Mine(Append(cs, c), s)
         /\ \A u, sv : StillTrue(cs, u, sv) => StillTrue(Append(cs, c), u, sv)
         /\ \A k, l : Awaited(cs, k, l) /\ (c.job = 0 \/ c.kind \in {"settings", k})
                        => Awaited(Append(cs, c), k, l)
         /\ \A u, d, sv : RowsRight(cs, u, d, sv) => RowsRight(Append(cs, c), u, d, sv)
         /\ \A u, t, sv : ClockRight(cs, u, t, sv) => ClockRight(Append(cs, c), u, t, sv)
<1> DEFINE ds == Append(cs, c)
           n == Len(cs)
<1>1. /\ n \in Nat /\ Len(ds) = n + 1
      /\ \A k \in 1..n : k \in 1..Len(ds) /\ ds[k] = cs[k]
      /\ n + 1 \in 1..Len(ds) /\ ds[n + 1] = c
      /\ \A k \in 1..Len(ds) : k \in 1..n \/ k = n + 1
  BY Appended
<1> HIDE DEF ds, n
<1>2. ASSUME NEW x, Owned(cs, x), Proper(c)
      PROVE  Owned(ds, x)
  BY <1>1, <1>2 DEF Owned, n
<1>3. ASSUME NEW s, NEW b, NEW a, OneLogin(cs, s, b, a), c.kind \notin Logins
      PROVE  OneLogin(ds, s, b, a)
  BY <1>1, <1>3 DEF OneLogin, n
<1>4. ASSUME NEW s, Mine(cs, s), c.token = s
      PROVE  Mine(ds, s)
  BY <1>1, <1>4 DEF Mine, n
<1>5. ASSUME NEW u, NEW sv, StillTrue(cs, u, sv)
      PROVE  StillTrue(ds, u, sv)
  BY <1>1, <1>5 DEF StillTrue, n
<1>6. ASSUME NEW k, NEW l, Awaited(cs, k, l), c.job = 0 \/ c.kind \in {"settings", k}
      PROVE  Awaited(ds, k, l)
  BY <1>1, <1>6 DEF Awaited, n
<1>7. ASSUME NEW u, NEW d, NEW sv, RowsRight(cs, u, d, sv)
      PROVE  RowsRight(ds, u, d, sv)
  BY <1>1, <1>7 DEF RowsRight, n
<1>8. ASSUME NEW u, NEW t, NEW sv, ClockRight(cs, u, t, sv)
      PROVE  ClockRight(ds, u, t, sv)
  BY <1>1, <1>8 DEF ClockRight, n
<1> QED
  BY <1>2, <1>3, <1>4, <1>5, <1>6, <1>7, <1>8 DEF ds

(* A request that has been answered and is taken from the list.             *)
LEMMA OneLess ==
  ASSUME NEW cs \in Seq(CallType), NEW i \in 1..Len(cs)
  PROVE  /\ \A x : Owned(cs, x) => Owned(RemoveAt(cs, i), x)
         /\ \A s, b, a : OneLogin(cs, s, b, a) => OneLogin(RemoveAt(cs, i), s, b, a)
         /\ \A s : Mine(cs, s) => Mine(RemoveAt(cs, i), s)
         /\ \A u, sv : StillTrue(cs, u, sv) => StillTrue(RemoveAt(cs, i), u, sv)
         /\ \A k, l : Awaited(cs, k, l) /\ cs[i].kind \notin {"settings", k}
                        => Awaited(RemoveAt(cs, i), k, l)
         /\ \A u, d, sv : RowsRight(cs, u, d, sv) /\ ~(cs[i].kind = "stop" /\ cs[i].stage = "ok")
                            => RowsRight(RemoveAt(cs, i), u, d, sv)
         /\ \A u, t, sv : ClockRight(cs, u, t, sv) /\ ~(cs[i].kind \in Writes /\ cs[i].stage = "ok")
                            => ClockRight(RemoveAt(cs, i), u, t, sv)
<1> DEFINE ds == RemoveAt(cs, i)
           n == Len(cs)
<1>1. /\ \A k \in 1..Len(ds) : \E j \in 1..n : j # i /\ ds[k] = cs[j]
      /\ \A j \in 1..n : j # i => \E k \in 1..Len(ds) : ds[k] = cs[j]
  BY RemovedElements
<1>2. /\ n \in Nat /\ i \in 1..n /\ Len(ds) = n - 1
      /\ \A j \in 1..(n - 1) : ds[j] = IF j < i THEN cs[j] ELSE cs[j + 1]
  BY Removed, LenProperties
<1> HIDE DEF ds, n
<1>3. ASSUME NEW x, Owned(cs, x)
      PROVE  Owned(ds, x)
  <2> SUFFICES ASSUME NEW k \in 1..Len(ds)
               PROVE  /\ Proper(ds[k])
                      /\ ds[k].stage = "refused" => ds[k].by = NoToken \/ ds[k].by.no \in x
    BY DEF Owned
  <2>1. PICK j \in 1..n : j # i /\ ds[k] = cs[j]
    BY <1>1
  <2> QED
    BY <2>1, <1>3 DEF Owned, n
<1>4. ASSUME NEW s, NEW b, NEW a, OneLogin(cs, s, b, a)
      PROVE  OneLogin(ds, s, b, a)
  <2> SUFFICES ASSUME NEW k \in 1..Len(ds), ds[k].kind \in Logins
               PROVE  /\ s = NoToken /\ b
                      /\ \A j \in 1..Len(ds) : j # k => ds[j].kind \notin Logins
                      /\ ds[k].kind = "demo" /\ ds[k].stage = "sent" => Users \ a # {}
    BY DEF OneLogin
  <2> DEFINE Old(j) == IF j < i THEN j ELSE j + 1
  <2>1. \A j \in 1..Len(ds) : Old(j) \in 1..n /\ ds[j] = cs[Old(j)]
    BY <1>2
  <2>2. \A j \in 1..Len(ds) : j # k => Old(j) # Old(k)
    BY <1>2
  <2> HIDE DEF Old
  <2> QED
    BY <2>1, <2>2, <1>4 DEF OneLogin, n
<1>5. ASSUME NEW s, Mine(cs, s)
      PROVE  Mine(ds, s)
  <2> SUFFICES ASSUME NEW k \in 1..Len(ds) PROVE ds[k].token = s
    BY DEF Mine
  <2>1. PICK j \in 1..n : ds[k] = cs[j]
    BY <1>1
  <2> QED
    BY <2>1, <1>5 DEF Mine, n
<1>6. ASSUME NEW u, NEW sv, StillTrue(cs, u, sv)
      PROVE  StillTrue(ds, u, sv)
  <2> SUFFICES ASSUME NEW k \in 1..Len(ds)
               PROVE  /\ ds[k].kind = "lists" /\ ds[k].stage = "ok" =>
                           ds[k].ret.entries = sv.ended[u]
                      /\ ds[k].kind = "current" /\ ds[k].stage = "ok" =>
                           ds[k].ret.timer = sv.running[u]
                      /\ ds[k].stage = "failed" => ds[k].kind \in Writes
    BY DEF StillTrue
  <2>1. PICK j \in 1..n : ds[k] = cs[j]
    BY <1>1
  <2> QED
    BY <2>1, <1>6 DEF StillTrue, n
<1>7. ASSUME NEW k, NEW l, Awaited(cs, k, l), cs[i].kind \notin {"settings", k}
      PROVE  Awaited(ds, k, l)
  <2> SUFFICES ASSUME NEW h \in 1..Len(ds), ds[h].job # 0
               PROVE  \E g \in 1..Len(ds) :
                        ds[g].job = ds[h].job /\ ds[g].kind \in {"settings", k}
    BY <1>7 DEF Awaited
  <2>1. PICK j \in 1..n : j # i /\ ds[h] = cs[j]
    BY <1>1
  <2>2. PICK m \in 1..n : cs[m].job = cs[j].job /\ cs[m].kind \in {"settings", k}
    BY <2>1, <1>7 DEF Awaited, n
  <2>3. m # i
    BY <2>2, <1>7
  <2> QED
    BY <2>1, <2>2, <2>3, <1>1
<1>8. ASSUME NEW u, NEW d, NEW sv, RowsRight(cs, u, d, sv),
             ~(cs[i].kind = "stop" /\ cs[i].stage = "ok")
      PROVE  RowsRight(ds, u, d, sv)
  <2>1. \A j \in 1..Len(ds) : ds[j].kind = "stop" /\ ds[j].stage = "ok" =>
                                sv.ended[u] = Append(d.entries, ds[j].ret.timer)
    <3> TAKE j \in 1..Len(ds)
    <3>1. PICK h \in 1..n : h # i /\ ds[j] = cs[h]
      BY <1>1
    <3> QED
      BY <3>1, <1>8 DEF RowsRight, n
  <2>2. ASSUME \A j \in 1..Len(ds) : ~(ds[j].kind = "stop" /\ ds[j].stage = "ok"),
               NEW h \in 1..n
        PROVE  ~(cs[h].kind = "stop" /\ cs[h].stage = "ok")
    <3>1. CASE h = i
      BY <1>8, <3>1
    <3>2. CASE h # i
      <4>1. PICK j \in 1..Len(ds) : ds[j] = cs[h]
        BY <1>1, <3>2
      <4> QED
        BY <2>2, <4>1
    <3> QED
      BY <3>1, <3>2
  <2> QED
    BY <2>1, <2>2, <1>8 DEF RowsRight, n
<1>9. ASSUME NEW u, NEW t, NEW sv, ClockRight(cs, u, t, sv),
             ~(cs[i].kind \in Writes /\ cs[i].stage = "ok")
      PROVE  ClockRight(ds, u, t, sv)
  <2>1. \A j \in 1..Len(ds) :
          /\ ds[j].kind = "start" /\ ds[j].stage = "ok" => sv.running[u] = ds[j].ret.timer
          /\ ds[j].kind = "stop" /\ ds[j].stage = "ok" => sv.running[u] = 0
    <3> TAKE j \in 1..Len(ds)
    <3>1. PICK h \in 1..n : h # i /\ ds[j] = cs[h]
      BY <1>1
    <3> QED
      BY <3>1, <1>9 DEF ClockRight, n
  <2>2. ASSUME \A j \in 1..Len(ds) : ~(ds[j].kind \in Writes /\ ds[j].stage = "ok"),
               NEW h \in 1..n
        PROVE  ~(cs[h].kind \in Writes /\ cs[h].stage = "ok")
    <3>1. CASE h = i
      BY <1>9, <3>1
    <3>2. CASE h # i
      <4>1. PICK j \in 1..Len(ds) : ds[j] = cs[h]
        BY <1>1, <3>2
      <4> QED
        BY <2>2, <4>1
    <3> QED
      BY <3>1, <3>2
  <2> QED
    BY <2>1, <2>2, <1>9 DEF ClockRight, n
<1> QED
  BY <1>3, <1>4, <1>5, <1>6, <1>7, <1>8, <1>9 DEF ds

(* As long as the user is the same, a loading screen that comes back and a  *)
(* request that is added change nothing of what is theirs.                  *)
LEMMA StillTheirs ==
  ASSUME NEW cs \in Seq(CallType), NEW s, NEW d, NEW t, NEW sv, NEW l,
         Theirs(cs, s, d, t, sv, l)
  PROVE  /\ \A m : (l => m) => Theirs(cs, s, d, t, sv, m)
         /\ \A c \in CallType :
              c.stage = "sent" /\ c.token = s /\ (c.job = 0 \/ c.kind = "settings")
                => Theirs(Append(cs, c), s, d, t, sv, l)
         /\ \A i \in 1..Len(cs) :
              cs[i].kind \in Logins \cup {"save"} => Theirs(RemoveAt(cs, i), s, d, t, sv, l)
<1>1. ASSUME NEW m, l => m
      PROVE  Theirs(cs, s, d, t, sv, m)
  BY <1>1 DEF Theirs, Awaited
<1>2. ASSUME NEW c \in CallType, c.stage = "sent", c.token = s, c.job = 0 \/ c.kind = "settings"
      PROVE  Theirs(Append(cs, c), s, d, t, sv, l)
  BY <1>2, OneMore DEF Theirs
<1>3. ASSUME NEW i \in 1..Len(cs), cs[i].kind \in Logins \cup {"save"}
      PROVE  Theirs(RemoveAt(cs, i), s, d, t, sv, l)
  <2>1. cs[i].kind \notin {"settings", "lists", "current"} /\ cs[i].kind \notin Writes
    BY <1>3 DEF Logins, Writes
  <2>2. cs[i].kind # "stop"
    BY <1>3 DEF Logins
  <2> QED
    BY <2>1, <2>2, OneLess DEF Theirs
<1> QED
  BY <1>1, <1>2, <1>3

-----------------------------------------------------------------------------
(***************************************************************************)
(* The end of a step.                                                      *)
(***************************************************************************)
LEMMA NothingTyped == Nothing \in AnswerType /\ NoToken \in Tokens
<1>1. NoToken \in Tokens
  BY DEF Tokens
<1>2. 0 \in TimerNos
  BY BoundAssumption DEF TimerNos
<1>3. <<>> \in Seq(TimerNos)
  BY EmptySeq
<1> QED
  BY <1>1, <1>2, <1>3, ZoneAssumption DEF Nothing, AnswerType

Sent(c, k, j, s) ==
  /\ c \in CallType /\ c.kind = k /\ c.job = j
  /\ c.by = s /\ c.token = s /\ c.stage = "sent"

LEMMA NewCall ==
  ASSUME NEW k \in Kinds, NEW j \in Nat, NEW s \in Tokens
  PROVE  /\ Sent(Call(k, j, s, s), k, j, s)
         /\ \A u \in Users \cup {NoUser} :
              LET c == [Call(k, j, s, s) EXCEPT !.user = u] IN Sent(c, k, j, s) /\ c.user = u
         /\ \A z \in Zones : Sent([Call(k, j, s, s) EXCEPT !.zone = z], k, j, s)
<1>1. Nothing \in AnswerType /\ Default \in Zones
  BY NothingTyped, ZoneAssumption
<1> QED
  BY <1>1 DEF Call, CallType, Sent

(* What Finish does to the requests, the timer and the dialog.              *)
LEMMA FinishDoes ==
  ASSUME NEW p, NEW cs \in Seq(CallType), NEW t \in TimerType, NEW d \in DialogType,
         NEW risky \in BOOLEAN,
         Finish(p, cs, t, d, risky), t.ticking = (t.current # 0),
         session' \in Tokens, client' = session', unsure \in BOOLEAN
  PROVE  /\ calls' \in Seq(CallType)
         /\ timer' \in TimerType /\ timer'.ticking = (timer'.current # 0)
         /\ timer'.current = t.current
         /\ dialog' \in DialogType
         /\ unsure' \in BOOLEAN
         /\ ~unsure' => ~unsure /\ ~risky /\ ~Clashing(calls')
         /\ \A x : Owned(cs, x) => Owned(calls', x)
         /\ \A s, b, a : OneLogin(cs, s, b, a) => OneLogin(calls', s, b, a)
         /\ \A e, sv, l : Theirs(cs, session', e, t.current, sv, l)
                            => Theirs(calls', session', e, t.current, sv, l)
<1> DEFINE c == Call("current", 0, session', client')
<1>1. /\ c \in CallType /\ c.kind = "current" /\ c.job = 0 /\ c.by = session'
      /\ c.token = session' /\ c.stage = "sent"
  <2>1. "current" \in Kinds /\ 0 \in Nat
    BY DEF Kinds
  <2>2. c = Call("current", 0, session', session')
    OBVIOUS
  <2>3. Sent(c, "current", 0, session')
    BY <2>1, <2>2, NewCall
  <2> HIDE DEF c
  <2> QED
    BY <2>3 DEF Sent
<1>2. calls' = cs \/ calls' = Append(cs, c)
  BY DEF Finish
<1>3. timer' = t \/ timer' = [t EXCEPT !.loading = TRUE]
  BY DEF Finish
<1>4. dialog' = NoDialog \/ dialog' = [NoDialog EXCEPT !.open = d.open] \/ dialog' = d
  BY DEF Finish
<1>5. unsure' = (unsure \/ risky \/ Clashing(calls'))
  BY DEF Finish
<1> HIDE DEF c
<1>6. calls' \in Seq(CallType)
  BY <1>1, <1>2, Appended
<1>7. timer' \in TimerType /\ timer'.current = t.current /\ timer'.ticking = t.ticking
  BY <1>3 DEF TimerType
<1>8. dialog' \in DialogType
  <2>1. NoDialog \in DialogType
    BY DEF DialogType, NoDialog
  <2>2. [NoDialog EXCEPT !.open = d.open] \in DialogType
    <3>1. d.open \in BOOLEAN
      BY DEF DialogType
    <3> QED
      BY <2>1, <3>1 DEF DialogType
  <2> QED
    BY <1>4, <2>1, <2>2
<1>9. unsure' \in BOOLEAN /\ (~unsure' => ~unsure /\ ~risky /\ ~Clashing(calls'))
  BY <1>5 DEF Clashing
<1>10. ASSUME NEW x, Owned(cs, x)
       PROVE  Owned(calls', x)
  <2>1. Proper(c)
    BY <1>1 DEF Proper, Logins
  <2> QED
    BY <1>1, <1>2, <1>10, <2>1, OneMore
<1>11. ASSUME NEW s, NEW b, NEW a, OneLogin(cs, s, b, a)
       PROVE  OneLogin(calls', s, b, a)
  <2>1. c.kind \notin Logins
    BY <1>1 DEF Logins
  <2> QED
    BY <1>1, <1>2, <1>11, <2>1, OneMore
<1>12. ASSUME NEW e, NEW sv, NEW l, Theirs(cs, session', e, t.current, sv, l)
       PROVE  Theirs(calls', session', e, t.current, sv, l)
  <2>1. CASE calls' = cs
    BY <1>12, <2>1
  <2>2. CASE calls' = Append(cs, c)
    <3>1. Theirs(Append(cs, c), session', e, t.current, sv, l)
      BY <1>1, <1>12, StillTheirs
    <3> QED
      BY <2>2, <3>1
  <2> QED
    BY <1>2, <2>1, <2>2
<1> QED
  BY <1>6, <1>7, <1>8, <1>9, <1>10, <1>11, <1>12

(* What a step of the shell has to show of the requests it leaves to Finish.*)
LEMMA FinishKeeps ==
  ASSUME NEW p, NEW cs \in Seq(CallType), NEW t \in TimerType, NEW d \in DialogType,
         NEW risky \in BOOLEAN,
         Finish(p, cs, t, d, risky), t.ticking = (t.current # 0),
         session' \in Tokens, client' = session', unsure \in BOOLEAN,
         login' \in LoginType, ready' \in BOOLEAN, loading' \in BOOLEAN,
         settings' \in SettingsType, data' \in DataType,
         server' \in ServerType, \A u \in Users : server'.running[u] <= server'.started,
         Owned(cs, server'.expired),
         OneLogin(cs, session', login'.busy, server'.accounts),
         session' # NoToken /\ ~unsure /\ ~risky =>
           Theirs(cs, session', data', t.current, server', loading')
  PROVE  IInv'
<1>1. /\ calls' \in Seq(CallType)
      /\ timer' \in TimerType /\ timer'.ticking = (timer'.current # 0)
      /\ timer'.current = t.current
      /\ dialog' \in DialogType
      /\ unsure' \in BOOLEAN
      /\ ~unsure' => ~unsure /\ ~risky /\ ~Clashing(calls')
      /\ \A x : Owned(cs, x) => Owned(calls', x)
      /\ \A s, b, a : OneLogin(cs, s, b, a) => OneLogin(calls', s, b, a)
      /\ \A e, sv, l : Theirs(cs, session', e, t.current, sv, l)
                         => Theirs(calls', session', e, t.current, sv, l)
  BY FinishDoes
<1>2. session' # NoToken /\ ~unsure' =>
        Theirs(calls', session', data', timer'.current, server', loading')
  BY <1>1
<1>3. Typed'
  BY <1>1 DEF Typed
<1> QED
  BY <1>1, <1>2, <1>3 DEF IInv

-----------------------------------------------------------------------------
(***************************************************************************)
(* What the user does.                                                     *)
(***************************************************************************)
LEMMA InitKeeps == Init => IInv
<1> SUFFICES ASSUME Init PROVE IInv
  OBVIOUS
<1>1. 0 \in TimerNos /\ 0 \in 0..MaxTokens /\ 0 \in 0..MaxTimers
  BY BoundAssumption DEF TimerNos
<1>2. calls = <<>> /\ Len(calls) = 0 /\ calls \in Seq(CallType) /\ <<>> \in Seq(TimerNos)
  BY EmptySeq DEF Init
<1>3. session \in Tokens /\ client = session
  BY NothingTyped DEF Init
<1>4. login \in LoginType /\ ready \in BOOLEAN /\ loading \in BOOLEAN /\ unsure \in BOOLEAN
  BY DEF Init, EmptyPage, LoginType
<1>5. settings \in SettingsType
  BY ZoneAssumption DEF Init, SettingsType
<1>6. data \in DataType
  BY <1>2 DEF Init, NoData, DataType
<1>7. timer \in TimerType /\ timer.ticking = (timer.current # 0)
  BY <1>1 DEF Init, NoTimer, TimerType
<1>8. dialog \in DialogType
  BY DEF Init, NoDialog, DialogType
<1>9. server \in ServerType /\ \A u \in Users : server.running[u] <= server.started
  <2>1. [u \in Users |-> 0] \in [Users -> TimerNos]
    BY <1>1
  <2>2. [u \in Users |-> <<>>] \in [Users -> Seq(TimerNos)]
    BY <1>2
  <2>3. server \in ServerType
    BY <1>1, <2>1, <2>2, UserAssumption, ZoneAssumption DEF Init, ServerType
  <2>4. server.running = [u \in Users |-> 0] /\ server.started = 0
    BY DEF Init
  <2> QED
    BY <2>3, <2>4
<1>10. Typed
  BY <1>2, <1>3, <1>4, <1>5, <1>6, <1>7, <1>8, <1>9 DEF Typed
<1>11. Owned(calls, server.expired) /\ OneLogin(calls, session, login.busy, server.accounts)
  BY <1>2 DEF Owned, OneLogin
<1>12. session = NoToken /\ ~Clashing(calls)
  BY <1>2 DEF Init, Clashing
<1> QED
  BY <1>10, <1>11, <1>12 DEF IInv

\* A step beside the requests: the form of the login page, the dialog.
LEMMA AsideKeeps ==
  ASSUME IInv, UNCHANGED <<shellVars, data, timer, calls, server, unsure>>,
         login' \in LoginType, login'.busy = login.busy, dialog' \in DialogType
  PROVE  IInv'
<1>1. /\ session' = session /\ client' = client /\ ready' = ready /\ loading' = loading
      /\ settings' = settings /\ data' = data /\ timer' = timer /\ calls' = calls
      /\ server' = server /\ unsure' = unsure
  BY DEF shellVars
<1>2. Typed'
  BY <1>1 DEF IInv, Typed
<1>3. /\ Owned(calls', server'.expired)
      /\ OneLogin(calls', session', login'.busy, server'.accounts)
      /\ ~unsure' => ~Clashing(calls')
      /\ session' # NoToken /\ ~unsure' =>
           Theirs(calls', session', data', timer'.current, server', loading')
  BY <1>1 DEF IInv
<1> QED
  BY <1>2, <1>3 DEF IInv

\* A step of the signed in user, which sends a request or none.
LEMMA SameSession ==
  ASSUME IInv, UNCHANGED <<session, client, login, ready, data, server>>,
         loading' \in BOOLEAN, loading => loading', settings' \in SettingsType,
         session # NoToken,
         NEW cs, NEW c, NEW k \in Kinds \ Logins, NEW j, j = 0 \/ k = "settings",
         cs = calls \/ (cs = Append(calls, c) /\ Sent(c, k, j, session)),
         NEW t \in TimerType, t.current = timer.current, t.ticking = timer.ticking,
         NEW d \in DialogType, NEW p, Finish(p, cs, t, d, FALSE)
  PROVE  IInv'
<1>1. Typed /\ Owned(calls, server.expired)
      /\ OneLogin(calls, session, login.busy, server.accounts)
      /\ (~unsure => Theirs(calls, session, data, timer.current, server, loading))
  BY DEF IInv
<1>2. /\ calls \in Seq(CallType) /\ session \in Tokens /\ client = session
      /\ login \in LoginType /\ ready \in BOOLEAN /\ data \in DataType
      /\ server \in ServerType /\ \A u \in Users : server.running[u] <= server.started
      /\ unsure \in BOOLEAN /\ timer.ticking = (timer.current # 0)
  BY <1>1 DEF Typed
<1>3. /\ cs \in Seq(CallType)
      /\ Owned(cs, server.expired)
      /\ OneLogin(cs, session, login.busy, server.accounts)
      /\ ~unsure => Theirs(cs, session, data, timer.current, server, loading')
  <2>1. CASE cs = calls
    BY <1>1, <1>2, <2>1, StillTheirs
  <2>2. CASE cs = Append(calls, c) /\ Sent(c, k, j, session)
    <3>1. /\ c \in CallType /\ c.stage = "sent" /\ Proper(c) /\ c.kind \notin Logins
          /\ c.token = session /\ (c.job = 0 \/ c.kind = "settings")
      BY <2>2 DEF Sent, Proper
    <3>2. cs \in Seq(CallType)
      BY <1>2, <2>2, <3>1, Appended
    <3>3. Owned(cs, server.expired) /\ OneLogin(cs, session, login.busy, server.accounts)
      BY <1>1, <1>2, <2>2, <3>1, OneMore
    <3>4. ASSUME ~unsure
          PROVE  Theirs(cs, session, data, timer.current, server, loading')
      <4>1. Theirs(calls, session, data, timer.current, server, loading')
        BY <1>1, <1>2, <3>4, StillTheirs
      <4> QED
        BY <1>2, <2>2, <3>1, <4>1, StillTheirs
    <3> QED
      BY <3>2, <3>3, <3>4
  <2> QED
    BY <2>1, <2>2
<1>4. /\ session' = session /\ client' = client /\ login' = login /\ ready' = ready
      /\ data' = data /\ server' = server
  OBVIOUS
<1>5. /\ t.ticking = (t.current # 0)
      /\ session' \in Tokens /\ client' = session'
      /\ login' \in LoginType /\ ready' \in BOOLEAN /\ data' \in DataType
      /\ server' \in ServerType /\ \A u \in Users : server'.running[u] <= server'.started
      /\ Owned(cs, server'.expired)
      /\ OneLogin(cs, session', login'.busy, server'.accounts)
      /\ ~unsure => Theirs(cs, session', data', t.current, server', loading')
  BY <1>2, <1>3, <1>4
<1>6. FALSE \in BOOLEAN
  OBVIOUS
<1> QED
  BY <1>2, <1>3, <1>5, <1>6, FinishKeeps

\* The login page sends a request without a token, and only one.
LEMMA SubmitKeeps ==
  ASSUME IInv, NEW kind \in Logins, NEW u \in Users \cup {NoUser}, Submit(kind, u),
         IF kind = "demo" THEN server.accounts # Users ELSE u \in Users
  PROVE  IInv'
<1> DEFINE c == [Call(kind, 0, session, client) EXCEPT !.user = u]
           cs == Append(calls, c)
<1>1. Typed /\ Owned(calls, server.expired)
      /\ OneLogin(calls, session, login.busy, server.accounts)
  BY DEF IInv
<1>2. /\ session = NoToken /\ client = session /\ ~login.busy
      /\ login' = [login EXCEPT !.busy = TRUE, !.error = FALSE, !.persona = kind = "demo"]
      /\ session' = session /\ client' = client /\ ready' = ready /\ loading' = loading
      /\ settings' = settings /\ data' = data /\ server' = server
      /\ Finish(page, cs, timer, dialog, FALSE)
  BY <1>1 DEF Submit, AtLogin, shellVars, Typed
<1>3. Sent(c, kind, 0, NoToken) /\ c.user = u
  <2>1. kind \in Kinds /\ 0 \in Nat /\ NoToken \in Tokens
    BY NothingTyped DEF Kinds
  <2>2. c = [Call(kind, 0, NoToken, NoToken) EXCEPT !.user = u]
    BY <1>2
  <2> HIDE DEF c
  <2> QED
    BY <2>1, <2>2, NewCall
<1> HIDE DEF c
<1>4. login' \in LoginType /\ login'.busy = TRUE
  BY <1>1, <1>2 DEF Typed, LoginType
<1>5. c \in CallType /\ c.stage = "sent" /\ Proper(c) /\ c.kind = kind
  BY <1>3 DEF Sent, Proper
<1>6. calls \in Seq(CallType)
  BY <1>1 DEF Typed
<1>7. cs \in Seq(CallType) /\ Owned(cs, server.expired)
  BY <1>1, <1>5, <1>6, OneMore, Appended
<1>8. OneLogin(cs, session', login'.busy, server.accounts)
  <2>1. \A i \in 1..Len(calls) : calls[i].kind \notin Logins
    BY <1>1, <1>2 DEF OneLogin
  <2>2. kind = "demo" => Users \ server.accounts # {}
    <3>1. server.accounts \in SUBSET Users
      BY <1>1 DEF Typed, ServerType
    <3> QED
      BY <3>1
  <2>3. /\ Len(calls) \in Nat /\ Len(cs) = Len(calls) + 1
        /\ \A k \in 1..Len(calls) : cs[k] = calls[k]
        /\ \A k \in 1..Len(cs) : k \in 1..Len(calls) \/ (k = Len(calls) + 1 /\ cs[k] = c)
    BY <1>5, <1>6, Appended
  <2> HIDE DEF cs
  <2> SUFFICES ASSUME NEW i \in 1..Len(cs), cs[i].kind \in Logins
               PROVE  /\ session' = NoToken /\ login'.busy
                      /\ \A j \in 1..Len(cs) : j # i => cs[j].kind \notin Logins
                      /\ cs[i].kind = "demo" /\ cs[i].stage = "sent" =>
                           Users \ server.accounts # {}
    BY DEF OneLogin
  <2>4. i = Len(calls) + 1 /\ cs[i] = c
    BY <2>1, <2>3
  <2>5. \A j \in 1..Len(cs) : j # i => cs[j].kind \notin Logins
    BY <2>1, <2>3, <2>4
  <2> QED
    BY <1>2, <1>4, <1>5, <2>2, <2>4, <2>5
<1> HIDE DEF cs
<1>9. /\ session' \in Tokens /\ client' = session' /\ session' = NoToken
      /\ ready' \in BOOLEAN /\ loading' \in BOOLEAN /\ settings' \in SettingsType
      /\ data' \in DataType /\ server' \in ServerType
      /\ \A v \in Users : server'.running[v] <= server'.started
      /\ unsure \in BOOLEAN /\ timer \in TimerType /\ timer.ticking = (timer.current # 0)
      /\ dialog \in DialogType
      /\ Owned(cs, server'.expired)
      /\ OneLogin(cs, session', login'.busy, server'.accounts)
  BY <1>1, <1>2, <1>7, <1>8 DEF Typed
<1>10. FALSE \in BOOLEAN
  OBVIOUS
<1> QED
  BY <1>2, <1>4, <1>7, <1>9, <1>10, FinishKeeps

LEMMA LogoutKeeps ==
  ASSUME IInv, Logout
  PROVE  IInv'
<1>1. Typed /\ Owned(calls, server.expired)
      /\ OneLogin(calls, session, login.busy, server.accounts)
  BY DEF IInv
<1>2. /\ session # NoToken /\ session' = NoToken /\ client' = NoToken /\ login' = EmptyPage
      /\ ready' = FALSE /\ loading' = FALSE
      /\ settings' = settings /\ data' = data /\ server' = server
      /\ Finish("login", calls, timer, dialog, FALSE)
  BY DEF Logout, Mounted, Open
<1>3. OneLogin(calls, session', login'.busy, server'.accounts)
  BY <1>1, <1>2 DEF OneLogin
<1>4. /\ session' \in Tokens /\ client' = session' /\ session' = NoToken
      /\ login' \in LoginType
      /\ ready' \in BOOLEAN /\ loading' \in BOOLEAN
  BY <1>2, NothingTyped DEF EmptyPage, LoginType
<1>5. /\ settings' \in SettingsType
      /\ data' \in DataType /\ server' \in ServerType
      /\ \A v \in Users : server'.running[v] <= server'.started
      /\ unsure \in BOOLEAN /\ timer \in TimerType /\ timer.ticking = (timer.current # 0)
      /\ dialog \in DialogType /\ calls \in Seq(CallType)
      /\ Owned(calls, server'.expired)
  BY <1>1, <1>2 DEF Typed
<1>6. FALSE \in BOOLEAN
  OBVIOUS
<1> QED
  BY <1>2, <1>3, <1>4, <1>5, <1>6, FinishKeeps

\* As long as only the settings have been asked for, everything is awaited.
LEMMA FirstRequest ==
  ASSUME NEW c, NEW j, NEW s, Sent(c, "settings", j, s), NEW d, NEW t, NEW sv
  PROVE  /\ Append(<<>>, c) \in Seq(CallType)
         /\ \A i \in 1..Len(Append(<<>>, c)) : Append(<<>>, c)[i] = c /\ i = 1
         /\ Theirs(Append(<<>>, c), s, d, t, sv, TRUE)
<1> DEFINE cs == Append(<<>>, c)
<1>1. <<>> \in Seq(CallType) /\ Len(<<>>) = 0
  BY EmptySeq
<1>2. c \in CallType /\ c.stage = "sent" /\ c.kind = "settings" /\ c.token = s
  BY DEF Sent
<1>3. cs \in Seq(CallType) /\ Len(cs) = 1 /\ cs[1] = c
  BY <1>1, <1>2, Appended
<1>4. \A i \in 1..Len(cs) : cs[i] = c /\ i = 1
  BY <1>3
<1> HIDE DEF cs
<1>5. Mine(cs, s) /\ StillTrue(cs, s.of, sv)
  BY <1>2, <1>4 DEF Mine, StillTrue
<1>6. Awaited(cs, "lists", TRUE) /\ Awaited(cs, "current", TRUE)
  BY <1>2, <1>3, <1>4 DEF Awaited
<1>7. Theirs(cs, s, d, t, sv, TRUE)
  BY <1>5, <1>6 DEF Theirs
<1> QED
  BY <1>3, <1>4, <1>7 DEF cs

\* What is kept is the session: its data is asked for again.
LEMMA ReloadKeeps ==
  ASSUME IInv, Reload
  PROVE  IInv'
<1> DEFINE c == Call("settings", FreshJob(<<>>), session, client')
<1>1. Typed
  BY DEF IInv
<1>2. /\ session' = session /\ client' = session /\ login' = EmptyPage /\ ready' = FALSE
      /\ loading' = (session # NoToken) /\ data' = NoData /\ unsure' = FALSE
      /\ timer' = NoTimer /\ dialog' = NoDialog /\ settings' = settings /\ server' = server
      /\ calls' = IF session = NoToken THEN <<>> ELSE Append(<<>>, c)
  BY DEF Reload, Rehydrated, Initialise
<1>3. <<>> \in Seq(CallType) /\ <<>> \in Seq(TimerNos) /\ Len(<<>>) = 0
  BY EmptySeq
<1>4. Sent(c, "settings", FreshJob(<<>>), session)
  <2>1. "settings" \in Kinds /\ FreshJob(<<>>) \in Nat /\ session \in Tokens
    BY <1>1, <1>3, FreshJobIsNumber DEF Typed, Kinds
  <2>2. c = Call("settings", FreshJob(<<>>), session, session)
    BY <1>2
  <2> HIDE DEF c
  <2> QED
    BY <2>1, <2>2, NewCall
<1> HIDE DEF c
<1>5. /\ c \in CallType /\ c.stage = "sent" /\ c.token = c.by /\ c.kind = "settings"
      /\ c.token = session
  BY <1>4 DEF Sent
<1>6. c.kind \notin Logins
  BY <1>5 DEF Logins
<1>7. ASSUME session # NoToken
      PROVE  /\ calls' \in Seq(CallType)
             /\ Owned(calls', server'.expired)
             /\ OneLogin(calls', session', login'.busy, server'.accounts)
             /\ ~Clashing(calls')
             /\ Theirs(calls', session', data', timer'.current, server', loading')
  <2>1. calls' = Append(<<>>, c) /\ loading' = TRUE
    BY <1>2, <1>7
  <2>2. /\ calls' \in Seq(CallType)
        /\ \A i \in 1..Len(calls') : calls'[i] = c /\ i = 1
        /\ Theirs(calls', session, data', timer'.current, server', TRUE)
    BY <1>4, <2>1, FirstRequest
  <2>3. Owned(calls', server'.expired)
    BY <1>5, <1>6, <2>2 DEF Owned, Proper
  <2>4. OneLogin(calls', session', login'.busy, server'.accounts)
    BY <1>6, <2>2 DEF OneLogin
  <2>5. ~Clashing(calls')
    BY <2>2 DEF Clashing
  <2> QED
    BY <1>2, <2>1, <2>2, <2>3, <2>4, <2>5
<1>8. ASSUME session = NoToken
      PROVE  /\ calls' \in Seq(CallType)
             /\ Owned(calls', server'.expired)
             /\ OneLogin(calls', session', login'.busy, server'.accounts)
             /\ ~Clashing(calls')
  <2>1. calls' = <<>>
    BY <1>2, <1>8
  <2>2. calls' \in Seq(CallType) /\ Len(calls') = 0
    BY <1>3, <2>1
  <2> QED
    BY <2>2 DEF Owned, OneLogin, Clashing
<1>9. Typed'
  <2>1. /\ session' \in Tokens /\ client' = session' /\ settings' \in SettingsType
        /\ server' \in ServerType /\ \A v \in Users : server'.running[v] <= server'.started
    BY <1>1, <1>2 DEF Typed
  <2>2. ready' \in BOOLEAN /\ loading' \in BOOLEAN /\ unsure' \in BOOLEAN
    BY <1>2
  <2>3. login' \in LoginType /\ dialog' \in DialogType
    BY <1>2 DEF EmptyPage, LoginType, NoDialog, DialogType
  <2>4. timer' \in TimerType /\ timer'.ticking = (timer'.current # 0)
    <3>1. 0 \in TimerNos
      BY BoundAssumption DEF TimerNos
    <3>2. NoTimer \in TimerType /\ NoTimer.ticking = (NoTimer.current # 0)
      BY <3>1 DEF NoTimer, TimerType
    <3> QED
      BY <1>2, <3>2
  <2>5. data' \in DataType
    BY <1>2, <1>3 DEF NoData, DataType
  <2> QED
    BY <1>7, <1>8, <2>1, <2>2, <2>3, <2>4, <2>5 DEF Typed
<1> QED
  BY <1>2, <1>7, <1>8, <1>9 DEF IInv

LEMMA UserKeeps ==
  ASSUME IInv, UserStep
  PROVE  IInv'
<1>1. Typed
  BY DEF IInv
<1>2. /\ session \in Tokens /\ client = session /\ login \in LoginType /\ loading \in BOOLEAN
      /\ settings \in SettingsType /\ timer \in TimerType /\ dialog \in DialogType
      /\ calls \in Seq(CallType)
  BY <1>1 DEF Typed
<1>3. ASSUME NEW u \in Users, SubmitForm(u) PROVE IInv'
  <2>1. Submit(login.mode, u)
    BY <1>3 DEF SubmitForm
  <2>2. login.mode \in Logins /\ login.mode # "demo"
    BY <1>2 DEF LoginType, Logins
  <2> QED
    BY <2>1, <2>2, SubmitKeeps
<1>4. ASSUME DemoLogin PROVE IInv'
  <2>1. "demo" \in Logins /\ Submit("demo", NoUser) /\ server.accounts # Users
    BY <1>4 DEF DemoLogin, Logins
  <2> QED
    BY <2>1, SubmitKeeps
<1>5. ASSUME ToggleMode PROVE IInv'
  <2>1. UNCHANGED <<shellVars, data, timer, calls, server, unsure>> /\ dialog' = dialog
    BY <1>5 DEF ToggleMode
  <2>2. login' \in LoginType /\ login'.busy = login.busy
    BY <1>2, <1>5 DEF ToggleMode, LoginType
  <2> QED
    BY <1>2, <2>1, <2>2, AsideKeeps
<1>6. ASSUME Logout PROVE IInv'
  BY <1>6, LogoutKeeps
<1>7. FALSE \in BOOLEAN /\ "save" \in Kinds \ Logins /\ "start" \in Kinds \ Logins
      /\ "stop" \in Kinds \ Logins /\ "settings" \in Kinds \ Logins /\ 0 \in Nat
  BY DEF Kinds, Logins
<1>8. ASSUME NEW p, NEW q,
             UNCHANGED <<shellVars, login, data, server, counters>>,
             session # NoToken,
             Finish(q, calls, timer, dialog, FALSE)
      PROVE  IInv'
  <2>1. /\ UNCHANGED <<session, client, login, ready, data, server>>
        /\ loading' \in BOOLEAN /\ (loading => loading') /\ settings' \in SettingsType
    BY <1>2, <1>8 DEF shellVars
  <2>2. calls = calls
    OBVIOUS
  <2> QED
    BY <1>2, <1>7, <1>8, <2>1, <2>2, SameSession
<1>9. ASSUME NEW p \in Visits, GoTo(p) PROVE IInv'
  <2>1. /\ UNCHANGED <<shellVars, login, data, server, counters>> /\ session # NoToken
        /\ Finish(p, calls, timer, dialog, FALSE)
    BY <1>9 DEF GoTo, Mounted, Open
  <2> QED
    BY <1>8, <2>1
<1>10. ASSUME Cancel PROVE IInv'
  <2>1. /\ UNCHANGED <<shellVars, login, data, server, counters>> /\ session # NoToken
        /\ Finish("daily", calls, timer, dialog, FALSE)
    BY <1>10 DEF Cancel, OnSettings, Open
  <2> QED
    BY <1>8, <2>1
<1>11. ASSUME NEW z \in Zones, PickZone(z) PROVE IInv'
  <2> DEFINE c == Call("settings", FreshJob(calls), session, client)
             cs == Append(calls, c)
  <2>1. /\ UNCHANGED <<session, client, login, ready, data, server>>
        /\ loading' = TRUE /\ settings' = [settings EXCEPT !.zone = z] /\ session # NoToken
        /\ Finish(page, cs, timer, dialog, FALSE)
    BY <1>11 DEF PickZone, OnSettings, Open, Initialise
  <2>2. settings' \in SettingsType
    BY <1>2, <2>1 DEF SettingsType
  <2>3. Sent(c, "settings", FreshJob(calls), session)
    <3>1. c = Call("settings", FreshJob(calls), session, session)
      BY <1>2
    <3> HIDE DEF c
    <3> QED
      BY <1>2, <1>7, <3>1, FreshJobIsNumber, NewCall
  <2>4. cs = Append(calls, c)
    OBVIOUS
  <2> HIDE DEF c, cs
  <2> QED
    BY <1>2, <1>7, <2>1, <2>2, <2>3, <2>4, SameSession
<1>12. ASSUME SaveSettings PROVE IInv'
  <2> DEFINE c == [Call("save", 0, session, client) EXCEPT !.zone = settings.zone]
             cs == Append(calls, c)
  <2>1. /\ UNCHANGED <<session, client, login, ready, data, server>>
        /\ loading' = loading /\ settings' = [settings EXCEPT !.configured = TRUE]
        /\ session # NoToken
        /\ Finish(page, cs, timer, dialog, FALSE)
    BY <1>12 DEF SaveSettings, OnSettings, Open
  <2>2. settings' \in SettingsType /\ settings.zone \in Zones
    BY <1>2, <2>1 DEF SettingsType
  <2>3. Sent(c, "save", 0, session)
    <3>1. c = [Call("save", 0, session, session) EXCEPT !.zone = settings.zone]
      BY <1>2
    <3> HIDE DEF c
    <3> QED
      BY <1>2, <1>7, <2>2, <3>1, NewCall
  <2>4. cs = Append(calls, c)
    OBVIOUS
  <2> HIDE DEF c, cs
  <2> QED
    BY <1>2, <1>7, <2>1, <2>2, <2>3, <2>4, SameSession
<1>13. ASSUME NEW k \in {"start", "stop"},
              UNCHANGED <<shellVars, login, data, server, counters>>, session # NoToken,
              Finish(page, Append(calls, Call(k, 0, session, client)),
                     [timer EXCEPT !.loading = TRUE], dialog, FALSE)
       PROVE  IInv'
  <2> DEFINE c == Call(k, 0, session, client)
             cs == Append(calls, c)
             t == [timer EXCEPT !.loading = TRUE]
  <2>1. /\ UNCHANGED <<session, client, login, ready, data, server>>
        /\ loading' \in BOOLEAN /\ (loading => loading') /\ settings' \in SettingsType
        /\ Finish(page, cs, t, dialog, FALSE)
    BY <1>2, <1>13 DEF shellVars
  <2>2. t \in TimerType /\ t.current = timer.current /\ t.ticking = timer.ticking
    BY <1>2 DEF TimerType
  <2>3. k \in Kinds \ Logins
    BY <1>7
  <2>4. Sent(c, k, 0, session)
    <3>1. c = Call(k, 0, session, session)
      BY <1>2
    <3> HIDE DEF c
    <3> QED
      BY <1>2, <1>7, <2>3, <3>1, NewCall
  <2>5. cs = Append(calls, c)
    OBVIOUS
  <2> HIDE DEF c, cs, t
  <2> QED
    BY <1>2, <1>7, <1>13, <2>1, <2>2, <2>3, <2>4, <2>5, SameSession
<1>14. ASSUME StartTimer PROVE IInv'
  <2>1. /\ UNCHANGED <<shellVars, login, data, server, counters>> /\ session # NoToken
        /\ Finish(page, Append(calls, Call("start", 0, session, client)),
                  [timer EXCEPT !.loading = TRUE], dialog, FALSE)
    BY <1>14 DEF StartTimer, InDialog, Mounted, Open
  <2> QED
    BY <1>13, <2>1
<1>15. ASSUME StopTimer PROVE IInv'
  <2>1. /\ UNCHANGED <<shellVars, login, data, server, counters>> /\ session # NoToken
        /\ Finish(page, Append(calls, Call("stop", 0, session, client)),
                  [timer EXCEPT !.loading = TRUE], dialog, FALSE)
    BY <1>15 DEF StopTimer, Mounted, Open
  <2> QED
    BY <1>13, <2>1
<1>16. ASSUME \/ OpenStart
              \/ \E m \in {"manual", "existing"} : PickMode(m)
              \/ GiveTask \/ CloseDialog
       PROVE  IInv'
  <2>1. UNCHANGED <<shellVars, data, timer, calls, server, unsure>> /\ login' = login
    BY <1>16 DEF OpenStart, PickMode, GiveTask, CloseDialog
  <2>2. dialog' \in DialogType
    <3>1. CASE OpenStart
      BY <3>1 DEF OpenStart, NoDialog, DialogType
    <3>2. CASE \E m \in {"manual", "existing"} : PickMode(m)
      BY <1>2, <3>2 DEF PickMode, DialogType
    <3>3. CASE GiveTask
      BY <1>2, <3>3 DEF GiveTask, DialogType
    <3>4. CASE CloseDialog
      BY <3>4 DEF CloseDialog, NoDialog, DialogType
    <3> QED
      BY <1>16, <3>1, <3>2, <3>3, <3>4
  <2> QED
    BY <1>2, <2>1, <2>2, AsideKeeps
<1> QED
  BY <1>3, <1>4, <1>5, <1>6, <1>9, <1>10, <1>11, <1>12, <1>14, <1>15, <1>16 DEF UserStep

-----------------------------------------------------------------------------
(***************************************************************************)
(* The services.                                                           *)
(***************************************************************************)
\* ds is cs, with the i-th request answered.
Replied(cs, ds, i, g, r) ==
  /\ ds \in Seq(CallType) /\ Len(ds) = Len(cs)
  /\ \A j \in 1..Len(cs) :
       /\ ds[j].kind = cs[j].kind /\ ds[j].job = cs[j].job
       /\ ds[j].by = cs[j].by /\ ds[j].token = cs[j].token /\ ds[j].user = cs[j].user
       /\ j # i => ds[j].stage = cs[j].stage /\ ds[j].ret = cs[j].ret
  /\ ds[i].stage = g /\ ds[i].ret = r

Stages == {"ok", "failed", "refused"}

LEMMA AnswerReplies ==
  ASSUME calls \in Seq(CallType), NEW i \in 1..Len(calls), NEW g \in Stages,
         NEW r \in AnswerType
  PROVE  Replied(calls, Answer(i, g, r), i, g, r)
<1> DEFINE e == [calls[i] EXCEPT !.stage = g, !.ret = r]
<1>1. calls[i] \in CallType
  BY ElementOfSeq
<1>2. /\ e \in CallType /\ e.stage = g /\ e.ret = r
      /\ e.kind = calls[i].kind /\ e.job = calls[i].job /\ e.by = calls[i].by
      /\ e.token = calls[i].token /\ e.user = calls[i].user
  BY <1>1 DEF CallType, Stages
<1>3. Answer(i, g, r) = [calls EXCEPT ![i] = e]
  BY DEF Answer
<1> HIDE DEF e
<1>4. /\ [calls EXCEPT ![i] = e] \in Seq(CallType)
      /\ Len([calls EXCEPT ![i] = e]) = Len(calls)
      /\ \A j \in 1..Len(calls) : [calls EXCEPT ![i] = e][j] = IF j = i THEN e ELSE calls[j]
  BY <1>2, ExceptSeq
<1> QED
  BY <1>2, <1>3, <1>4 DEF Replied

(* What an answer leaves as it was.                                         *)
LEMMA RepliedKeeps ==
  ASSUME NEW cs, NEW ds, NEW i \in 1..Len(cs), NEW g \in Stages, NEW r,
         Replied(cs, ds, i, g, r)
  PROVE  /\ \A x : Owned(cs, x) /\ (g = "refused" => cs[i].by = NoToken \/ cs[i].by.no \in x)
                     => Owned(ds, x)
         /\ \A s, b, a, a2 :
              OneLogin(cs, s, b, a) /\ (a2 = a \/ cs[i].kind \in Logins)
                => OneLogin(ds, s, b, a2)
         /\ Clashing(ds) => Clashing(cs)
         /\ \A s : Mine(cs, s) => Mine(ds, s)
         /\ \A k, l : Awaited(cs, k, l) => Awaited(ds, k, l)
<1>1. ASSUME NEW x, Owned(cs, x), g = "refused" => cs[i].by = NoToken \/ cs[i].by.no \in x
      PROVE  Owned(ds, x)
  BY <1>1 DEF Owned, Proper, Replied
<1>2. ASSUME NEW s, NEW b, NEW a, NEW a2, OneLogin(cs, s, b, a), a2 = a \/ cs[i].kind \in Logins
      PROVE  OneLogin(ds, s, b, a2)
  <2>1. g # "sent"
    BY DEF Stages
  <2> SUFFICES ASSUME NEW k \in 1..Len(ds), ds[k].kind \in Logins
               PROVE  /\ s = NoToken /\ b
                      /\ \A j \in 1..Len(ds) : j # k => ds[j].kind \notin Logins
                      /\ ds[k].kind = "demo" /\ ds[k].stage = "sent" => Users \ a2 # {}
    BY DEF OneLogin
  <2>2. /\ s = NoToken /\ b
        /\ \A j \in 1..Len(ds) : j # k => ds[j].kind \notin Logins
        /\ cs[k].kind = "demo" /\ cs[k].stage = "sent" => Users \ a # {}
    BY <1>2 DEF OneLogin, Replied
  <2>3. ASSUME ds[k].kind = "demo", ds[k].stage = "sent"
        PROVE  Users \ a2 # {}
    <3>1. k # i
      BY <2>1, <2>3 DEF Replied
    <3>2. cs[i].kind \notin Logins
      BY <2>2, <3>1 DEF Replied
    <3> QED
      BY <1>2, <2>2, <2>3, <3>1, <3>2 DEF Replied
  <2> QED
    BY <2>2, <2>3
<1>3. ASSUME Clashing(ds) PROVE Clashing(cs)
  BY <1>3 DEF Clashing, Replied
<1>4. ASSUME NEW s, Mine(cs, s) PROVE Mine(ds, s)
  BY <1>4 DEF Mine, Replied
<1>5. ASSUME NEW k, NEW l, Awaited(cs, k, l) PROVE Awaited(ds, k, l)
  BY <1>5 DEF Awaited, Replied
<1> QED
  BY <1>1, <1>2, <1>3, <1>4, <1>5

\* What a service has to show of its answer.
LEMMA AnswerKeeps ==
  ASSUME IInv, UNCHANGED <<shellVars, login, data, timer, dialog>>,
         NEW i \in 1..Len(calls), NEW g \in Stages, NEW r \in AnswerType,
         calls' = Answer(i, g, r),
         server' \in ServerType, \A u \in Users : server'.running[u] <= server'.started,
         server'.expired = server.expired,
         server'.accounts = server.accounts \/ calls[i].kind \in Logins,
         g = "refused" => calls[i].by = NoToken \/ calls[i].by.no \in server.expired,
         unsure' \in BOOLEAN, unsure => unsure',
         session # NoToken /\ ~unsure' =>
           /\ StillTrue(calls', session.of, server')
           /\ RowsRight(calls, session.of, data, server) =>
                RowsRight(calls', session.of, data, server')
           /\ ClockRight(calls, session.of, timer.current, server) =>
                ClockRight(calls', session.of, timer.current, server')
  PROVE  IInv'
<1>1. /\ Typed /\ Owned(calls, server.expired)
      /\ OneLogin(calls, session, login.busy, server.accounts)
      /\ ~unsure => ~Clashing(calls)
      /\ session # NoToken /\ ~unsure =>
           Theirs(calls, session, data, timer.current, server, loading)
  BY DEF IInv
<1>2. calls \in Seq(CallType)
  BY <1>1 DEF Typed
<1>3. Replied(calls, calls', i, g, r)
  BY <1>2, AnswerReplies
<1>4. /\ session' = session /\ client' = client /\ ready' = ready /\ loading' = loading
      /\ settings' = settings /\ login' = login /\ data' = data /\ timer' = timer
      /\ dialog' = dialog
  BY DEF shellVars
<1>5. Typed'
  BY <1>1, <1>3, <1>4 DEF Typed, Replied
<1>6. Owned(calls', server'.expired)
  <2>1. Owned(calls', server.expired)
    BY <1>1, <1>3, RepliedKeeps
  <2> QED
    BY <2>1
<1>7. OneLogin(calls', session', login'.busy, server'.accounts)
  <2>1. OneLogin(calls', session, login.busy, server'.accounts)
    BY <1>1, <1>3, RepliedKeeps
  <2> QED
    BY <1>4, <2>1
<1>8. ~unsure' => ~Clashing(calls')
  BY <1>1, <1>3, RepliedKeeps
<1>9. ASSUME session # NoToken, ~unsure'
      PROVE  Theirs(calls', session, data, timer.current, server', loading)
  <2>1. Theirs(calls, session, data, timer.current, server, loading)
    BY <1>1, <1>9
  <2>2. /\ Mine(calls', session)
        /\ \A k : Awaited(calls, k, loading) => Awaited(calls', k, loading)
    BY <1>3, <2>1, RepliedKeeps DEF Theirs
  <2> QED
    BY <1>9, <2>1, <2>2 DEF Theirs
<1>10. session' # NoToken /\ ~unsure' =>
         Theirs(calls', session', data', timer'.current, server', loading')
  BY <1>4, <1>9
<1> QED
  BY <1>5, <1>6, <1>7, <1>8, <1>10 DEF IInv

(* An answer that does not start or stop a timer.                           *)
LEMMA PlainReply ==
  ASSUME NEW cs, NEW ds, NEW i \in 1..Len(cs), NEW g \in Stages, NEW r,
         Replied(cs, ds, i, g, r), cs[i].stage = "sent",
         NEW u, NEW sv, NEW sw, sw.ended = sv.ended, sw.running = sv.running,
         StillTrue(cs, u, sv),
         g = "failed" => cs[i].kind \in Writes,
         g = "ok" => /\ cs[i].kind \notin Writes
                     /\ cs[i].kind = "lists" => r.entries = sv.ended[u]
                     /\ cs[i].kind = "current" => r.timer = sv.running[u]
  PROVE  /\ StillTrue(ds, u, sw)
         /\ \A d : RowsRight(cs, u, d, sv) => RowsRight(ds, u, d, sw)
         /\ \A t : ClockRight(cs, u, t, sv) => ClockRight(ds, u, t, sw)
<1>1. StillTrue(ds, u, sw)
  BY DEF StillTrue, Replied
<1>2. /\ \A j \in 1..Len(cs) : (ds[j].kind = "stop" /\ ds[j].stage = "ok")
                                 <=> (cs[j].kind = "stop" /\ cs[j].stage = "ok")
      /\ \A j \in 1..Len(cs) : (ds[j].kind = "start" /\ ds[j].stage = "ok")
                                 <=> (cs[j].kind = "start" /\ cs[j].stage = "ok")
  BY DEF Replied, Writes
<1>3. \A j \in 1..Len(cs) : cs[j].kind \in Writes /\ cs[j].stage = "ok" =>
                              ds[j].ret = cs[j].ret /\ ds[j].kind = cs[j].kind
  BY DEF Replied
<1>4. Len(ds) = Len(cs)
  BY DEF Replied
<1>5. ASSUME NEW d, RowsRight(cs, u, d, sv)
      PROVE  RowsRight(ds, u, d, sw)
  BY <1>2, <1>3, <1>4, <1>5 DEF RowsRight, Writes
<1>6. ASSUME NEW t, ClockRight(cs, u, t, sv)
      PROVE  ClockRight(ds, u, t, sw)
  <2>1. \A j \in 1..Len(cs) : (ds[j].kind \in Writes /\ ds[j].stage = "ok")
                                <=> (cs[j].kind \in Writes /\ cs[j].stage = "ok")
    BY <1>2 DEF Writes
  <2> QED
    BY <1>2, <1>3, <1>4, <1>6, <2>1 DEF ClockRight, Writes
<1> QED
  BY <1>1, <1>5, <1>6

LEMMA ServeLoginKeeps ==
  ASSUME IInv, UNCHANGED <<shellVars, login, data, timer, dialog, unsure>>,
         NEW i \in 1..Len(calls), calls[i].stage = "sent", calls[i].kind \in Logins,
         ServeLogin(i)
  PROVE  IInv'
<1> DEFINE c == calls[i]
           u == IF c.kind = "demo" THEN CHOOSE v \in Users : v \notin server.accounts
                                   ELSE c.user
           token == [of |-> u, no |-> server.issued + 1]
           r == [Nothing EXCEPT !.token = token]
<1>1. /\ Typed /\ Owned(calls, server.expired)
      /\ OneLogin(calls, session, login.busy, server.accounts)
  BY DEF IInv
<1>2. session = NoToken /\ Proper(c)
      /\ (c.kind = "demo" => Users \ server.accounts # {})
  BY <1>1 DEF OneLogin, Owned
<1>3. u \in Users
  <2>1. CASE c.kind = "demo"
    <3>1. \E v \in Users : v \notin server.accounts
      BY <1>2, <2>1
    <3>2. (CHOOSE v \in Users : v \notin server.accounts) \in Users
      BY <3>1
    <3> QED
      BY <2>1, <3>2
  <2>2. CASE c.kind # "demo"
    BY <1>2, <2>2 DEF Proper
  <2> QED
    BY <2>1, <2>2
<1>4. /\ server \in ServerType /\ \A v \in Users : server.running[v] <= server.started
      /\ unsure \in BOOLEAN
  BY <1>1 DEF Typed
<1>5. c.by = NoToken
  BY <1>2 DEF Proper
<1>6. CASE (u \notin server.accounts) = (c.kind # "login")
  <2>1. /\ server.issued < MaxTokens
        /\ server' = [server EXCEPT !.issued = @ + 1, !.accounts = @ \cup {u},
             !.configured = IF c.kind = "demo" THEN @ \cup {u} ELSE @]
        /\ calls' = Answer(i, "ok", r)
    BY <1>6 DEF ServeLogin
  <2> HIDE DEF u
  <2>2. r \in AnswerType
    <3>1. token \in Tokens
      BY <1>3, <1>4, <2>1, BoundAssumption DEF Tokens, ServerType
    <3> HIDE DEF token
    <3> QED
      BY <3>1, NothingTyped DEF AnswerType
  <2> HIDE DEF r
  <2>3. server' \in ServerType
    <3>1. server.issued + 1 \in 0..MaxTokens
      BY <1>4, <2>1, BoundAssumption DEF ServerType
    <3>2. server.accounts \cup {u} \in SUBSET Users
          /\ (IF c.kind = "demo" THEN server.configured \cup {u} ELSE server.configured)
               \in SUBSET Users
      BY <1>3, <1>4 DEF ServerType
    <3> QED
      BY <1>4, <2>1, <3>1, <3>2 DEF ServerType
  <2>4. /\ server'.running = server.running /\ server'.started = server.started
        /\ server'.expired = server.expired
    BY <1>4, <2>1 DEF ServerType
  <2>5. "ok" \in Stages /\ "ok" # "refused"
    BY DEF Stages
  <2> QED
    BY <1>2, <1>4, <2>1, <2>2, <2>3, <2>4, <2>5, AnswerKeeps
<1>7. CASE (u \notin server.accounts) # (c.kind # "login")
  <2>1. PICK g \in {"refused", "failed"} : calls' = Answer(i, g, Nothing) /\ server' = server
    BY <1>7 DEF ServeLogin
  <2> HIDE DEF u
  <2>2. g \in Stages
    BY DEF Stages
  <2> QED
    BY <1>2, <1>4, <1>5, <2>1, <2>2, NothingTyped, AnswerKeeps
<1> QED
  BY <1>6, <1>7

\* The request of a session is served for its user.
LEMMA ServedUser ==
  ASSUME IInv, NEW i \in 1..Len(calls), Admits(calls[i].token)
  PROVE  /\ calls[i].token.of \in Users
         /\ session # NoToken /\ ~unsure =>
              /\ session.of = calls[i].token.of
              /\ StillTrue(calls, session.of, server)
              /\ calls[i].kind \in Writes =>
                   \A j \in 1..Len(calls) : j # i => calls[j].kind \notin Reads \cup Writes
<1>1. calls[i] \in CallType
  BY ElementOfSeq DEF IInv, Typed
<1>2. calls[i].token.of \in Users
  BY <1>1 DEF CallType, Tokens, Admits
<1>3. ASSUME session # NoToken, ~unsure
      PROVE  Theirs(calls, session, data, timer.current, server, loading) /\ ~Clashing(calls)
  BY <1>3 DEF IInv
<1> QED
  BY <1>2, <1>3 DEF Theirs, Mine, Clashing

LEMMA ServeStartKeeps ==
  ASSUME IInv, UNCHANGED <<shellVars, login, data, timer, dialog, unsure>>,
         NEW i \in 1..Len(calls), calls[i].stage = "sent", calls[i].kind = "start",
         Admits(calls[i].token), ServeStart(i, calls[i].token.of)
  PROVE  IInv'
<1> DEFINE u == calls[i].token.of
           n == server.started + 1
           r == [Nothing EXCEPT !.timer = n]
<1>1. Typed
  BY DEF IInv
<1>2. /\ server \in ServerType /\ \A v \in Users : server.running[v] <= server.started
      /\ unsure \in BOOLEAN /\ calls \in Seq(CallType)
  BY <1>1 DEF Typed
<1>3. /\ u \in Users
      /\ session # NoToken /\ ~unsure =>
           /\ session.of = u /\ StillTrue(calls, session.of, server)
           /\ \A j \in 1..Len(calls) : j # i => calls[j].kind \notin Reads \cup Writes
  BY ServedUser DEF Writes
<1>4. CASE server.running[u] # 0
  <2>1. calls' = Answer(i, "failed", Nothing) /\ server' = server
    BY <1>4 DEF ServeStart
  <2>2. "failed" \in Stages /\ calls[i].kind \in Writes /\ "failed" # "refused" /\ "failed" # "ok"
    BY DEF Stages, Writes
  <2>3. Replied(calls, calls', i, "failed", Nothing)
    BY <1>2, <2>1, <2>2, NothingTyped, AnswerReplies
  <2>4. ASSUME session # NoToken, ~unsure
        PROVE  /\ StillTrue(calls', session.of, server')
               /\ RowsRight(calls, session.of, data, server) =>
                    RowsRight(calls', session.of, data, server')
               /\ ClockRight(calls, session.of, timer.current, server) =>
                    ClockRight(calls', session.of, timer.current, server')
    BY <1>3, <2>1, <2>2, <2>3, <2>4, PlainReply
  <2> QED
    BY <1>2, <2>1, <2>2, <2>4, NothingTyped, AnswerKeeps
<1>5. CASE server.running[u] = 0
  <2>1. /\ server.started < MaxTimers
        /\ server' = [server EXCEPT !.started = @ + 1, !.running[u] = server.started + 1]
        /\ calls' = Answer(i, "ok", r)
    BY <1>5 DEF ServeStart
  <2>2. n \in TimerNos /\ n \in 0..MaxTimers /\ n > server.started /\ n = server.started + 1
    BY <1>2, <2>1, BoundAssumption DEF ServerType, TimerNos
  <2>3. r \in AnswerType /\ r.timer = n
    BY <2>2, NothingTyped DEF AnswerType
  <2> HIDE DEF u
  <2>4. /\ server'.started = n /\ server'.ended = server.ended
        /\ server'.expired = server.expired /\ server'.accounts = server.accounts
        /\ server'.running = [server.running EXCEPT ![u] = n]
    BY <1>2, <2>1 DEF ServerType
  <2>5. server.running \in [Users -> TimerNos] /\ server.started \in 0..MaxTimers
    BY <1>2 DEF ServerType
  <2>6. server'.running[u] = n /\ \A v \in Users \ {u} : server'.running[v] = server.running[v]
    BY <1>3, <2>4, <2>5
  <2>7. \A v \in Users : server'.running[v] <= server'.started
    <3> TAKE v \in Users
    <3>1. CASE v = u
      BY <2>2, <2>4, <2>5, <2>6, <3>1
    <3>2. CASE v # u
      <4>1. server.running[v] \in TimerNos /\ server.running[v] <= server.started
        BY <1>2, <2>5
      <4> QED
        BY <2>2, <2>4, <2>5, <2>6, <3>2, <4>1 DEF TimerNos
    <3> QED
      BY <3>1, <3>2
  <2>8. server' \in ServerType
    <3>1. server'.running \in [Users -> TimerNos]
      BY <1>3, <2>2, <2>4, <2>5
    <3>2. server' = [server EXCEPT !.started = n, !.running = server'.running]
      BY <1>2, <2>1, <2>4 DEF ServerType
    <3> QED
      BY <1>2, <2>2, <3>1, <3>2 DEF ServerType
  <2>9. "ok" \in Stages /\ "ok" # "refused"
    BY DEF Stages
  <2>10. Replied(calls, calls', i, "ok", r)
    BY <1>2, <2>1, <2>3, <2>9, AnswerReplies
  <2> HIDE DEF r, n
  <2>11. ASSUME session # NoToken, ~unsure
         PROVE  /\ StillTrue(calls', session.of, server')
                /\ RowsRight(calls, session.of, data, server) =>
                     RowsRight(calls', session.of, data, server')
                /\ ClockRight(calls, session.of, timer.current, server) =>
                     ClockRight(calls', session.of, timer.current, server')
    <3>1. /\ session.of = u /\ Len(calls') = Len(calls)
          /\ \A j \in 1..Len(calls) :
               /\ calls'[j].kind = calls[j].kind
               /\ j # i => /\ calls[j].kind \notin {"lists", "current", "start", "stop"}
                           /\ calls'[j].stage = calls[j].stage
          /\ calls'[i].kind = "start" /\ calls'[i].stage = "ok" /\ calls'[i].ret = r
      BY <1>3, <2>10, <2>11 DEF Replied, Reads, Writes
    <3>2. StillTrue(calls, u, server)
      BY <1>3, <2>11
    <3>3. StillTrue(calls', u, server')
      BY <3>1, <3>2 DEF StillTrue, Writes
    <3>4. RowsRight(calls, u, data, server) => RowsRight(calls', u, data, server')
      BY <2>4, <3>1 DEF RowsRight
    <3>5. ClockRight(calls', u, timer.current, server')
      BY <2>3, <2>6, <3>1 DEF ClockRight, Writes
    <3> QED
      BY <3>1, <3>3, <3>4, <3>5
  <2> QED
    BY <1>2, <2>1, <2>3, <2>4, <2>7, <2>8, <2>9, <2>11, AnswerKeeps
<1> QED
  BY <1>4, <1>5

LEMMA ServeStopKeeps ==
  ASSUME IInv, UNCHANGED <<shellVars, login, data, timer, dialog, unsure>>,
         NEW i \in 1..Len(calls), calls[i].stage = "sent", calls[i].kind = "stop",
         Admits(calls[i].token), ServeStop(i, calls[i].token.of)
  PROVE  IInv'
<1> DEFINE u == calls[i].token.of
           n == server.running[u]
           r == [Nothing EXCEPT !.timer = n]
<1>1. Typed
  BY DEF IInv
<1>2. /\ server \in ServerType /\ \A v \in Users : server.running[v] <= server.started
      /\ unsure \in BOOLEAN /\ calls \in Seq(CallType) /\ data \in DataType
  BY <1>1 DEF Typed
<1>3. /\ u \in Users
      /\ session # NoToken /\ ~unsure =>
           /\ session.of = u /\ StillTrue(calls, session.of, server)
           /\ \A j \in 1..Len(calls) : j # i => calls[j].kind \notin Reads \cup Writes
  BY ServedUser DEF Writes
<1>4. CASE n = 0
  <2>1. calls' = Answer(i, "failed", Nothing) /\ server' = server
    BY <1>4 DEF ServeStop
  <2>2. "failed" \in Stages /\ calls[i].kind \in Writes /\ "failed" # "refused" /\ "failed" # "ok"
    BY DEF Stages, Writes
  <2>3. Replied(calls, calls', i, "failed", Nothing)
    BY <1>2, <2>1, <2>2, NothingTyped, AnswerReplies
  <2>4. ASSUME session # NoToken, ~unsure
        PROVE  /\ StillTrue(calls', session.of, server')
               /\ RowsRight(calls, session.of, data, server) =>
                    RowsRight(calls', session.of, data, server')
               /\ ClockRight(calls, session.of, timer.current, server) =>
                    ClockRight(calls', session.of, timer.current, server')
    BY <1>3, <2>1, <2>2, <2>3, <2>4, PlainReply
  <2> QED
    BY <1>2, <2>1, <2>2, <2>4, NothingTyped, AnswerKeeps
<1>5. CASE n # 0
  <2>1. /\ server' = [server EXCEPT !.running[u] = 0, !.ended[u] = Append(@, server.running[u])]
        /\ calls' = Answer(i, "ok", r)
    BY <1>5 DEF ServeStop
  <2>2. /\ server.running \in [Users -> TimerNos] /\ server.started \in 0..MaxTimers
        /\ server.ended \in [Users -> Seq(TimerNos)]
    BY <1>2 DEF ServerType
  <2>3. r \in AnswerType /\ r.timer = n /\ n \in TimerNos
    BY <1>3, <2>2, NothingTyped DEF AnswerType
  <2>4. /\ server'.started = server.started
        /\ server'.expired = server.expired /\ server'.accounts = server.accounts
        /\ server'.running = [server.running EXCEPT ![u] = 0]
        /\ server'.ended = [server.ended EXCEPT ![u] = Append(@, n)]
    BY <1>2, <2>1 DEF ServerType
  <2> HIDE DEF u, n
  <2>5. /\ server'.running[u] = 0 /\ \A v \in Users \ {u} : server'.running[v] = server.running[v]
        /\ server'.ended[u] = Append(server.ended[u], n)
    BY <1>3, <2>2, <2>4
  <2>6. \A v \in Users : server'.running[v] <= server'.started
    BY <1>2, <2>2, <2>4, <2>5
  <2>7. server' \in ServerType
    <3>1. server'.running \in [Users -> TimerNos]
      BY <1>3, <2>2, <2>4, BoundAssumption DEF TimerNos
    <3>2. server'.ended \in [Users -> Seq(TimerNos)]
      <4>1. Append(server.ended[u], n) \in Seq(TimerNos)
        BY <1>3, <2>2, <2>3, AppendProperties
      <4> QED
        BY <1>3, <2>2, <2>4, <4>1
    <3>3. server' = [server EXCEPT !.running = server'.running, !.ended = server'.ended]
      BY <1>2, <2>1, <2>4 DEF ServerType
    <3> QED
      BY <1>2, <3>1, <3>2, <3>3 DEF ServerType
  <2>8. "ok" \in Stages /\ "ok" # "refused"
    BY DEF Stages
  <2>9. Replied(calls, calls', i, "ok", r)
    BY <1>2, <2>1, <2>3, <2>8, AnswerReplies
  <2> HIDE DEF r
  <2>10. ASSUME session # NoToken, ~unsure
         PROVE  /\ StillTrue(calls', session.of, server')
                /\ RowsRight(calls, session.of, data, server) =>
                     RowsRight(calls', session.of, data, server')
                /\ ClockRight(calls, session.of, timer.current, server) =>
                     ClockRight(calls', session.of, timer.current, server')
    <3>1. /\ session.of = u /\ Len(calls') = Len(calls)
          /\ \A j \in 1..Len(calls) :
               /\ calls'[j].kind = calls[j].kind
               /\ j # i => /\ calls[j].kind \notin {"lists", "current", "start", "stop"}
                           /\ calls'[j].stage = calls[j].stage
          /\ calls'[i].kind = "stop" /\ calls'[i].stage = "ok" /\ calls'[i].ret = r
      BY <1>3, <2>9, <2>10 DEF Replied, Reads, Writes
    <3>2. StillTrue(calls, u, server)
      BY <1>3, <2>10
    <3>3. StillTrue(calls', u, server')
      BY <3>1, <3>2 DEF StillTrue, Writes
    <3>4. ASSUME RowsRight(calls, u, data, server)
          PROVE  RowsRight(calls', u, data, server')
      <4>1. \A j \in 1..Len(calls) : ~(calls[j].kind = "stop" /\ calls[j].stage = "ok")
        BY <3>1
      <4>2. data.of = u /\ data.entries = server.ended[u]
        BY <3>4, <4>1 DEF RowsRight
      <4>3. server'.ended[u] = Append(data.entries, calls'[i].ret.timer)
        BY <2>3, <2>5, <3>1, <4>2
      <4> QED
        BY <3>1, <4>2, <4>3 DEF RowsRight
    <3>5. ClockRight(calls', u, timer.current, server')
      BY <2>5, <3>1 DEF ClockRight, Writes
    <3> QED
      BY <3>1, <3>3, <3>4, <3>5
  <2> QED
    BY <1>2, <2>1, <2>3, <2>4, <2>6, <2>7, <2>8, <2>10, AnswerKeeps
<1> QED
  BY <1>4, <1>5

\* An answer after which the timers and entries are what they were.
LEMMA PlainKeeps ==
  ASSUME IInv, UNCHANGED <<shellVars, login, data, timer, dialog, unsure>>,
         NEW i \in 1..Len(calls), calls[i].stage = "sent",
         NEW g \in {"ok", "refused"}, NEW r \in AnswerType, calls' = Answer(i, g, r),
         server' \in ServerType, server'.started = server.started,
         server'.running = server.running, server'.ended = server.ended,
         server'.expired = server.expired, server'.accounts = server.accounts,
         g = "refused" => calls[i].by = NoToken \/ calls[i].by.no \in server.expired,
         g = "ok" => /\ Admits(calls[i].token) /\ calls[i].kind \notin Writes
                     /\ LET u == calls[i].token.of IN
                        /\ calls[i].kind = "lists" => r.entries = server.ended[u]
                        /\ calls[i].kind = "current" => r.timer = server.running[u]
  PROVE  IInv'
<1>1. Typed
  BY DEF IInv
<1>2. /\ \A v \in Users : server.running[v] <= server.started
      /\ unsure \in BOOLEAN /\ calls \in Seq(CallType)
  BY <1>1 DEF Typed
<1>3. \A v \in Users : server'.running[v] <= server'.started
  BY <1>2
<1>4. g \in Stages /\ g # "failed"
  BY DEF Stages
<1>5. Replied(calls, calls', i, g, r)
  BY <1>2, <1>4, AnswerReplies
<1>6. ASSUME session # NoToken, ~unsure
      PROVE  /\ StillTrue(calls', session.of, server')
             /\ RowsRight(calls, session.of, data, server) =>
                  RowsRight(calls', session.of, data, server')
             /\ ClockRight(calls, session.of, timer.current, server) =>
                  ClockRight(calls', session.of, timer.current, server')
  <2>1. StillTrue(calls, session.of, server)
    BY <1>6 DEF IInv, Theirs
  <2>2. g = "ok" => session.of = calls[i].token.of
    BY <1>6, ServedUser
  <2>3. g = "ok" => /\ calls[i].kind \notin Writes
                    /\ calls[i].kind = "lists" => r.entries = server.ended[session.of]
                    /\ calls[i].kind = "current" => r.timer = server.running[session.of]
    BY <2>2
  <2> QED
    BY <1>4, <1>5, <2>1, <2>3, PlainReply
<1> QED
  BY <1>2, <1>3, <1>4, <1>6, AnswerKeeps

LEMMA ServeKeeps ==
  ASSUME IInv, Serve
  PROVE  IInv'
<1>1. Typed /\ Owned(calls, server.expired)
  BY DEF IInv
<1>2. server \in ServerType /\ calls \in Seq(CallType) /\ unsure \in BOOLEAN
  BY <1>1 DEF Typed
<1>4. PICK i \in 1..Len(calls) :
        /\ calls[i].stage = "sent"
        /\ UNCHANGED <<shellVars, login, data, timer, dialog, unsure>>
        /\ CASE calls[i].kind \in Logins -> ServeLogin(i)
             [] OTHER ->
                  IF ~Admits(calls[i].token)
                  THEN calls' = Answer(i, "refused", Nothing) /\ UNCHANGED server
                  ELSE CASE calls[i].kind = "start" -> ServeStart(i, calls[i].token.of)
                         [] calls[i].kind = "stop" -> ServeStop(i, calls[i].token.of)
                         [] calls[i].kind = "save" ->
                              /\ server' = [server EXCEPT
                                              !.zone[calls[i].token.of] = calls[i].zone,
                                              !.configured = @ \cup {calls[i].token.of}]
                              /\ calls' = Answer(i, "ok", Nothing)
                         [] OTHER -> ServeRead(i, calls[i].token.of)
  BY DEF Serve, Logins
<1>3. UNCHANGED <<shellVars, login, data, timer, dialog, unsure>>
  BY <1>4
<1>5. calls[i] \in CallType
  BY <1>2, ElementOfSeq
<1>6. CASE calls[i].kind \in Logins
  BY <1>3, <1>4, <1>6, ServeLoginKeeps
<1>7. CASE calls[i].kind \notin Logins /\ ~Admits(calls[i].token)
  <2>1. calls' = Answer(i, "refused", Nothing) /\ server' = server
    BY <1>4, <1>7
  <2>2. calls[i].by = NoToken \/ calls[i].by.no \in server.expired
    BY <1>1, <1>7 DEF Admits, Owned, Proper
  <2>3. "refused" \in {"ok", "refused"} /\ "refused" # "ok"
    OBVIOUS
  <2> QED
    BY <1>2, <1>3, <1>4, <2>1, <2>2, <2>3, NothingTyped, PlainKeeps
<1>8. CASE calls[i].kind \notin Logins /\ Admits(calls[i].token)
  <2> DEFINE u == calls[i].token.of
  <2>1. u \in Users
    BY <1>8, ServedUser
  <2>2. CASE calls[i].kind = "start"
    BY <1>3, <1>4, <1>8, <2>2, ServeStartKeeps
  <2>3. CASE calls[i].kind = "stop"
    <3>1. ServeStop(i, u)
      BY <1>4, <1>8, <2>3
    <3> QED
      BY <1>3, <1>4, <1>8, <2>3, <3>1, ServeStopKeeps
  <2>4. CASE calls[i].kind = "save"
    <3>1. /\ server' = [server EXCEPT !.zone[u] = calls[i].zone, !.configured = @ \cup {u}]
          /\ calls' = Answer(i, "ok", Nothing)
      BY <1>4, <1>8, <2>4
    <3>2. calls[i].zone \in Zones
      BY <1>5 DEF CallType
    <3> HIDE DEF u
    <3>3. server' \in ServerType
      BY <1>2, <2>1, <3>1, <3>2 DEF ServerType
    <3>4. /\ server'.started = server.started
          /\ server'.running = server.running /\ server'.ended = server.ended
          /\ server'.expired = server.expired /\ server'.accounts = server.accounts
      BY <1>2, <3>1 DEF ServerType
    <3>5. "ok" \in {"ok", "refused"} /\ "ok" # "refused" /\ calls[i].kind \notin Writes
          /\ calls[i].kind # "lists" /\ calls[i].kind # "current"
      BY <2>4 DEF Writes
    <3> QED
      BY <1>3, <1>4, <1>8, <3>1, <3>3, <3>4, <3>5, NothingTyped, PlainKeeps
  <2>5. CASE calls[i].kind \in {"settings", "lists", "current"}
    <3>1. ServeRead(i, u)
      BY <1>4, <1>8, <2>5
    <3> DEFINE r == CASE calls[i].kind = "settings" ->
                           [Nothing EXCEPT !.zone = server.zone[u],
                                           !.configured = u \in server.configured]
                      [] calls[i].kind = "lists" -> [Nothing EXCEPT !.entries = server.ended[u]]
                      [] calls[i].kind = "current" -> [Nothing EXCEPT !.timer = server.running[u]]
    <3>2. server' = server /\ calls' = Answer(i, "ok", r)
      BY <3>1 DEF ServeRead
    <3>3. /\ server.zone[u] \in Zones /\ (u \in server.configured) \in BOOLEAN
          /\ server.ended[u] \in Seq(TimerNos) /\ server.running[u] \in TimerNos
      BY <1>2, <2>1 DEF ServerType
    <3> HIDE DEF u
    <3>4. /\ r \in AnswerType
          /\ calls[i].kind = "lists" => r.entries = server.ended[u]
          /\ calls[i].kind = "current" => r.timer = server.running[u]
      <4>1. CASE calls[i].kind = "settings"
        <5>1. r = [Nothing EXCEPT !.zone = server.zone[u],
                                  !.configured = u \in server.configured]
          BY <4>1
        <5> HIDE DEF r
        <5> QED
          BY <3>3, <4>1, <5>1, NothingTyped DEF AnswerType
      <4>2. CASE calls[i].kind = "lists"
        <5>1. r = [Nothing EXCEPT !.entries = server.ended[u]]
          BY <4>2
        <5> HIDE DEF r
        <5> QED
          BY <3>3, <4>2, <5>1, NothingTyped DEF AnswerType
      <4>3. CASE calls[i].kind = "current"
        <5>1. r = [Nothing EXCEPT !.timer = server.running[u]]
          BY <4>3
        <5> HIDE DEF r
        <5> QED
          BY <3>3, <4>3, <5>1, NothingTyped DEF AnswerType
      <4> QED
        BY <2>5, <4>1, <4>2, <4>3
    <3> HIDE DEF r
    <3>5. "ok" \in {"ok", "refused"} /\ "ok" # "refused" /\ calls[i].kind \notin Writes
      BY <2>5 DEF Writes
    <3> QED
      BY <1>2, <1>3, <1>4, <1>8, <3>2, <3>4, <3>5, PlainKeeps DEF u
  <2>6. calls[i].kind \in {"settings", "lists", "current", "start", "stop", "save"}
    BY <1>5, <1>8 DEF CallType, Kinds
  <2> QED
    BY <2>2, <2>3, <2>4, <2>5, <2>6
<1> QED
  BY <1>6, <1>7, <1>8

LEMMA TroubleKeeps ==
  ASSUME IInv, Trouble
  PROVE  IInv'
<1>1. Typed /\ Owned(calls, server.expired)
  BY DEF IInv
<1>2. /\ server \in ServerType /\ calls \in Seq(CallType) /\ unsure \in BOOLEAN
      /\ \A v \in Users : server.running[v] <= server.started
  BY <1>1 DEF Typed
<1>3. ASSUME Lose PROVE IInv'
  <2>1. PICK i \in 1..Len(calls) : calls' = Answer(i, "failed", Nothing)
    BY <1>3 DEF Lose
  <2>2. unsure' = TRUE /\ server' = server
        /\ UNCHANGED <<shellVars, login, data, timer, dialog>>
    BY <1>3 DEF Lose
  <2>3. "failed" \in Stages /\ "failed" # "refused"
    BY DEF Stages
  <2> QED
    BY <1>2, <2>1, <2>2, <2>3, NothingTyped, AnswerKeeps
<1>4. ASSUME NEW n \in 1..MaxTokens, Lapse(n) PROVE IInv'
  <2>1. /\ server' = [server EXCEPT !.expired = @ \cup {n}]
        /\ UNCHANGED <<shellVars, login, data, timer, dialog, calls, unsure>>
    BY <1>4 DEF Lapse
  <2>2. /\ server' \in ServerType /\ server'.accounts = server.accounts
        /\ server'.running = server.running /\ server'.started = server.started
        /\ server'.ended = server.ended /\ server.expired \subseteq server'.expired
    BY <1>2, <2>1 DEF ServerType
  <2>3. /\ session' = session /\ client' = client /\ ready' = ready /\ loading' = loading
        /\ settings' = settings /\ data' = data /\ timer' = timer /\ calls' = calls
        /\ unsure' = unsure /\ login' = login /\ dialog' = dialog
    BY <2>1 DEF shellVars
  <2>4. Typed'
    BY <1>1, <2>2, <2>3 DEF Typed
  <2>5. Owned(calls', server'.expired)
    BY <1>1, <2>2, <2>3 DEF Owned
  <2>6. session # NoToken /\ ~unsure =>
          Theirs(calls, session, data, timer.current, server', loading)
    BY <2>2 DEF IInv, Theirs, StillTrue, RowsRight, ClockRight
  <2>7. /\ OneLogin(calls', session', login'.busy, server'.accounts)
        /\ ~unsure' => ~Clashing(calls')
        /\ session' # NoToken /\ ~unsure' =>
             Theirs(calls', session', data', timer'.current, server', loading')
    BY <2>2, <2>3, <2>6 DEF IInv
  <2> QED
    BY <2>4, <2>5, <2>7 DEF IInv
<1> QED
  BY <1>3, <1>4 DEF Trouble

-----------------------------------------------------------------------------
(***************************************************************************)
(* The answers.                                                            *)
(***************************************************************************)
LEMMA LoginDoneKeeps ==
  ASSUME IInv, NEW i \in 1..Len(calls), LoginDone(i)
  PROVE  IInv'
<1> DEFINE rest == RemoveAt(calls, i)
<1>1. /\ Typed /\ Owned(calls, server.expired)
      /\ OneLogin(calls, session, login.busy, server.accounts)
  BY DEF IInv
<1>2. /\ server \in ServerType /\ calls \in Seq(CallType) /\ unsure \in BOOLEAN
      /\ \A v \in Users : server.running[v] <= server.started
      /\ ready \in BOOLEAN /\ loading \in BOOLEAN /\ settings \in SettingsType
      /\ data \in DataType /\ timer \in TimerType /\ timer.ticking = (timer.current # 0)
      /\ dialog \in DialogType /\ client = session /\ login \in LoginType
  BY <1>1 DEF Typed
<1>3. calls[i].kind \in Logins /\ Rest(i) = rest
  BY DEF LoginDone, Answered, Logins, Rest
<1>4. session = NoToken /\ \A j \in 1..Len(calls) : j # i => calls[j].kind \notin Logins
  BY <1>1, <1>3 DEF OneLogin
<1>5. rest \in Seq(CallType) /\ Owned(rest, server.expired)
  BY <1>1, <1>2, OneLess, Removed
<1>6. \A k \in 1..Len(rest) : rest[k].kind \notin Logins
  <2> TAKE k \in 1..Len(rest)
  <2>1. PICK j \in 1..Len(calls) : j # i /\ rest[k] = calls[j]
    BY <1>2, RemovedElements
  <2> QED
    BY <1>4, <2>1
<1> HIDE DEF rest
<1>7. CASE Ok(i)
  <2> DEFINE t == calls[i].ret.token
             c == Call("settings", FreshJob(rest), t, t)
             cs == Append(rest, c)
             risky == rest # <<>>
  <2>1. /\ session' = t /\ client' = t /\ login' = EmptyPage /\ loading' = TRUE
        /\ ready' = ready /\ settings' = settings /\ data' = data /\ server' = server
        /\ Finish("daily", cs, timer, dialog, risky)
    BY <1>3, <1>7 DEF LoginDone, Initialise
  <2>2. t \in Tokens
    <3>1. calls[i] \in CallType
      BY <1>2, ElementOfSeq
    <3> QED
      BY <3>1 DEF CallType, AnswerType
  <2>3. Sent(c, "settings", FreshJob(rest), t)
    <3>1. "settings" \in Kinds /\ FreshJob(rest) \in Nat
      BY <1>5, FreshJobIsNumber DEF Kinds
    <3> QED
      BY <2>2, <3>1, NewCall
  <2> HIDE DEF t, c
  <2>4. c \in CallType /\ Proper(c) /\ c.stage = "sent" /\ c.kind \notin Logins
    BY <2>3 DEF Sent, Proper, Logins
  <2>5. cs \in Seq(CallType) /\ Owned(cs, server.expired)
    BY <1>5, <2>4, Appended, OneMore
  <2>6. OneLogin(cs, t, login'.busy, server.accounts)
    <3>1. OneLogin(rest, t, login'.busy, server.accounts)
      BY <1>6 DEF OneLogin
    <3> QED
      BY <1>5, <2>4, <3>1, OneMore
  <2>7. ~risky => Theirs(cs, t, data, timer.current, server, TRUE)
    <3>1. ASSUME ~risky PROVE cs = Append(<<>>, c)
      BY <3>1
    <3> QED
      BY <2>3, <3>1, FirstRequest
  <2>8. risky \in BOOLEAN /\ login' \in LoginType
    BY <2>1 DEF EmptyPage, LoginType
  <2> HIDE DEF cs, risky
  <2> QED
    BY <1>2, <2>1, <2>2, <2>5, <2>6, <2>7, <2>8, FinishKeeps
<1>8. CASE ~Ok(i)
  <2>1. /\ session' = NoToken /\ client' = NoToken
        /\ login' = [login EXCEPT !.busy = FALSE, !.persona = FALSE, !.error = TRUE]
        /\ ready' = ready /\ loading' = loading
        /\ settings' = settings /\ data' = data /\ server' = server
        /\ Finish(page, rest, timer, dialog, FALSE)
    BY <1>2, <1>3, <1>4, <1>8 DEF LoginDone
  <2>2. login' \in LoginType
    BY <1>2, <2>1 DEF LoginType
  <2>3. OneLogin(rest, session', login'.busy, server'.accounts)
    BY <1>6 DEF OneLogin
  <2>4. FALSE \in BOOLEAN /\ NoToken \in Tokens
    BY NothingTyped
  <2> QED
    BY <1>2, <1>5, <2>1, <2>2, <2>3, <2>4, FinishKeeps
<1> QED
  BY <1>7, <1>8

\* A refused request signs out, any other leaves the session.
LEMMA SignOutDoes ==
  ASSUME IInv, NEW i \in 1..Len(calls), SignOut(i)
  PROVE  /\ session' \in Tokens /\ client' = session' /\ login' \in LoginType
         /\ \A cs, a : OneLogin(cs, session, login.busy, a)
                         => OneLogin(cs, session', login'.busy, a)
         /\ StillReady(i) \in BOOLEAN /\ StillLoading(i) \in BOOLEAN
         /\ session' # NoToken =>
              session' = session /\ ~Refused(i) /\ StillLoading(i) = loading
<1>1. /\ session \in Tokens /\ client = session /\ login \in LoginType
      /\ ready \in BOOLEAN /\ loading \in BOOLEAN
  BY DEF IInv, Typed
<1>2. /\ session' = IF Refused(i) THEN NoToken ELSE session
      /\ client' = IF Refused(i) THEN NoToken ELSE client
      /\ login' = CASE Refused(i) /\ session # NoToken -> EmptyPage
                    [] Refused(i) /\ session = NoToken -> [login EXCEPT !.error = FALSE]
                    [] OTHER -> login
  BY DEF SignOut
<1>3. session' \in Tokens /\ client' = session'
  BY <1>1, <1>2, NothingTyped
<1>4. CASE Refused(i) /\ session # NoToken
  <2>1. login' = EmptyPage /\ session' = NoToken
    BY <1>2, <1>4
  <2>2. login' \in LoginType
    BY <2>1 DEF EmptyPage, LoginType
  <2>3. ASSUME NEW cs, NEW a, OneLogin(cs, session, login.busy, a)
        PROVE  OneLogin(cs, session', login'.busy, a)
    BY <1>4, <2>3 DEF OneLogin
  <2> QED
    BY <1>1, <1>3, <2>1, <2>2, <2>3 DEF StillReady, StillLoading
<1>5. CASE Refused(i) /\ session = NoToken
  <2>1. login' = [login EXCEPT !.error = FALSE] /\ session' = NoToken
    BY <1>2, <1>5
  <2>2. login' \in LoginType /\ login'.busy = login.busy
    BY <1>1, <2>1 DEF LoginType
  <2> QED
    BY <1>1, <1>3, <1>5, <2>1, <2>2 DEF StillReady, StillLoading
<1>6. CASE ~Refused(i)
  <2>1. login' = login /\ session' = session
    BY <1>2, <1>6
  <2> QED
    BY <1>1, <1>3, <1>6, <2>1 DEF StillReady, StillLoading
<1> QED
  BY <1>4, <1>5, <1>6

\* What is left to show of an answer to a request of a session.
LEMMA ArrivalKeeps ==
  ASSUME IInv, NEW i \in 1..Len(calls), SignOut(i), server' = server,
         NEW cs \in Seq(CallType), NEW t \in TimerType, NEW d \in DialogType, NEW p,
         t.ticking = (t.current # 0),
         Finish(p, cs, t, d, FALSE),
         ready' \in BOOLEAN, loading' \in BOOLEAN, settings' \in SettingsType,
         data' \in DataType,
         Owned(cs, server.expired),
         OneLogin(cs, session, login.busy, server.accounts),
         session # NoToken /\ session' = session /\ ~unsure /\ ~Refused(i) =>
           Theirs(cs, session, data', t.current, server, loading')
  PROVE  IInv'
<1>1. /\ server \in ServerType /\ unsure \in BOOLEAN
      /\ \A v \in Users : server.running[v] <= server.started
  BY DEF IInv, Typed
<1>2. /\ session' \in Tokens /\ client' = session' /\ login' \in LoginType
      /\ OneLogin(cs, session', login'.busy, server.accounts)
      /\ session' # NoToken => session' = session /\ ~Refused(i)
  BY SignOutDoes
<1>3. /\ server' \in ServerType
      /\ \A v \in Users : server'.running[v] <= server'.started
      /\ Owned(cs, server'.expired)
      /\ OneLogin(cs, session', login'.busy, server'.accounts)
  BY <1>1, <1>2
<1>4. session' # NoToken /\ ~unsure =>
        Theirs(cs, session', data', t.current, server', loading')
  BY <1>2
<1>5. FALSE \in BOOLEAN
  OBVIOUS
<1> QED
  BY <1>1, <1>2, <1>3, <1>4, <1>5, FinishKeeps

\* What is known of the request that is answered.
LEMMA ArrivalFacts ==
  ASSUME IInv, NEW i \in 1..Len(calls), calls[i].stage # "sent"
  PROVE  /\ Typed /\ calls \in Seq(CallType) /\ calls[i] \in CallType
         /\ Rest(i) \in Seq(CallType)
         /\ Owned(Rest(i), server.expired)
         /\ OneLogin(Rest(i), session, login.busy, server.accounts)
         /\ session # NoToken /\ ~unsure =>
              /\ Theirs(calls, session, data, timer.current, server, loading)
              /\ calls[i].token = session
              /\ calls[i].kind \in Reads =>
                   \A k \in 1..Len(Rest(i)) : Rest(i)[k].kind \notin Writes
              /\ calls[i].kind \in Writes =>
                   \A k \in 1..Len(Rest(i)) : Rest(i)[k].kind \notin Reads \cup Writes
<1>1. /\ Typed /\ Owned(calls, server.expired)
      /\ OneLogin(calls, session, login.busy, server.accounts)
  BY DEF IInv
<1>2. calls \in Seq(CallType)
  BY <1>1 DEF Typed
<1>3. calls[i] \in CallType
  BY <1>2, ElementOfSeq
<1>4. /\ Rest(i) \in Seq(CallType) /\ Owned(Rest(i), server.expired)
      /\ OneLogin(Rest(i), session, login.busy, server.accounts)
  BY <1>1, <1>2, OneLess, Removed DEF Rest
<1>5. ASSUME session # NoToken, ~unsure
      PROVE  /\ Theirs(calls, session, data, timer.current, server, loading)
             /\ calls[i].token = session
             /\ calls[i].kind \in Reads =>
                  \A k \in 1..Len(Rest(i)) : Rest(i)[k].kind \notin Writes
             /\ calls[i].kind \in Writes =>
                  \A k \in 1..Len(Rest(i)) : Rest(i)[k].kind \notin Reads \cup Writes
  <2>1. Theirs(calls, session, data, timer.current, server, loading) /\ ~Clashing(calls)
    BY <1>5 DEF IInv
  <2>2. calls[i].token = session
    BY <2>1 DEF Theirs, Mine
  <2>3. ASSUME NEW k \in 1..Len(Rest(i))
        PROVE  /\ calls[i].kind \in Reads => Rest(i)[k].kind \notin Writes
               /\ calls[i].kind \in Writes => Rest(i)[k].kind \notin Reads \cup Writes
    <3>1. PICK j \in 1..Len(calls) : j # i /\ Rest(i)[k] = calls[j]
      BY <1>2, RemovedElements DEF Rest
    <3> QED
      BY <2>1, <3>1 DEF Clashing
  <2> QED
    BY <2>1, <2>2, <2>3
<1> QED
  BY <1>1, <1>2, <1>3, <1>4, <1>5

\* An initialisation does not end while another of its requests is awaited.
LEMMA NotTheEnd ==
  ASSUME NEW i \in 1..Len(calls), NEW k, NEW l, Awaited(calls, k, l),
         calls[i].kind \notin {"settings", k}
  PROVE  ~Ends(i)
BY DEF Awaited, Ends

LEMMA ListsDoneKeeps ==
  ASSUME IInv, NEW i \in 1..Len(calls), ListsDone(i)
  PROVE  IInv'
<1> DEFINE r == Rest(i)
<1>1. /\ calls[i].kind = "lists" /\ calls[i].stage # "sent" /\ SignOut(i) /\ InitDone(i)
      /\ data' = IF Ok(i) THEN [of |-> calls[i].token.of, entries |-> calls[i].ret.entries]
                          ELSE data
      /\ settings' = settings /\ server' = server
      /\ Finish(page, r, timer, dialog, FALSE)
  BY DEF ListsDone, Answered
<1>2. /\ Typed /\ calls \in Seq(CallType) /\ calls[i] \in CallType /\ r \in Seq(CallType)
      /\ Owned(r, server.expired)
      /\ OneLogin(r, session, login.busy, server.accounts)
      /\ session # NoToken /\ ~unsure =>
           /\ Theirs(calls, session, data, timer.current, server, loading)
           /\ calls[i].token = session
           /\ \A k \in 1..Len(r) : r[k].kind \notin Writes
  BY <1>1, ArrivalFacts DEF Reads
<1>3. r = RemoveAt(calls, i)
  BY DEF Rest
<1> HIDE DEF r
<1>4. /\ timer \in TimerType /\ timer.ticking = (timer.current # 0) /\ dialog \in DialogType
      /\ settings \in SettingsType /\ data \in DataType
  BY <1>2 DEF Typed
<1>5. StillReady(i) \in BOOLEAN /\ StillLoading(i) \in BOOLEAN
      /\ (session' # NoToken => StillLoading(i) = loading)
  BY <1>1, SignOutDoes
<1>6. ready' \in BOOLEAN /\ loading' \in BOOLEAN /\ loading' = (StillLoading(i) /\ ~Ends(i))
  BY <1>1, <1>5 DEF InitDone
<1>7. data' \in DataType
  <2>1. [of |-> calls[i].token.of, entries |-> calls[i].ret.entries] \in DataType
    BY <1>2 DEF CallType, AnswerType, Tokens, NoToken, DataType
  <2> QED
    BY <1>1, <1>4, <2>1
<1>8. ASSUME session # NoToken, session' = session, ~unsure, ~Refused(i)
      PROVE  Theirs(r, session, data', timer.current, server, loading')
  <2>1. /\ Theirs(calls, session, data, timer.current, server, loading)
        /\ calls[i].token = session
        /\ \A k \in 1..Len(r) : r[k].kind \notin Writes
    BY <1>2, <1>8
  <2>2. Ok(i)
    <3>1. calls[i].stage # "failed"
      BY <1>1, <2>1 DEF Theirs, StillTrue, Writes
    <3> QED
      BY <1>1, <1>2, <1>8, <3>1 DEF CallType, Ok, Refused
  <2>3. data'.of = session.of /\ data'.entries = server.ended[session.of]
    <3>1. calls[i].ret.entries = server.ended[session.of]
      BY <1>1, <2>1, <2>2 DEF Theirs, StillTrue, Ok
    <3>2. data' = [of |-> calls[i].token.of, entries |-> calls[i].ret.entries]
      BY <1>1, <2>2
    <3> QED
      BY <2>1, <3>1, <3>2
  <2>4. RowsRight(r, session.of, data', server)
    <3>1. \A k \in 1..Len(r) : r[k].kind # "stop"
      BY <2>1 DEF Writes
    <3> QED
      BY <2>3, <3>1 DEF RowsRight
  <2>5. Mine(r, session) /\ StillTrue(r, session.of, server)
    BY <1>2, <1>3, <2>1, OneLess DEF Theirs
  <2>6. Awaited(r, "current", loading') \/ ClockRight(r, session.of, timer.current, server)
    <3>1. calls[i].kind \notin {"settings", "current"} /\ calls[i].kind \notin Writes
      BY <1>1 DEF Writes
    <3>2. CASE Awaited(calls, "current", loading)
      <4>1. ~Ends(i)
        BY <3>1, <3>2, NotTheEnd
      <4>2. loading' = loading
        BY <1>5, <1>6, <1>8, <4>1
      <4> QED
        BY <1>2, <1>3, <3>1, <3>2, <4>2, OneLess
    <3>3. CASE ClockRight(calls, session.of, timer.current, server)
      BY <1>2, <1>3, <3>1, <3>3, OneLess
    <3> QED
      BY <2>1, <3>2, <3>3 DEF Theirs
  <2> QED
    BY <2>4, <2>5, <2>6 DEF Theirs
<1> QED
  BY <1>1, <1>2, <1>4, <1>6, <1>7, <1>8, ArrivalKeeps

LEMMA CurrentDoneKeeps ==
  ASSUME IInv, NEW i \in 1..Len(calls), CurrentDone(i)
  PROVE  IInv'
<1> DEFINE r == Rest(i)
           t == IF Ok(i) THEN Fetched(calls[i].ret.timer) ELSE [timer EXCEPT !.loading = FALSE]
<1>1. /\ calls[i].kind = "current" /\ calls[i].stage # "sent" /\ SignOut(i) /\ InitDone(i)
      /\ settings' = settings /\ data' = data /\ server' = server
      /\ Finish(page, r, t, dialog, FALSE)
  BY DEF CurrentDone, Answered
<1>2. /\ Typed /\ calls \in Seq(CallType) /\ calls[i] \in CallType /\ r \in Seq(CallType)
      /\ Owned(r, server.expired)
      /\ OneLogin(r, session, login.busy, server.accounts)
      /\ session # NoToken /\ ~unsure =>
           /\ Theirs(calls, session, data, timer.current, server, loading)
           /\ \A k \in 1..Len(r) : r[k].kind \notin Writes
  BY <1>1, ArrivalFacts DEF Reads
<1>3. r = RemoveAt(calls, i)
  BY DEF Rest
<1> HIDE DEF r
<1>4. /\ timer \in TimerType /\ timer.ticking = (timer.current # 0) /\ dialog \in DialogType
      /\ settings \in SettingsType /\ data \in DataType
  BY <1>2 DEF Typed
<1>5. StillReady(i) \in BOOLEAN /\ StillLoading(i) \in BOOLEAN
      /\ (session' # NoToken => StillLoading(i) = loading)
  BY <1>1, SignOutDoes
<1>6. ready' \in BOOLEAN /\ loading' \in BOOLEAN /\ loading' = (StillLoading(i) /\ ~Ends(i))
  BY <1>1, <1>5 DEF InitDone
<1>7. t \in TimerType /\ t.ticking = (t.current # 0)
      /\ (Ok(i) => t.current = calls[i].ret.timer)
  <2>1. calls[i].ret.timer \in TimerNos
    BY <1>2 DEF CallType, AnswerType
  <2>2. CASE Ok(i)
    BY <2>1, <2>2 DEF Fetched, TimerType
  <2>3. CASE ~Ok(i)
    BY <1>4, <2>3 DEF TimerType
  <2> QED
    BY <2>2, <2>3
<1> HIDE DEF t
<1>8. ASSUME session # NoToken, session' = session, ~unsure, ~Refused(i)
      PROVE  Theirs(r, session, data', t.current, server, loading')
  <2>1. /\ Theirs(calls, session, data, timer.current, server, loading)
        /\ \A k \in 1..Len(r) : r[k].kind \notin Writes
    BY <1>2, <1>8
  <2>2. Ok(i)
    <3>1. calls[i].stage # "failed"
      BY <1>1, <2>1 DEF Theirs, StillTrue, Writes
    <3> QED
      BY <1>1, <1>2, <1>8, <3>1 DEF CallType, Ok, Refused
  <2>3. t.current = server.running[session.of]
    BY <1>1, <1>7, <2>1, <2>2 DEF Theirs, StillTrue, Ok
  <2>4. ClockRight(r, session.of, t.current, server)
    BY <2>1, <2>3 DEF ClockRight, Writes
  <2>5. Mine(r, session) /\ StillTrue(r, session.of, server)
    BY <1>2, <1>3, <2>1, OneLess DEF Theirs
  <2>6. Awaited(r, "lists", loading') \/ RowsRight(r, session.of, data, server)
    <3>1. calls[i].kind \notin {"settings", "lists"} /\ calls[i].kind # "stop"
      BY <1>1
    <3>2. CASE Awaited(calls, "lists", loading)
      <4>1. ~Ends(i)
        BY <3>1, <3>2, NotTheEnd
      <4>2. loading' = loading
        BY <1>5, <1>6, <1>8, <4>1
      <4> QED
        BY <1>2, <1>3, <3>1, <3>2, <4>2, OneLess
    <3>3. CASE RowsRight(calls, session.of, data, server)
      BY <1>2, <1>3, <3>1, <3>3, OneLess
    <3> QED
      BY <2>1, <3>2, <3>3 DEF Theirs
  <2> QED
    BY <1>1, <2>4, <2>5, <2>6 DEF Theirs
<1>9. settings' \in SettingsType /\ data' \in DataType
  BY <1>1, <1>4
<1> QED
  BY <1>1, <1>2, <1>4, <1>6, <1>7, <1>8, <1>9, ArrivalKeeps

LEMMA StartDoneKeeps ==
  ASSUME IInv, NEW i \in 1..Len(calls), StartDone(i)
  PROVE  IInv'
<1> DEFINE r == Rest(i)
           t == IF Ok(i) THEN Fetched(calls[i].ret.timer) ELSE [timer EXCEPT !.loading = FALSE]
<1>1. /\ calls[i].kind = "start" /\ calls[i].stage # "sent" /\ SignOut(i)
      /\ ready' = StillReady(i) /\ loading' = StillLoading(i)
      /\ settings' = settings /\ data' = data /\ server' = server
      /\ Finish(page, r, t, NoDialog, FALSE)
  BY DEF StartDone, Answered
<1>2. /\ Typed /\ calls \in Seq(CallType) /\ calls[i] \in CallType /\ r \in Seq(CallType)
      /\ Owned(r, server.expired)
      /\ OneLogin(r, session, login.busy, server.accounts)
      /\ session # NoToken /\ ~unsure =>
           /\ Theirs(calls, session, data, timer.current, server, loading)
           /\ \A k \in 1..Len(r) : r[k].kind \notin Reads \cup Writes
  BY <1>1, ArrivalFacts DEF Writes
<1>3. r = RemoveAt(calls, i)
  BY DEF Rest
<1> HIDE DEF r
<1>4. /\ timer \in TimerType /\ timer.ticking = (timer.current # 0)
      /\ settings \in SettingsType /\ data \in DataType
  BY <1>2 DEF Typed
<1>5. NoDialog \in DialogType
  BY DEF NoDialog, DialogType
<1>6. StillReady(i) \in BOOLEAN /\ StillLoading(i) \in BOOLEAN
      /\ (session' # NoToken => StillLoading(i) = loading)
  BY <1>1, SignOutDoes
<1>7. /\ t \in TimerType /\ t.ticking = (t.current # 0)
      /\ Ok(i) => t.current = calls[i].ret.timer
      /\ ~Ok(i) => t.current = timer.current
  <2>1. calls[i].ret.timer \in TimerNos
    BY <1>2 DEF CallType, AnswerType
  <2>2. CASE Ok(i)
    BY <2>1, <2>2 DEF Fetched, TimerType
  <2>3. CASE ~Ok(i)
    BY <1>4, <2>3 DEF TimerType
  <2> QED
    BY <2>2, <2>3
<1> HIDE DEF t
<1>8. ASSUME session # NoToken, session' = session, ~unsure, ~Refused(i)
      PROVE  Theirs(r, session, data', t.current, server, loading')
  <2>1. /\ Theirs(calls, session, data, timer.current, server, loading)
        /\ \A k \in 1..Len(r) : r[k].kind \notin Reads \cup Writes
    BY <1>2, <1>8
  <2>2. loading' = loading /\ data' = data
    BY <1>1, <1>6, <1>8
  <2>3. Mine(r, session) /\ StillTrue(r, session.of, server)
    BY <1>2, <1>3, <2>1, OneLess DEF Theirs
  <2>4. Awaited(r, "lists", loading) \/ RowsRight(r, session.of, data, server)
    <3>1. calls[i].kind \notin {"settings", "lists"} /\ calls[i].kind # "stop"
      BY <1>1
    <3> QED
      BY <1>2, <1>3, <2>1, <3>1, OneLess DEF Theirs
  <2>5. Awaited(r, "current", loading) \/ ClockRight(r, session.of, t.current, server)
    <3>1. calls[i].kind \notin {"settings", "current"}
      BY <1>1
    <3>2. CASE Awaited(calls, "current", loading)
      BY <1>2, <1>3, <3>1, <3>2, OneLess
    <3>3. CASE ClockRight(calls, session.of, timer.current, server) /\ Ok(i)
      <4>1. t.current = server.running[session.of]
        BY <1>1, <1>7, <3>3 DEF ClockRight, Ok
      <4> QED
        BY <2>1, <4>1 DEF ClockRight, Writes
    <3>4. CASE ClockRight(calls, session.of, timer.current, server) /\ ~Ok(i)
      <4>1. t.current = timer.current /\ ~(calls[i].kind \in Writes /\ calls[i].stage = "ok")
        BY <1>7, <3>4 DEF Ok
      <4>2. ClockRight(r, session.of, timer.current, server)
        BY <1>2, <1>3, <3>4, <4>1, OneLess
      <4> QED
        BY <4>1, <4>2
    <3> QED
      BY <2>1, <3>2, <3>3, <3>4 DEF Theirs
  <2> QED
    BY <2>2, <2>3, <2>4, <2>5 DEF Theirs
<1>9. /\ settings' \in SettingsType /\ data' \in DataType
      /\ ready' \in BOOLEAN /\ loading' \in BOOLEAN
  BY <1>1, <1>4, <1>6
<1> QED
  BY <1>1, <1>2, <1>5, <1>7, <1>8, <1>9, ArrivalKeeps

LEMMA StopDoneKeeps ==
  ASSUME IInv, NEW i \in 1..Len(calls), StopDone(i)
  PROVE  IInv'
<1> DEFINE r == Rest(i)
           t == IF Ok(i) THEN NoTimer ELSE [timer EXCEPT !.loading = FALSE]
           e == Append(data.entries, calls[i].ret.timer)
<1>1. /\ calls[i].kind = "stop" /\ calls[i].stage # "sent" /\ SignOut(i)
      /\ ready' = StillReady(i) /\ loading' = StillLoading(i)
      /\ data' = IF Ok(i) THEN [data EXCEPT !.entries = e] ELSE data
      /\ settings' = settings /\ server' = server
      /\ Finish(page, r, t, dialog, FALSE)
  BY DEF StopDone, Answered
<1>2. /\ Typed /\ calls \in Seq(CallType) /\ calls[i] \in CallType /\ r \in Seq(CallType)
      /\ Owned(r, server.expired)
      /\ OneLogin(r, session, login.busy, server.accounts)
      /\ session # NoToken /\ ~unsure =>
           /\ Theirs(calls, session, data, timer.current, server, loading)
           /\ \A k \in 1..Len(r) : r[k].kind \notin Reads \cup Writes
  BY <1>1, ArrivalFacts DEF Writes
<1>3. r = RemoveAt(calls, i)
  BY DEF Rest
<1> HIDE DEF r
<1>4. /\ timer \in TimerType /\ timer.ticking = (timer.current # 0)
      /\ settings \in SettingsType /\ data \in DataType /\ dialog \in DialogType
  BY <1>2 DEF Typed
<1>5. data' \in DataType
      /\ (Ok(i) => data'.of = data.of /\ data'.entries = e)
      /\ (~Ok(i) => data' = data)
  <2>1. e \in Seq(TimerNos)
    <3>1. calls[i].ret.timer \in TimerNos /\ data.entries \in Seq(TimerNos)
      BY <1>2, <1>4 DEF CallType, AnswerType, DataType
    <3> QED
      BY <3>1, AppendProperties
  <2> HIDE DEF e
  <2> QED
    BY <1>1, <1>4, <2>1 DEF DataType
<1>6. StillReady(i) \in BOOLEAN /\ StillLoading(i) \in BOOLEAN
      /\ (session' # NoToken => StillLoading(i) = loading)
  BY <1>1, SignOutDoes
<1>7. /\ t \in TimerType /\ t.ticking = (t.current # 0)
      /\ Ok(i) => t.current = 0
      /\ ~Ok(i) => t.current = timer.current
  <2>1. 0 \in TimerNos
    BY BoundAssumption DEF TimerNos
  <2>2. CASE Ok(i)
    BY <2>1, <2>2 DEF NoTimer, TimerType
  <2>3. CASE ~Ok(i)
    BY <1>4, <2>3 DEF TimerType
  <2> QED
    BY <2>2, <2>3
<1> HIDE DEF t
<1>8. ASSUME session # NoToken, session' = session, ~unsure, ~Refused(i)
      PROVE  Theirs(r, session, data', t.current, server, loading')
  <2>1. /\ Theirs(calls, session, data, timer.current, server, loading)
        /\ \A k \in 1..Len(r) : r[k].kind \notin Reads \cup Writes
    BY <1>2, <1>8
  <2>2. loading' = loading
    BY <1>1, <1>6, <1>8
  <2>3. Mine(r, session) /\ StillTrue(r, session.of, server)
    BY <1>2, <1>3, <2>1, OneLess DEF Theirs
  <2>4. \A k \in 1..Len(r) : r[k].kind # "start" /\ r[k].kind # "stop"
    BY <2>1 DEF Writes
  <2>5. Awaited(r, "lists", loading) \/ RowsRight(r, session.of, data', server)
    <3>1. calls[i].kind \notin {"settings", "lists"}
      BY <1>1
    <3>2. CASE Awaited(calls, "lists", loading)
      BY <1>2, <1>3, <3>1, <3>2, OneLess
    <3>3. CASE RowsRight(calls, session.of, data, server) /\ Ok(i)
      <4>1. data.of = session.of /\ server.ended[session.of] = e
        BY <1>1, <3>3 DEF RowsRight, Ok
      <4>2. data'.of = session.of /\ data'.entries = server.ended[session.of]
        BY <1>5, <3>3, <4>1
      <4> QED
        BY <2>4, <4>2 DEF RowsRight
    <3>4. CASE RowsRight(calls, session.of, data, server) /\ ~Ok(i)
      <4>1. data' = data /\ ~(calls[i].kind = "stop" /\ calls[i].stage = "ok")
        BY <1>5, <3>4 DEF Ok
      <4>2. RowsRight(r, session.of, data, server)
        BY <1>2, <1>3, <3>4, <4>1, OneLess
      <4> QED
        BY <4>1, <4>2
    <3> QED
      BY <2>1, <3>2, <3>3, <3>4 DEF Theirs
  <2>6. Awaited(r, "current", loading) \/ ClockRight(r, session.of, t.current, server)
    <3>1. calls[i].kind \notin {"settings", "current"}
      BY <1>1
    <3>2. CASE Awaited(calls, "current", loading)
      BY <1>2, <1>3, <3>1, <3>2, OneLess
    <3>3. CASE ClockRight(calls, session.of, timer.current, server) /\ Ok(i)
      <4>1. t.current = server.running[session.of]
        BY <1>1, <1>7, <3>3 DEF ClockRight, Ok
      <4> QED
        BY <2>4, <4>1 DEF ClockRight, Writes
    <3>4. CASE ClockRight(calls, session.of, timer.current, server) /\ ~Ok(i)
      <4>1. t.current = timer.current /\ ~(calls[i].kind \in Writes /\ calls[i].stage = "ok")
        BY <1>7, <3>4 DEF Ok
      <4>2. ClockRight(r, session.of, timer.current, server)
        BY <1>2, <1>3, <3>4, <4>1, OneLess
      <4> QED
        BY <4>1, <4>2
    <3> QED
      BY <2>1, <3>2, <3>3, <3>4 DEF Theirs
  <2> QED
    BY <2>2, <2>3, <2>5, <2>6 DEF Theirs
<1>9. settings' \in SettingsType /\ ready' \in BOOLEAN /\ loading' \in BOOLEAN
  BY <1>1, <1>4, <1>6
<1> QED
  BY <1>1, <1>2, <1>4, <1>5, <1>7, <1>8, <1>9, ArrivalKeeps

LEMMA SaveDoneKeeps ==
  ASSUME IInv, NEW i \in 1..Len(calls), SaveDone(i)
  PROVE  IInv'
<1> DEFINE r == Rest(i)
<1>1. /\ calls[i].kind = "save" /\ calls[i].stage # "sent" /\ SignOut(i)
      /\ ready' = StillReady(i) /\ loading' = StillLoading(i)
      /\ settings' = settings /\ data' = data /\ server' = server
      /\ Finish("daily", r, timer, dialog, FALSE)
  BY DEF SaveDone, Answered
<1>2. /\ Typed /\ calls \in Seq(CallType) /\ r \in Seq(CallType)
      /\ Owned(r, server.expired)
      /\ OneLogin(r, session, login.busy, server.accounts)
      /\ session # NoToken /\ ~unsure =>
           Theirs(calls, session, data, timer.current, server, loading)
  BY <1>1, ArrivalFacts
<1>3. r = RemoveAt(calls, i)
  BY DEF Rest
<1> HIDE DEF r
<1>4. StillReady(i) \in BOOLEAN /\ StillLoading(i) \in BOOLEAN
      /\ (session' # NoToken => StillLoading(i) = loading)
  BY <1>1, SignOutDoes
<1>5. ASSUME session # NoToken, session' = session, ~unsure, ~Refused(i)
      PROVE  Theirs(r, session, data', timer.current, server, loading')
  <2>1. Theirs(calls, session, data, timer.current, server, loading)
    BY <1>2, <1>5
  <2>2. calls[i].kind \in Logins \cup {"save"}
    BY <1>1
  <2>3. Theirs(r, session, data, timer.current, server, loading)
    BY <1>2, <1>3, <2>1, <2>2, StillTheirs
  <2> QED
    BY <1>1, <1>4, <1>5, <2>3
<1>6. /\ settings' \in SettingsType /\ data' \in DataType
      /\ ready' \in BOOLEAN /\ loading' \in BOOLEAN
      /\ timer \in TimerType /\ timer.ticking = (timer.current # 0) /\ dialog \in DialogType
  BY <1>1, <1>2, <1>4 DEF Typed
<1> QED
  BY <1>1, <1>2, <1>5, <1>6, ArrivalKeeps

LEMMA TwoMore ==
  ASSUME NEW S, NEW s \in Seq(S), NEW a \in S, NEW b \in S
  PROVE  s \o <<a, b>> = Append(Append(s, a), b)
<1> DEFINE w == <<a, b>>
           x == Append(Append(s, a), b)
           n == Len(s)
<1>1. w \in Seq(S) /\ Len(w) = 2 /\ w[1] = a /\ w[2] = b
  OBVIOUS
<1>2. /\ x \in Seq(S) /\ Len(x) = n + 2 /\ n \in Nat
      /\ \A k \in 1..n : x[k] = s[k]
      /\ x[n + 1] = a /\ x[n + 2] = b
  <2> DEFINE y == Append(s, a)
  <2>1. /\ y \in Seq(S) /\ Len(y) = n + 1 /\ n \in Nat
        /\ \A k \in 1..n : y[k] = s[k]
        /\ y[n + 1] = a
    BY Appended
  <2> HIDE DEF y
  <2>2. /\ Append(y, b) \in Seq(S) /\ Len(Append(y, b)) = Len(y) + 1
        /\ \A k \in 1..Len(y) : Append(y, b)[k] = y[k]
        /\ Append(y, b)[Len(y) + 1] = b
    BY <2>1, Appended
  <2> QED
    BY <2>1, <2>2 DEF y
<1> HIDE DEF w, x
<1>3. /\ s \o w \in Seq(S) /\ Len(s \o w) = n + Len(w)
      /\ \A k \in 1..(n + Len(w)) : (s \o w)[k] = IF k <= n THEN s[k] ELSE w[k - n]
  BY <1>1, ConcatProperties
<1> HIDE DEF n
<1>4. ASSUME NEW k \in 1..(n + 2)
      PROVE  (s \o w)[k] = x[k]
  <2>1. CASE k <= n
    <3>1. (s \o w)[k] = s[k]
      BY <1>1, <1>2, <1>3, <2>1
    <3>2. x[k] = s[k]
      BY <1>1, <1>2, <2>1
    <3> QED
      BY <3>1, <3>2
  <2>2. CASE k = n + 1
    <3>1. (s \o w)[k] = w[k - n] /\ k - n = 1
      BY <1>1, <1>2, <1>3, <2>2
    <3> QED
      BY <1>1, <1>2, <2>2, <3>1
  <2>3. CASE k = n + 2
    <3>1. (s \o w)[k] = w[k - n] /\ k - n = 2
      BY <1>1, <1>2, <1>3, <2>3
    <3> QED
      BY <1>1, <1>2, <2>3, <3>1
  <2>4. n \in Nat
    BY <1>2
  <2>5. k <= n \/ k = n + 1 \/ k = n + 2
    BY <2>4
  <2> QED
    BY <2>1, <2>2, <2>3, <2>5
<1>5. s \o w = x
  <2>1. Len(s \o w) = Len(x)
    BY <1>1, <1>2, <1>3
  <2>2. \A k \in 1..Len(s \o w) : (s \o w)[k] = x[k]
    BY <1>2, <1>4, <2>1
  <2> QED
    BY <1>2, <1>3, <2>1, <2>2, SeqEqual
<1> QED
  BY <1>5 DEF w, x

(* The settings hand their job over to the lists and the timer.             *)
LEMMA HandedOver ==
  ASSUME NEW cs \in Seq(CallType), NEW i \in 1..Len(cs), cs[i].kind = "settings",
         NEW s, NEW L, NEW C,
         Sent(L, "lists", cs[i].job, s), Sent(C, "current", cs[i].job, s)
  PROVE  LET next == Append(Append(RemoveAt(cs, i), L), C) IN
         /\ next \in Seq(CallType)
         /\ \A x : Owned(cs, x) => Owned(next, x)
         /\ \A b, a, z : OneLogin(cs, z, b, a) => OneLogin(next, z, b, a)
         /\ \A d, t, sv, l : Theirs(cs, s, d, t, sv, l) => Theirs(next, s, d, t, sv, l)
<1> DEFINE r == RemoveAt(cs, i)
           m == Append(r, L)
           next == Append(m, C)
<1>1. r \in Seq(CallType)
  BY Removed
<1>2. /\ \A x : Owned(cs, x) => Owned(r, x)
      /\ \A z, b, a : OneLogin(cs, z, b, a) => OneLogin(r, z, b, a)
      /\ \A z : Mine(cs, z) => Mine(r, z)
      /\ \A u, sv : StillTrue(cs, u, sv) => StillTrue(r, u, sv)
      /\ \A u, d, sv : RowsRight(cs, u, d, sv) => RowsRight(r, u, d, sv)
      /\ \A u, t, sv : ClockRight(cs, u, t, sv) => ClockRight(r, u, t, sv)
  <2>1. cs[i].kind # "stop" /\ cs[i].kind \notin Writes
    BY DEF Writes
  <2> QED
    BY <2>1, OneLess
<1>3. /\ \A k \in 1..Len(r) : \E j \in 1..Len(cs) : j # i /\ r[k] = cs[j]
      /\ \A j \in 1..Len(cs) : j # i => \E k \in 1..Len(r) : r[k] = cs[j]
  BY RemovedElements
<1> HIDE DEF r
<1>4. /\ L \in CallType /\ L.stage = "sent" /\ Proper(L) /\ L.kind \notin Logins /\ L.token = s
      /\ L.kind = "lists" /\ L.job = cs[i].job
      /\ C \in CallType /\ C.stage = "sent" /\ Proper(C) /\ C.kind \notin Logins /\ C.token = s
      /\ C.kind = "current" /\ C.job = cs[i].job
  BY DEF Sent, Proper, Logins
<1>5. /\ m \in Seq(CallType) /\ Len(r) \in Nat /\ Len(m) = Len(r) + 1 /\ m[Len(r) + 1] = L
      /\ \A k \in 1..Len(r) : m[k] = r[k]
      /\ \A k \in 1..Len(m) : k \in 1..Len(r) \/ m[k] = L
  BY <1>1, <1>4, Appended
<1>6. /\ \A x : Owned(r, x) => Owned(m, x)
      /\ \A z, b, a : OneLogin(r, z, b, a) => OneLogin(m, z, b, a)
      /\ Mine(r, s) => Mine(m, s)
      /\ \A u, sv : StillTrue(r, u, sv) => StillTrue(m, u, sv)
      /\ \A u, d, sv : RowsRight(r, u, d, sv) => RowsRight(m, u, d, sv)
      /\ \A u, t, sv : ClockRight(r, u, t, sv) => ClockRight(m, u, t, sv)
  BY <1>1, <1>4, OneMore
<1> HIDE DEF m
<1>7. /\ next \in Seq(CallType) /\ Len(next) = Len(m) + 1 /\ next[Len(m) + 1] = C
      /\ \A k \in 1..Len(m) : next[k] = m[k]
      /\ \A k \in 1..Len(next) : k \in 1..Len(m) \/ next[k] = C
  BY <1>4, <1>5, Appended
<1>8. /\ \A x : Owned(m, x) => Owned(next, x)
      /\ \A z, b, a : OneLogin(m, z, b, a) => OneLogin(next, z, b, a)
      /\ Mine(m, s) => Mine(next, s)
      /\ \A u, sv : StillTrue(m, u, sv) => StillTrue(next, u, sv)
      /\ \A u, d, sv : RowsRight(m, u, d, sv) => RowsRight(next, u, d, sv)
      /\ \A u, t, sv : ClockRight(m, u, t, sv) => ClockRight(next, u, t, sv)
  BY <1>4, <1>5, OneMore
<1> HIDE DEF next
<1>9. /\ \A h \in 1..Len(next) :
           next[h] = L \/ next[h] = C \/ \E j \in 1..Len(cs) : j # i /\ next[h] = cs[j]
      /\ \A j \in 1..Len(cs) : j # i => \E h \in 1..Len(next) : next[h] = cs[j]
      /\ \E h \in 1..Len(next) : next[h] = L
      /\ \E h \in 1..Len(next) : next[h] = C
  <2>1. ASSUME NEW h \in 1..Len(next)
        PROVE  next[h] = L \/ next[h] = C \/ \E j \in 1..Len(cs) : j # i /\ next[h] = cs[j]
    <3>1. CASE h \in 1..Len(r)
      <4>1. next[h] = r[h]
        BY <1>5, <1>7, <3>1
      <4> QED
        BY <1>3, <3>1, <4>1
    <3>2. CASE h \notin 1..Len(r)
      BY <1>5, <1>7, <3>2
    <3> QED
      BY <3>1, <3>2
  <2>2. ASSUME NEW j \in 1..Len(cs), j # i
        PROVE  \E h \in 1..Len(next) : next[h] = cs[j]
    <3>1. PICK k \in 1..Len(r) : r[k] = cs[j]
      BY <1>3, <2>2
    <3>2. k \in 1..Len(next) /\ k \in 1..Len(m) /\ next[k] = r[k]
      BY <1>5, <1>7
    <3> QED
      BY <3>1, <3>2
  <2>3. Len(r) + 1 \in 1..Len(next) /\ Len(r) + 1 \in 1..Len(m) /\ next[Len(r) + 1] = L
        /\ Len(m) + 1 \in 1..Len(next)
    BY <1>5, <1>7
  <2> QED
    BY <1>7, <2>1, <2>2, <2>3
<1>10. ASSUME NEW k \in {"lists", "current"}, NEW l, Awaited(cs, k, l)
       PROVE  Awaited(next, k, l)
  <2>1. PICK f \in 1..Len(next) : next[f].job = cs[i].job /\ next[f].kind = k
    BY <1>4, <1>9
  <2> SUFFICES ASSUME NEW h \in 1..Len(next), next[h].job # 0
               PROVE  \E g \in 1..Len(next) :
                        next[g].job = next[h].job /\ next[g].kind \in {"settings", k}
    BY <1>10 DEF Awaited
  <2>2. CASE next[h].job = cs[i].job
    BY <2>1, <2>2
  <2>3. CASE next[h].job # cs[i].job
    <3>1. PICK j \in 1..Len(cs) : j # i /\ next[h] = cs[j]
      BY <1>4, <1>9, <2>3
    <3>2. PICK e \in 1..Len(cs) : cs[e].job = cs[j].job /\ cs[e].kind \in {"settings", k}
      BY <1>10, <3>1 DEF Awaited
    <3>3. e # i
      BY <2>3, <3>1, <3>2
    <3> QED
      BY <1>9, <3>1, <3>2, <3>3
  <2> QED
    BY <2>2, <2>3
<1>11. ASSUME NEW d, NEW t, NEW sv, NEW l, Theirs(cs, s, d, t, sv, l)
       PROVE  Theirs(next, s, d, t, sv, l)
  <2>1. Mine(next, s) /\ StillTrue(next, s.of, sv)
    BY <1>2, <1>6, <1>8, <1>11 DEF Theirs
  <2>2. Awaited(next, "lists", l) \/ RowsRight(next, s.of, d, sv)
    BY <1>2, <1>6, <1>8, <1>10, <1>11 DEF Theirs
  <2>3. Awaited(next, "current", l) \/ ClockRight(next, s.of, t, sv)
    BY <1>2, <1>6, <1>8, <1>10, <1>11 DEF Theirs
  <2> QED
    BY <2>1, <2>2, <2>3 DEF Theirs
<1> QED
  BY <1>2, <1>6, <1>7, <1>8, <1>11 DEF next, m, r

LEMMA SettingsDoneKeeps ==
  ASSUME IInv, NEW i \in 1..Len(calls), SettingsDone(i)
  PROVE  IInv'
<1> DEFINE r == Rest(i)
           job == calls[i].job
           zone == IF Ok(i) THEN calls[i].ret.zone ELSE settings.zone
           again == zone # settings.zone
           L == Call("lists", job, session', client')
           C == Call("current", job, session', client')
           next == Append(Append(r, L), C)
           q == Call("settings", FreshJob(next), session', client')
           cs == IF again /\ session' # NoToken THEN Append(next, q) ELSE next
           t == [timer EXCEPT !.loading = TRUE]
<1>1. calls[i].kind = "settings" /\ calls[i].stage # "sent" /\ SignOut(i)
  BY DEF SettingsDone, Answered
<1>2. /\ Typed /\ calls \in Seq(CallType) /\ calls[i] \in CallType /\ r \in Seq(CallType)
      /\ session # NoToken /\ ~unsure =>
           Theirs(calls, session, data, timer.current, server, loading)
      /\ Owned(calls, server.expired)
      /\ OneLogin(calls, session, login.busy, server.accounts)
  BY <1>1, ArrivalFacts DEF IInv
<1>3. /\ timer \in TimerType /\ timer.ticking = (timer.current # 0) /\ dialog \in DialogType
      /\ settings \in SettingsType /\ data \in DataType /\ loading \in BOOLEAN
  BY <1>2 DEF Typed
<1>4. /\ session' \in Tokens /\ client' = session'
      /\ StillReady(i) \in BOOLEAN /\ StillLoading(i) \in BOOLEAN
      /\ (session' # NoToken => StillLoading(i) = loading)
  BY <1>1, SignOutDoes
<1>5. Sent(L, "lists", job, session') /\ Sent(C, "current", job, session')
  <2>1. "lists" \in Kinds /\ "current" \in Kinds /\ job \in Nat
    BY <1>2 DEF Kinds, CallType
  <2>2. L = Call("lists", job, session', session') /\ C = Call("current", job, session', session')
    BY <1>4
  <2> HIDE DEF L, C, job
  <2> QED
    BY <1>4, <2>1, <2>2, NewCall
<1>6. Rest(i) \o <<L, C>> = next
  <2>1. L \in CallType /\ C \in CallType
    BY <1>5 DEF Sent
  <2> HIDE DEF L, C, r
  <2> QED
    BY <1>2, <2>1, TwoMore DEF r
<1>7. /\ settings' = IF Ok(i) THEN [zone |-> zone, configured |-> calls[i].ret.configured]
                              ELSE settings
      /\ ready' = (StillReady(i) /\ ~(again /\ session' = NoToken))
      /\ loading' = IF again THEN session' # NoToken ELSE StillLoading(i)
      /\ data' = data /\ server' = server
      /\ Finish(page, cs, t, dialog, FALSE)
  BY <1>6 DEF SettingsDone, Initialise
<1>8. settings' \in SettingsType
  <2>1. calls[i].ret.zone \in Zones /\ calls[i].ret.configured \in BOOLEAN
    BY <1>2 DEF CallType, AnswerType
  <2> QED
    BY <1>3, <1>7, <2>1 DEF SettingsType
<1>9. again \in BOOLEAN
  OBVIOUS
<1> HIDE DEF again, zone
<1>10. ready' \in BOOLEAN /\ loading' \in BOOLEAN
       /\ (session' # NoToken => (loading => loading'))
  BY <1>4, <1>7, <1>9
<1>11. t \in TimerType /\ t.current = timer.current /\ t.ticking = (t.current # 0)
  BY <1>3 DEF TimerType
<1> HIDE DEF t
<1>12. /\ next \in Seq(CallType)
       /\ Owned(next, server.expired)
       /\ OneLogin(next, session, login.busy, server.accounts)
       /\ Theirs(calls, session', data, timer.current, server, loading) =>
            Theirs(next, session', data, timer.current, server, loading)
  <2> HIDE DEF L, C
  <2> QED
    BY <1>1, <1>2, <1>5, HandedOver DEF r, Rest
<1> HIDE DEF next
<1>13. Sent(q, "settings", FreshJob(next), session')
  <2>1. "settings" \in Kinds /\ FreshJob(next) \in Nat
    BY <1>12, FreshJobIsNumber DEF Kinds
  <2>2. q = Call("settings", FreshJob(next), session', session')
    BY <1>4
  <2> HIDE DEF q
  <2> QED
    BY <1>4, <2>1, <2>2, NewCall
<1> HIDE DEF q
<1>14. /\ q \in CallType /\ q.stage = "sent" /\ Proper(q) /\ q.kind \notin Logins
       /\ q.token = session' /\ q.kind = "settings"
  BY <1>13 DEF Sent, Proper, Logins
<1>15. /\ cs \in Seq(CallType)
       /\ Owned(cs, server.expired)
       /\ OneLogin(cs, session, login.busy, server.accounts)
  <2>1. CASE cs = next
    BY <1>12, <2>1
  <2>2. CASE cs = Append(next, q)
    <3> HIDE DEF cs
    <3> QED
      BY <1>12, <1>14, <2>2, OneMore, Appended
  <2> QED
    BY <2>1, <2>2
<1>16. ASSUME session # NoToken, session' = session, ~unsure, ~Refused(i)
       PROVE  Theirs(cs, session, data', t.current, server, loading')
  <2>1. Theirs(next, session, data, timer.current, server, loading)
    BY <1>2, <1>12, <1>16
  <2>2. loading => loading'
    BY <1>10, <1>16
  <2>3. Theirs(next, session, data, timer.current, server, loading')
    BY <1>12, <2>1, <2>2, StillTheirs
  <2>4. CASE cs = next
    BY <1>7, <1>11, <2>3, <2>4
  <2>5. CASE cs = Append(next, q)
    <3>1. Theirs(Append(next, q), session, data, timer.current, server, loading')
      BY <1>12, <1>14, <1>16, <2>3, StillTheirs
    <3> QED
      BY <1>7, <1>11, <2>5, <3>1
  <2> QED
    BY <2>4, <2>5
<1>17. data' \in DataType /\ server' = server /\ Finish(page, cs, t, dialog, FALSE)
  BY <1>3, <1>7
<1> HIDE DEF cs
<1> QED
  BY <1>1, <1>3, <1>8, <1>10, <1>11, <1>15, <1>16, <1>17, ArrivalKeeps

-----------------------------------------------------------------------------
(***************************************************************************)
(* The theorems.                                                           *)
(***************************************************************************)
(* What the guides do leaves everything of the shell but the page, so that  *)
(* the invariant is kept by every step.                                     *)
THEOREM Inductive == Spec => []IInv
<1>1. InitAll => IInv
  BY InitKeeps DEF InitAll
<1>2. IInv /\ [Next]_vars => IInv'
  <2> SUFFICES ASSUME IInv, [Next]_vars PROVE IInv'
    OBVIOUS
  <2>1. login \in LoginType /\ dialog \in DialogType
    BY DEF IInv, Typed
  <2>2. ASSUME UNCHANGED Beneath PROVE IInv'
    <3>1. UNCHANGED <<shellVars, data, timer, calls, server, unsure>>
          /\ login' = login /\ dialog' = dialog
      BY <2>2 DEF Beneath
    <3> QED
      BY <2>1, <3>1, AsideKeeps
  <2>3. CASE Use
    BY <2>3, UserKeeps DEF Use
  <2>4. CASE Served
    BY <2>4, ServeKeeps DEF Served
  <2>5. CASE Arrived
    BY <2>5, LoginDoneKeeps, SettingsDoneKeeps, ListsDoneKeeps, CurrentDoneKeeps,
       StartDoneKeeps, StopDoneKeeps, SaveDoneKeeps DEF Arrived, Arrival
  <2>6. CASE Trouble
    BY <2>6, TroubleKeeps
  <2>7. CASE ReloadAll
    BY <2>7, ReloadKeeps DEF ReloadAll
  <2>8. CASE TourStep
    <3>1. UNCHANGED Beneath
      BY <2>8 DEF TourStep, StartTour, Skip, NextStep, PrevStep, PullBack, EndTour,
         PageLoads, SwitchTab, OpenPageTour, NextPart, PrevPart, SkipPart, ResetGuide,
         AsideVars
    <3> QED
      BY <2>2, <3>1
  <2>9. CASE Timers
    <3>1. UNCHANGED Beneath
      BY <2>9 DEF Timers, Poll, GiveUp, Settle, Elapse
    <3> QED
      BY <2>2, <3>1
  <2>10. CASE UNCHANGED vars
    <3>1. UNCHANGED Beneath
      BY <2>10 DEF vars, sessionVars, Beneath, shellVars
    <3> QED
      BY <2>2, <3>1
  <2> QED
    BY <2>3, <2>4, <2>5, <2>6, <2>7, <2>8, <2>9, <2>10 DEF Next
<1> QED
  BY <1>1, <1>2, PTL DEF Spec

LEMMA TokensTyped ==
  ASSUME NEW t \in Tokens
  PROVE  t \in [of : Users \cup {NoUser}, no : 0..MaxTokens]
<1>1. MaxTokens \in Nat
  BY BoundAssumption
<1>2. CASE t = NoToken
  BY <1>1, <1>2 DEF NoToken
<1>3. CASE t \in [of : Users, no : 1..MaxTokens]
  <2>1. 1..MaxTokens \subseteq 0..MaxTokens
    BY <1>1
  <2> QED
    BY <1>3, <2>1
<1> QED
  BY <1>2, <1>3 DEF Tokens

LEMMA ShellTyped == IInv => SessionTypeOK
<1> SUFFICES ASSUME IInv PROVE SessionTypeOK
  OBVIOUS
<1>0. Typed
  BY DEF IInv
<1>1. /\ session \in [of : Users \cup {NoUser}, no : 0..MaxTokens]
      /\ client \in [of : Users \cup {NoUser}, no : 0..MaxTokens]
  BY <1>0, TokensTyped DEF Typed
<1>2. /\ login \in [mode : {"login", "register"}, persona : BOOLEAN, busy : BOOLEAN,
                    error : BOOLEAN]
      /\ ready \in BOOLEAN /\ loading \in BOOLEAN /\ unsure \in BOOLEAN
      /\ settings \in [zone : Zones, configured : BOOLEAN]
      /\ timer \in [current : 0..MaxTimers, ticking : BOOLEAN, loading : BOOLEAN]
      /\ dialog \in [open : BOOLEAN, mode : {"manual", "existing"}, given : BOOLEAN]
  BY <1>0 DEF Typed, LoginType, SettingsType, TimerType, DialogType, TimerNos
<1>3. data.of \in Users \cup {NoUser}
  BY <1>0 DEF Typed, DataType
<1>4. ASSUME NEW i \in 1..Len(calls)
      PROVE  /\ calls[i].stage \in {"sent", "ok", "failed", "refused"}
             /\ calls[i].job \in Nat
  <2>1. calls[i] \in CallType
    BY <1>0, ElementOfSeq DEF Typed
  <2> QED
    BY <2>1 DEF CallType
<1>5. ASSUME NEW u \in Users PROVE server.running[u] \in 0..server.started
  <2>1. server \in ServerType /\ server.running[u] <= server.started
    BY <1>0 DEF Typed
  <2>2. server.running[u] \in 0..MaxTimers /\ server.started \in 0..MaxTimers
    BY <2>1 DEF ServerType, TimerNos
  <2> QED
    BY <2>1, <2>2, BoundAssumption
<1> QED
  BY <1>1, <1>2, <1>3, <1>4, <1>5 DEF SessionTypeOK

(* Whatever page is shown to whom, its rows and the timer on it are theirs, *)
(* as long as no request failed, outlived its session or overlapped.        *)
THEOREM OnlyTheirs == Spec => []ShownIsTheirs
<1>1. IInv => ShownIsTheirs
  <2> SUFFICES ASSUME IInv PROVE ShownIsTheirs
    OBVIOUS
  <2>1. timer.ticking = (timer.current # 0)
    BY DEF IInv, Typed
  <2>2. ASSUME Open, ~unsure
        PROVE  /\ RowsRight(calls, session.of, data, server)
               /\ ClockRight(calls, session.of, timer.current, server)
    <3>1. Theirs(calls, session, data, timer.current, server, loading) /\ ~loading
      BY <2>2 DEF IInv, Open, Gated
    <3> QED
      BY <3>1 DEF Theirs, Awaited
  <2>3. ASSUME Quiet, NEW i \in 1..Len(calls)
        PROVE  calls[i].kind # "stop" /\ calls[i].kind \notin Writes
    BY <2>3 DEF Quiet, Writes
  <2>4. DataIsUsers
    BY <2>2, <2>3 DEF DataIsUsers, RowsRight
  <2>5. TimerIsRunning
    BY <2>1, <2>2, <2>3 DEF TimerIsRunning, ClockRight
  <2> QED
    BY <2>4, <2>5 DEF ShownIsTheirs
<1> QED
  BY <1>1, Inductive, PTL

(* Only the user, an expired token, or the refusal of a request that is not *)
(* of this session ends a session.                                          *)
LEMMA TakenAway ==
  ASSUME IInv, NEW i \in 1..Len(calls), Refused(i), session # NoToken
  PROVE  \/ session.no \in server.expired
         \/ \E j \in 1..Len(calls) : Refused(j) /\ calls[j].by # session
<1>1. calls[i].by = NoToken \/ calls[i].by.no \in server.expired
  BY DEF IInv, Owned, Refused
<1> QED
  BY <1>1

LEMMA EndsByArrival ==
  ASSUME IInv, Arrival, session # NoToken, session' = NoToken
  PROVE  \/ session.no \in server.expired
         \/ \E j \in 1..Len(calls) : Refused(j) /\ calls[j].by # session
<1>1. PICK i \in 1..Len(calls) :
        \/ LoginDone(i) \/ SettingsDone(i) \/ ListsDone(i) \/ CurrentDone(i)
        \/ StartDone(i) \/ StopDone(i) \/ SaveDone(i)
  BY DEF Arrival
<1>2. ~LoginDone(i)
  BY DEF IInv, OneLogin, LoginDone, Answered, Logins
<1>3. SignOut(i)
  BY <1>1, <1>2
     DEF SettingsDone, ListsDone, CurrentDone, StartDone, StopDone, SaveDone
<1>4. Refused(i)
  BY <1>3 DEF SignOut
<1> QED
  BY <1>4, TakenAway

LEMMA EndsByUser ==
  ASSUME UserStep, session # NoToken, session' = NoToken
  PROVE  Logout
<1>1. ASSUME NEW kind, NEW u, Submit(kind, u) PROVE FALSE
  BY <1>1 DEF Submit, AtLogin
<1>2. ~(\E u \in Users : SubmitForm(u)) /\ ~DemoLogin
  BY <1>1 DEF SubmitForm, DemoLogin
<1>3. ASSUME UNCHANGED shellVars PROVE FALSE
  BY <1>3 DEF shellVars
<1>4. ~ToggleMode /\ ~(\E p \in Visits : GoTo(p)) /\ ~SaveSettings /\ ~Cancel
  BY <1>3 DEF ToggleMode, GoTo, SaveSettings, shellVars, Cancel
<1>5. ~(\E z \in Zones : PickZone(z))
  BY DEF PickZone
<1>6. /\ ~OpenStart /\ ~(\E m \in {"manual", "existing"} : PickMode(m))
      /\ ~GiveTask /\ ~CloseDialog /\ ~StartTimer /\ ~StopTimer
  BY <1>3 DEF OpenStart, PickMode, GiveTask, CloseDialog, StartTimer, StopTimer
<1> QED
  BY <1>2, <1>4, <1>5, <1>6 DEF UserStep

(* A session ends only when its user signs out, its own token has expired,  *)
(* or a request of an earlier session is refused: whatever is in flight and *)
(* for any number of users, tokens and requests (client.ts, useAuthStore).  *)
THEOREM EndsForCause == Spec => SessionEndsForCause
<1> DEFINE Cause == \/ Logout
                    \/ session.no \in server.expired
                    \/ \E i \in 1..Len(calls) : Refused(i) /\ calls[i].by # session
           Ended == session # NoToken /\ session' = NoToken
<1>1. ASSUME IInv, [Next]_vars, Ended PROVE Cause
  <2>1. CASE Use
    BY <1>1, <2>1, EndsByUser DEF Use
  <2>2. CASE Arrived
    BY <1>1, <2>2, EndsByArrival DEF Arrived
  <2>3. CASE Served
    BY <1>1, <2>3 DEF Served, Serve, shellVars
  <2>4. CASE Trouble /\ Follow
    BY <1>1, <2>4 DEF Trouble, Lose, Lapse, shellVars
  <2>5. CASE ReloadAll
    BY <1>1, <2>5 DEF ReloadAll, Reload
  <2>6. CASE TourStep
    <3>1. UNCHANGED Beneath
      BY <2>6 DEF TourStep, StartTour, Skip, NextStep, PrevStep, PullBack, EndTour,
         PageLoads, SwitchTab, OpenPageTour, NextPart, PrevPart, SkipPart, ResetGuide,
         AsideVars
    <3> QED
      BY <1>1, <3>1 DEF Beneath, shellVars
  <2>7. CASE Timers
    BY <1>1, <2>7 DEF Timers, Poll, GiveUp, Settle, Elapse, Beneath, shellVars
  <2>8. CASE UNCHANGED vars
    BY <1>1, <2>8 DEF vars, sessionVars
  <2> QED
    BY <1>1, <2>1, <2>2, <2>3, <2>4, <2>5, <2>6, <2>7, <2>8 DEF Next
<1>2. IInv /\ [Next]_vars => [Ended => Cause]_sessionVars
  BY <1>1
<1>3. [][Ended => Cause]_sessionVars <=> SessionEndsForCause
  BY DEF SessionEndsForCause
<1> QED
  BY <1>2, <1>3, Inductive, PTL DEF Spec

-----------------------------------------------------------------------------
(***************************************************************************)
(* The guides.  That they never point to a step or a part that is not      *)
(* there takes this invariant: a page with an open tour is one that has a  *)
(* tour, and the step of it one of its steps, whatever page is mounted     *)
(* meanwhile.                                                              *)
(***************************************************************************)
Wait == [step : 1..Len(Stops), at : {"start", "poll", "settle", "centre"}]
TourState ==
  [phase : {"welcome", "touring"}, step : 1..Len(Stops), ready : BOOLEAN, found : BOOLEAN]
PartsType == [tab : {"editor", "optimize"}, loaded : BOOLEAN]
OnPart(p, k) == k # 0 => p \in DOMAIN TourDefinitions /\ k \in 1..Len(TourDefinitions[p])
Guides ==
  /\ guide \in [active : BOOLEAN, done : SUBSET Users]
  /\ chat \in BOOLEAN
  /\ tour \in TourState
  /\ waits \in Seq(Wait)
  /\ dead \in BOOLEAN
  /\ parts \in PartsType
  /\ pageTour \in Nat /\ OnPart(page, pageTour)

LEMMA FirstStop == 1 \in 1..Len(Stops) /\ Len(Stops) \in Nat
<1>1. Len(Stops) \in Nat /\ Len(Stops) # 0
  BY StopsAssumption, EmptySeq, LenProperties
<1> QED
  BY <1>1

LEMMA Welcome == AtWelcome \in TourState
BY FirstStop DEF AtWelcome, TourState

LEMMA NoWaits == <<>> \in Seq(Wait)
OBVIOUS

LEMMA Loads == ASSUME NEW p, NEW l \in LoadedPage(p) PROVE NewParts(l) \in PartsType
BY DEF LoadedPage, NewParts, PartsType

LEMMA OneFewer ==
  ASSUME NEW i \in 1..Len(waits), waits \in Seq(Wait)
  PROVE  RemoveAt(waits, i) \in Seq(Wait)
BY Removed

LEMMA ClearedTyped == ASSUME waits \in Seq(Wait) PROVE Cleared \in Seq(Wait)
<1> DEFINE own == {i \in 1..Len(waits) : ~Polling(waits[i])}
           first == CHOOSE i \in own : TRUE
<1>1. Cleared = IF own = {} THEN waits ELSE RemoveAt(waits, first)
  BY DEF Cleared
<1>2. own # {} => first \in 1..Len(waits)
  OBVIOUS
<1> HIDE DEF own, first
<1> QED
  BY <1>1, <1>2, OneFewer

\* A user who is signed in is one of the users.
LEMMA SomeUser == ASSUME Typed, Mounted PROVE session.of \in Users
<1>1. session \in Tokens /\ session # NoToken
  BY DEF Typed, Mounted, Open
<1> QED
  BY <1>1 DEF Tokens

LEMMA FollowGuides == ASSUME Guides, Follow PROVE Guides'
<1>1. chat' \in BOOLEAN
  BY DEF Follow, Guides
<1>2. /\ guide' \in [active : BOOLEAN, done : SUBSET Users]
      /\ tour' \in TourState /\ waits' \in Seq(Wait) /\ dead' \in BOOLEAN
  <2>1. AutoStart \in BOOLEAN
    BY DEF Guides, AutoStart
  <2>2. CASE Mounted /\ Mounted'
    BY <2>2 DEF Follow, Guides
  <2>3. CASE ~(Mounted /\ Mounted')
    <3>1. /\ guide' = [guide EXCEPT !.active = IF Mounted' THEN AutoStart ELSE @]
          /\ tour' = AtWelcome /\ waits' = <<>> /\ dead' = FALSE
      BY <2>3 DEF Follow
    <3>2. (IF Mounted' THEN AutoStart ELSE guide.active) \in BOOLEAN
      BY <2>1 DEF Guides
    <3>3. guide' = [guide EXCEPT !.active = IF Mounted' THEN AutoStart ELSE guide.active]
      BY <3>1
    <3>4. guide' \in [active : BOOLEAN, done : SUBSET Users]
      BY <3>2, <3>3 DEF Guides
    <3> QED
      BY <3>1, <3>4, Welcome, NoWaits
  <2> QED
    BY <2>2, <2>3
<1>3. parts' \in PartsType /\ pageTour' \in Nat /\ OnPart(page', pageTour')
  <2>1. CASE Mounted /\ Mounted' /\ page' = page
    BY <2>1 DEF Follow, Guides
  <2>2. CASE ~(Mounted /\ Mounted' /\ page' = page)
    BY <2>2, Loads DEF Follow, OnPart
  <2> QED
    BY <2>1, <2>2
<1> QED
  BY <1>1, <1>2, <1>3 DEF Guides

LEMMA EnterGuides ==
  ASSUME Guides, NEW k \in 1..Len(Stops), NEW r \in BOOLEAN, Enter(k, r), UNCHANGED guide
  PROVE  Guides'
<1> DEFINE s == Stops[k]
           fresh == r \/ page # s.page
           first == [step |-> k, at |-> IF s.target = "none" THEN "centre" ELSE "start"]
<1>1. tour' \in TourState
  BY DEF Enter, TourState
<1>2. waits' \in Seq(Wait)
  <2>1. waits' = Append(Cleared, first)
    BY DEF Enter
  <2>2. first \in Wait
    BY DEF Wait
  <2>3. Cleared \in Seq(Wait)
    BY ClearedTyped DEF Guides
  <2> HIDE DEF first
  <2> QED
    BY <2>1, <2>2, <2>3, AppendProperties
<1>3. dead' \in BOOLEAN /\ chat' \in BOOLEAN
  <2>1. dead' = FALSE /\ chat \in BOOLEAN
    BY DEF Enter, Guides
  <2>2. chat' = CASE s.action = "open-chat" -> TRUE
                  [] s.action = "close-chat" -> FALSE
                  [] OTHER -> chat
    BY DEF Enter
  <2> QED
    BY <2>1, <2>2
<1>4. parts' \in PartsType
  <2>1. PICK l \in LoadedPage(s.page) :
          LET p == IF fresh THEN NewParts(l) ELSE parts IN
          parts' = IF s.action = "switch-optimize-tab" /\ p.loaded
                   THEN [p EXCEPT !.tab = "optimize"] ELSE p
    BY DEF Enter
  <2> DEFINE p == IF fresh THEN NewParts(l) ELSE parts
  <2>2. p \in PartsType
    BY Loads DEF Guides
  <2>3. parts' = [p EXCEPT !.tab = "optimize"] \/ parts' = p
    BY <2>1
  <2> HIDE DEF p
  <2> QED
    BY <2>2, <2>3 DEF PartsType
<1>5. pageTour' \in Nat /\ OnPart(page', pageTour')
  <2>1. pageTour' = (IF fresh THEN 0 ELSE pageTour) /\ page' = s.page
    BY DEF Enter
  <2>2. CASE fresh
    BY <2>1, <2>2 DEF OnPart
  <2>3. CASE ~fresh
    BY <2>1, <2>3 DEF Guides
  <2> QED
    BY <2>2, <2>3
<1> QED
  BY <1>1, <1>2, <1>3, <1>4, <1>5 DEF Guides

LEMMA EndGuides == ASSUME Guides, Typed, Mounted, EndTour PROVE Guides'
<1>1. session.of \in Users
  BY SomeUser
<1>2. waits' \in Seq(Wait)
  BY ClearedTyped DEF EndTour, Guides
<1>3. guide' \in [active : BOOLEAN, done : SUBSET Users]
  BY <1>1 DEF EndTour, Guides
<1>4. /\ chat' = FALSE /\ tour' = AtWelcome /\ dead' = TRUE
      /\ page' = page /\ parts' = parts /\ pageTour' = pageTour
  BY DEF EndTour
<1> QED
  BY <1>2, <1>3, <1>4, Welcome DEF Guides

\* A card is shown only to somebody who is signed in.
LEMMA CardIsOfUser == CardShown => Mounted
BY DEF CardShown, Touring

LEMMA TourGuides == ASSUME Guides, Typed, TourStep PROVE Guides'
<1>1. CASE StartTour
  <2>1. Enter(1, FALSE) /\ guide' = guide
    BY <1>1 DEF StartTour
  <2> QED
    BY <2>1, FirstStop, EnterGuides
<1>2. CASE Skip
  <2>1. Mounted /\ EndTour
    BY <1>2, CardIsOfUser DEF Skip
  <2> QED
    BY <2>1, EndGuides
<1>3. CASE NextStep
  <2>1. CASE tour.step < Len(Stops)
    <3>1. Enter(tour.step + 1, FALSE) /\ guide' = guide
      BY <1>3, <2>1 DEF NextStep
    <3>2. tour.step + 1 \in 1..Len(Stops)
      BY <2>1, FirstStop DEF Guides, TourState
    <3> QED
      BY <3>1, <3>2, EnterGuides
  <2>2. CASE ~(tour.step < Len(Stops))
    BY <1>3, <2>2, EndGuides, CardIsOfUser DEF NextStep
  <2> QED
    BY <2>1, <2>2
<1>4. CASE PrevStep
  <2>1. Enter(tour.step - 1, FALSE) /\ guide' = guide /\ tour.step > 1
    BY <1>4 DEF PrevStep
  <2>2. tour.step - 1 \in 1..Len(Stops)
    BY <2>1, FirstStop DEF Guides, TourState
  <2> QED
    BY <2>1, <2>2, EnterGuides
<1>5. CASE \E p \in Visits : PullBack(p)
  <2>1. Enter(tour.step, TRUE) /\ guide' = guide
    BY <1>5 DEF PullBack
  <2>2. tour.step \in 1..Len(Stops)
    BY DEF Guides, TourState
  <2> QED
    BY <2>1, <2>2, EnterGuides
<1>6. CASE PageLoads
  BY <1>6 DEF PageLoads, Guides, PartsType
<1>7. CASE \E t \in {"editor", "optimize"} : SwitchTab(t)
  BY <1>7 DEF SwitchTab, Guides, PartsType
<1>8. ASSUME UNCHANGED <<AsideVars, guide>>, pageTour' \in Nat, OnPart(page, pageTour')
      PROVE  Guides'
  BY <1>8 DEF AsideVars, Guides
<1>9. CASE OpenPageTour
  <2>1. pageTour' = 1 /\ page \in DOMAIN TourDefinitions /\ UNCHANGED <<AsideVars, guide>>
    BY <1>9 DEF OpenPageTour
  <2>2. 1 \in 1..Len(TourDefinitions[page])
    BY <2>1 DEF TourDefinitions
  <2> QED
    BY <1>8, <2>1, <2>2 DEF OnPart
<1>10. CASE NextPart \/ PrevPart \/ SkipPart
  <2>1. pageTour # 0 /\ UNCHANGED <<AsideVars, guide>>
    BY <1>10 DEF NextPart, PrevPart, SkipPart, PageCardShown
  <2>2. page \in DOMAIN TourDefinitions /\ pageTour \in 1..Len(TourDefinitions[page])
    BY <2>1 DEF Guides, OnPart
  <2>3. Len(TourDefinitions[page]) \in Nat
    BY <2>2 DEF TourDefinitions
  <2>4. \/ pageTour' = 0
        \/ pageTour' = pageTour + 1 /\ pageTour < Len(TourDefinitions[page])
        \/ pageTour' = pageTour - 1 /\ pageTour > 1
    BY <1>10 DEF NextPart, PrevPart, SkipPart
  <2> QED
    BY <1>8, <2>1, <2>2, <2>3, <2>4 DEF OnPart
<1>11. CASE ResetGuide
  BY <1>11 DEF ResetGuide, AsideVars, Guides
<1> QED
  BY <1>1, <1>2, <1>3, <1>4, <1>5, <1>6, <1>7, <1>9, <1>10, <1>11 DEF TourStep

LEMMA TimerGuides == ASSUME Guides, Timers PROVE Guides'
<1>1. PICK i \in 1..Len(waits) : Poll(i) \/ GiveUp(i) \/ Settle(i)
  BY DEF Timers
<1>2. UNCHANGED <<page, guide, chat, dead, parts, pageTour>>
  BY <1>1 DEF Poll, GiveUp, Settle, Elapse
<1>3. waits \in Seq(Wait) /\ waits[i] \in Wait
  BY ElementOfSeq DEF Guides
<1>4. waits' \in Seq(Wait)
  <2>1. ASSUME NEW a \in {"settle", "poll"}, waits' = [waits EXCEPT ![i].at = a]
        PROVE  waits' \in Seq(Wait)
    <3>1. [waits[i] EXCEPT !.at = a] \in Wait
      BY <1>3 DEF Wait
    <3>2. waits' = [waits EXCEPT ![i] = [waits[i] EXCEPT !.at = a]]
      BY <2>1
    <3> QED
      BY <1>3, <3>1, <3>2, ExceptSeq
  <2>2. \/ waits' = RemoveAt(waits, i)
        \/ \E a \in {"settle", "poll"} : waits' = [waits EXCEPT ![i].at = a]
    BY <1>1 DEF Poll, GiveUp, Settle, NoLonger
  <2> QED
    BY <1>3, <2>1, <2>2, OneFewer
<1>5. tour' \in TourState
  <2>1. tour' = tour \/ \E f \in BOOLEAN : tour' = [tour EXCEPT !.found = f, !.ready = TRUE]
    BY <1>1 DEF Poll, GiveUp, Settle, Show
  <2> QED
    BY <2>1 DEF Guides, TourState
<1> QED
  BY <1>2, <1>4, <1>5 DEF Guides

LEMMA GuidesKept == ASSUME IInv, Guides, [Next]_vars PROVE Guides'
<1>1. Typed
  BY DEF IInv
<1>2. CASE Use \/ Served \/ Arrived \/ (Trouble /\ Follow)
  BY <1>2, FollowGuides DEF Use, Served, Arrived
<1>3. CASE ReloadAll
  <2>1. parts' = NewParts(TRUE) /\ NewParts(TRUE) \in PartsType
    BY <1>3 DEF ReloadAll, NewParts, PartsType
  <2>2. guide' \in [active : BOOLEAN, done : SUBSET Users]
    BY <1>3 DEF ReloadAll, Guides
  <2>3. chat' = FALSE /\ tour' = AtWelcome /\ waits' = <<>> /\ dead' = FALSE /\ pageTour' = 0
    BY <1>3 DEF ReloadAll
  <2> QED
    BY <2>1, <2>2, <2>3, Welcome, NoWaits DEF Guides, OnPart
<1>4. CASE TourStep
  BY <1>1, <1>4, TourGuides
<1>5. CASE Timers
  BY <1>5, TimerGuides
<1>6. CASE UNCHANGED vars
  BY <1>6 DEF vars, sessionVars, guideVars, Guides
<1> QED
  BY <1>2, <1>3, <1>4, <1>5, <1>6 DEF Next

(* Every variable of the shell and the guides has its type: no guide points *)
(* past the steps of its tour, and only a user finishes one.                *)
THEOREM TypeCorrect == Spec => []TypeOK
<1>1. InitAll => Guides
  <2> SUFFICES ASSUME InitAll PROVE Guides
    OBVIOUS
  <2>1. parts = NewParts(TRUE) /\ NewParts(TRUE) \in PartsType
    BY DEF InitAll, NewParts, PartsType
  <2>2. /\ guide = [active |-> FALSE, done |-> {}]
        /\ chat = FALSE /\ tour = AtWelcome /\ waits = <<>> /\ dead = FALSE /\ pageTour = 0
    BY DEF InitAll
  <2> QED
    BY <2>1, <2>2, Welcome, NoWaits DEF Guides, OnPart
<1>2. IInv /\ Guides => TypeOK
  <2> SUFFICES ASSUME IInv, Guides PROVE TypeOK
    OBVIOUS
  <2>1. pageTour \in 0..4
    <3>1. CASE pageTour = 0
      BY <3>1
    <3>2. CASE pageTour # 0
      <4> DEFINE last == Len(TourDefinitions[page])
      <4>1. page \in DOMAIN TourDefinitions /\ pageTour \in 1..last
        BY <3>2 DEF Guides, OnPart
      <4>2. last \in 3..4
        BY <4>1 DEF TourDefinitions
      <4> HIDE DEF last
      <4> QED
        BY <4>1, <4>2
    <3> QED
      BY <3>1, <3>2
  <2>2. \A i \in 1..Len(waits) : waits[i] \in Wait
    BY ElementOfSeq DEF Guides
  <2> QED
    BY <2>1, <2>2, ShellTyped DEF TypeOK, Guides, TourState, Wait, PartsType
<1> QED
  BY <1>1, <1>2, GuidesKept, Inductive, PTL DEF Spec

=============================================================================

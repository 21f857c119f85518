--------------------------- MODULE ChartPageProofs ---------------------------
(***************************************************************************)
(* Proofs about the telemetry store and the pages that read it, for every  *)
(* set of messages, every PBACK above SCOPE, any number of datasets and of *)
(* polls and any bound on time: the order of a query's answer, the store   *)
(* under the pages, and the chart of a page.                               *)
(***************************************************************************)
EXTENDS ChartPage, FiniteSetTheorems, SequenceTheorems, WellFoundedInduction, TLAPS

-----------------------------------------------------------------------------
(* The order of an answer *)

Samples == [m : Nat, ts : Nat]

\* Induction over the subsets of a finite set: a family of them has a minimal
\* member.
LEMMA MinimalSubset ==
    ASSUME NEW S, IsFiniteSet(S), NEW Family, Family \subseteq SUBSET S, Family # {}
    PROVE  \E T \in Family : \A U \in Family : U \subseteq T => U = T
<1>1. FiniteSubsetsOf(S) = SUBSET S
  BY FS_FiniteSubsetsOfFinite
<1>2. IsWellFoundedOn(StrictSubsetOrdering(S), SUBSET S)
  BY <1>1, FS_StrictSubsetOrderingWellFounded
<1>3. PICK T \in Family : \A U \in Family : ~(<<U, T>> \in StrictSubsetOrdering(S))
  BY <1>2, WFMin
<1>4. ASSUME NEW U \in Family, U \subseteq T PROVE U = T
  <2>1. U \in SUBSET S /\ T \in SUBSET S
    OBVIOUS
  <2> QED BY <1>3, <1>4, <2>1 DEF StrictSubsetOrdering
<1> QED BY <1>4

\* Redis orders any two samples.
LEMMA Comparable ==
    ASSUME NEW a \in Samples, NEW b \in Samples, a # b
    PROVE  Precedes(a, b) \/ Precedes(b, a)
<1>1. a = [m |-> a.m, ts |-> a.ts] /\ b = [m |-> b.m, ts |-> b.ts]
  BY DEF Samples
<1>2. a.m # b.m \/ a.ts # b.ts
  BY <1>1
<1>3. a.m \in Nat /\ b.m \in Nat /\ a.ts \in Nat /\ b.ts \in Nat
  BY DEF Samples
<1> QED BY <1>2, <1>3 DEF Precedes

\* A finite set of samples has a last one.
LEMMA LastSample ==
    ASSUME NEW S, IsFiniteSet(S), S \subseteq Samples, S # {}
    PROVE  \E e \in S : \A f \in S \ {e} : Precedes(f, e)
<1> DEFINE HasLast(T) == \E e \in T : \A f \in T \ {e} : Precedes(f, e)
           Bad == {T \in SUBSET S : T # {} /\ ~HasLast(T)}
<1> SUFFICES ASSUME Bad # {} PROVE FALSE
  OBVIOUS
<1>b. Bad \subseteq SUBSET S
  OBVIOUS
<1>1. PICK T \in Bad : \A U \in Bad : U \subseteq T => U = T
  <2> HIDE DEF Bad
  <2> QED BY <1>b, MinimalSubset
<1>2. PICK e \in T : TRUE
  OBVIOUS
<1>3. T \ {e} # {}
  <2> SUFFICES ASSUME T \ {e} = {} PROVE FALSE
    OBVIOUS
  <2>1. HasLast(T)
    BY <1>2
  <2> QED BY <2>1
<1>4. T \ {e} \notin Bad
  BY <1>1, <1>2
<1>5. PICK f \in T \ {e} : \A g \in (T \ {e}) \ {f} : Precedes(g, f)
  BY <1>3, <1>4
<1>6. e \in Samples /\ f \in Samples /\ e # f
  BY <1>2, <1>5
<1>7. CASE Precedes(e, f)
  <2>1. \A g \in T \ {f} : Precedes(g, f)
    BY <1>5, <1>7
  <2> QED BY <2>1, <1>5
<1>8. CASE ~Precedes(e, f)
  <2>1. Precedes(f, e)
    BY <1>6, <1>8, Comparable
  <2>2. ASSUME NEW g \in T \ {e} PROVE Precedes(g, e)
    <3>1. g \in Samples
      OBVIOUS
    <3>2. g = f \/ Precedes(g, f)
      BY <1>5
    <3> QED BY <3>1, <3>2, <2>1, <1>6 DEF Precedes, Samples
  <2> QED BY <2>2, <1>2
<1> QED BY <1>7, <1>8

\* A finite set of samples can be put in order.
LEMMA Sortable ==
    ASSUME NEW S, IsFiniteSet(S), S \subseteq Samples
    PROVE  \E s \in [1..Cardinality(S) -> S] : Sorted(s)
<1> DEFINE IsSortable(T) == \E s \in [1..Cardinality(T) -> T] : Sorted(s)
           Bad == {T \in SUBSET S : ~IsSortable(T)}
<1> SUFFICES ASSUME Bad # {} PROVE FALSE
  OBVIOUS
<1>b. Bad \subseteq SUBSET S
  OBVIOUS
<1>1. PICK T \in Bad : \A U \in Bad : U \subseteq T => U = T
  <2> HIDE DEF Bad
  <2> QED BY <1>b, MinimalSubset
<1>2. IsFiniteSet(T) /\ T \subseteq Samples /\ ~IsSortable(T)
  BY FS_Subset
<1>3. T # {}
  <2> SUFFICES ASSUME T = {} PROVE FALSE
    OBVIOUS
  <2>1. Cardinality(T) = 0
    BY FS_EmptySet
  <2>2. [i \in 1..0 |-> 0] \in [1..0 -> T] /\ Sorted([i \in 1..0 |-> 0])
    BY DEF Sorted
  <2> QED BY <2>1, <2>2, <1>2
<1>4. PICK e \in T : \A f \in T \ {e} : Precedes(f, e)
  BY <1>2, <1>3, LastSample
<1> DEFINE U == T \ {e}
           n == Cardinality(U)
<1>5. n \in Nat /\ Cardinality(T) = n + 1
  <2>1. IsFiniteSet(U) /\ Cardinality(U) = Cardinality(T) - 1
    BY <1>2, <1>4, FS_RemoveElement
  <2> QED BY <2>1, <1>2, FS_CardinalityType
<1>6. IsSortable(U)
  <2>1. U \notin Bad
    BY <1>1, <1>4
  <2> QED BY <2>1
<1>7. PICK s \in [1..n -> U] : Sorted(s)
  BY <1>6
<1> HIDE DEF n
<1> DEFINE t == [i \in 1..(n + 1) |-> IF i = n + 1 THEN e ELSE s[i]]
<1>8. t \in [1..(n + 1) -> T]
  BY <1>4, <1>5, <1>7
<1>9. t[n + 1] = e /\ \A i \in 1..n : t[i] = s[i] /\ s[i] \in U
  BY <1>5, <1>7
<1>10. Sorted(t)
  <2> HIDE DEF t
  <2> SUFFICES ASSUME NEW i \in 1..(n + 1), NEW j \in 1..(n + 1), i < j
               PROVE  Precedes(t[i], t[j])
    BY <1>8 DEF Sorted
  <2>1. i \in 1..n
    BY <1>5
  <2>2. CASE j \in 1..n
    BY <2>1, <2>2, <1>7, <1>9 DEF Sorted
  <2>3. CASE j = n + 1
    BY <2>1, <2>3, <1>4, <1>9
  <2> QED BY <2>2, <2>3, <1>5
<1> HIDE DEF t
<1>11. IsSortable(T)
  BY <1>5, <1>8, <1>10
<1> QED BY <1>2, <1>11

\* What zrangebyscore answers: all the members of the range, none twice, by
\* their scores.
Rising(s) == \A i, j \in DOMAIN s : i <= j => s[i].ts <= s[j].ts

LEMMA InOrderProperties ==
    ASSUME NEW S, IsFiniteSet(S), S \subseteq Samples
    PROVE  /\ InOrder(S) \in Seq(S) /\ ToSet(InOrder(S)) = S
           /\ Rising(InOrder(S))
<1> DEFINE n == Cardinality(S)
           s == InOrder(S)
<1>1. s \in [1..n -> S] /\ Sorted(s)
  BY Sortable DEF InOrder
<1>2. n \in Nat
  BY FS_CardinalityType
<1> HIDE DEF s, n
<1>3. s \in Seq(S)
  <2>1. [i \in 1..n |-> s[i]] \in Seq(S)
    BY <1>1, <1>2, IsASeq
  <2>2. s = [i \in 1..n |-> s[i]]
    BY <1>1
  <2> QED BY <2>1, <2>2
<1>4. Rising(s)
  <2> SUFFICES ASSUME NEW i \in 1..n, NEW j \in 1..n, i <= j PROVE s[i].ts <= s[j].ts
    BY <1>1 DEF Rising
  <2>1. s[i] \in Samples /\ s[j] \in Samples
    BY <1>1
  <2>2. i = j \/ Precedes(s[i], s[j])
    BY <1>1, <1>2 DEF Sorted
  <2> QED BY <2>1, <2>2 DEF Precedes, Samples
<1>5. s \in Injection(1..n, S)
  <2> SUFFICES ASSUME NEW i \in 1..n, NEW j \in 1..n, i < j PROVE s[i] # s[j]
    BY <1>1, <1>2 DEF Injection, IsInjective
  <2>1. s[i] \in Samples /\ s[j] \in Samples /\ Precedes(s[i], s[j])
    BY <1>1 DEF Sorted
  <2> QED BY <2>1 DEF Precedes, Samples
<1>6. s \in Surjection(1..n, S)
  <2>1. Cardinality(1..n) = n
    BY <1>2, FS_Interval
  <2> QED BY <2>1, <1>5, FS_Injection DEF n
<1>7. ToSet(s) = S
  BY <1>1, <1>6 DEF ToSet, Surjection
<1> QED BY <1>3, <1>4, <1>7 DEF s

\* A set of positions of a sequence has a greatest.
LEMMA Greatest ==
    ASSUME NEW n \in Nat, NEW K, K \subseteq 1..n, K # {}
    PROVE  \E k \in K : \A j \in K : j <= k
<1> DEFINE T == {n - k : k \in K}
<1>0. \A k \in K : k \in 1..n /\ n - k \in Nat
  OBVIOUS
<1>1. T \subseteq Nat /\ T # {}
  BY <1>0
<1>w. IsWellFoundedOn({ss \in Nat \X Nat : ss[1] < ss[2]}, Nat)
  BY NatLessThanWellFounded, Zenon DEF OpToRel
<1>2. PICK x \in T : \A y \in T : ~(<<y, x>> \in {ss \in Nat \X Nat : ss[1] < ss[2]})
  <2> HIDE DEF T
  <2> QED BY <1>1, <1>w, WFMin
<1>3. ASSUME NEW y \in T PROVE x <= y
  <2> HIDE DEF T
  <2>1. x \in Nat /\ y \in Nat
    BY <1>1
  <2>2. ~(<<y, x>> \in {ss \in Nat \X Nat : ss[1] < ss[2]})
    BY <1>2
  <2>3. ~(y < x)
    BY <2>1, <2>2
  <2> QED BY <2>1, <2>3
<1>4. PICK k \in K : x = n - k
  OBVIOUS
<1>5. ASSUME NEW j \in K PROVE j <= k
  <2>1. n - j \in T
    OBVIOUS
  <2>2. x <= n - j
    BY <1>3, <2>1
  <2>3. j \in Nat /\ k \in Nat
    OBVIOUS
  <2> HIDE DEF T
  <2> QED BY <2>2, <2>3, <1>4
<1> QED BY <1>5

-----------------------------------------------------------------------------
(* The sequences of the page *)

\* What the loop of shift leaves: everything within the view, in its order.
LEMMA TrimProperties ==
    ASSUME NEW S, S \subseteq Samples, NEW s \in Seq(S), NEW vl \in Int
    PROVE  /\ Trim(s, vl) \in Seq(S) /\ ToSet(Trim(s, vl)) \subseteq ToSet(s)
           /\ \A x \in ToSet(s) : x.ts >= vl => x \in ToSet(Trim(s, vl))
           /\ Rising(s) => Rising(Trim(s, vl))
<1> DEFINE n == Len(s)
           kept == {k \in 1..(n + 1) : \A j \in 1..(k - 1) : s[j].ts < vl}
           k == CHOOSE k \in kept : \A j \in kept : j <= k
           t == SubSeq(s, k, n)
<1>1. n \in Nat /\ DOMAIN s = 1..n /\ \A i \in 1..n : s[i] \in S
  BY LenProperties, ElementOfSeq
<1>2. kept \subseteq 1..(n + 1) /\ 1 \in kept
  BY <1>1
<1>3. \E x \in kept : \A j \in kept : j <= x
  <2> HIDE DEF kept
  <2>1. n + 1 \in Nat /\ kept # {}
    BY <1>1, <1>2
  <2> QED BY <1>2, <2>1, Greatest
<1>4. k \in kept
  <2> HIDE DEF kept
  <2> QED BY <1>3
<1> HIDE DEF k
<1>5. k \in 1..(n + 1) /\ \A j \in 1..(k - 1) : s[j].ts < vl
  BY <1>4
<1>6. /\ t \in Seq(S) /\ Len(t) = n - k + 1
      /\ \A i \in 1..(n - k + 1) : t[i] = s[k + i - 1]
  <2>1. \A i \in k..n : s[i] \in S
    BY <1>1, <1>5
  <2>2. k <= n \/ n - k + 1 = 0
    BY <1>1, <1>5
  <2>3. k <= n => ~(n - k + 1 = 0)
    BY <1>1, <1>5
  <2> QED BY <1>1, <1>5, <2>1, <2>2, <2>3, SubSeqProperties
<1>7. Trim(s, vl) = t
  BY DEF Trim, k
<1> HIDE DEF t, n
<1>8. DOMAIN t = 1..(n - k + 1)
  BY <1>6, LenProperties
<1>9. ASSUME NEW x \in ToSet(t) PROVE x \in ToSet(s)
  <2>1. PICK i \in 1..(n - k + 1) : x = t[i]
    BY <1>8 DEF ToSet
  <2>2. k + i - 1 \in 1..n /\ x = s[k + i - 1]
    BY <2>1, <1>1, <1>5, <1>6
  <2> QED BY <2>2, <1>1 DEF ToSet
<1>10. ASSUME NEW x \in ToSet(s), x.ts >= vl PROVE x \in ToSet(t)
  <2>1. PICK i \in 1..n : x = s[i]
    BY <1>1 DEF ToSet
  <2>2. s[i].ts \in Nat
    BY <1>1, <2>1 DEF Samples
  <2>3. ~(i \in 1..(k - 1))
    BY <2>1, <2>2, <1>5, <1>10
  <2>4. i - k + 1 \in 1..(n - k + 1) /\ k + (i - k + 1) - 1 = i
    BY <2>1, <2>3, <1>1, <1>5
  <2>5. t[i - k + 1] = x
    BY <2>1, <2>4, <1>6
  <2> QED BY <2>4, <2>5, <1>8 DEF ToSet
<1>11. ASSUME Rising(s) PROVE Rising(t)
  <2> SUFFICES ASSUME NEW i \in 1..(n - k + 1), NEW j \in 1..(n - k + 1), i <= j
               PROVE  t[i].ts <= t[j].ts
    BY <1>8 DEF Rising
  <2>1. /\ k + i - 1 \in 1..n /\ k + j - 1 \in 1..n /\ k + i - 1 <= k + j - 1
        /\ t[i] = s[k + i - 1] /\ t[j] = s[k + j - 1]
    BY <1>1, <1>5, <1>6
  <2> QED BY <2>1, <1>1, <1>11 DEF Rising
<1> QED BY <1>6, <1>7, <1>9, <1>10, <1>11

\* What push makes of a line.
LEMMA Joined ==
    ASSUME NEW S, NEW s \in Seq(S), NEW t \in Seq(S)
    PROVE  /\ s \o t \in Seq(S)
           /\ ToSet(s \o t) = ToSet(s) \cup ToSet(t)
           /\ S \subseteq Samples /\ Rising(s) /\ Rising(t)
              /\ (\A i \in DOMAIN s, j \in DOMAIN t : s[i].ts <= t[j].ts)
              => Rising(s \o t)
<1> DEFINE n == Len(s)
           k == Len(t)
           u == s \o t
<1>1. n \in Nat /\ k \in Nat /\ DOMAIN s = 1..n /\ DOMAIN t = 1..k
  BY LenProperties
<1>2. /\ u \in Seq(S) /\ Len(u) = n + k
      /\ \A i \in 1..(n + k) : u[i] = IF i <= n THEN s[i] ELSE t[i - n]
  BY ConcatProperties
<1>3. DOMAIN u = 1..(n + k)
  BY <1>2, LenProperties
<1> HIDE DEF n, k, u
<1>4. ASSUME NEW x \in ToSet(u) PROVE x \in ToSet(s) \cup ToSet(t)
  <2>1. PICK i \in 1..(n + k) : x = u[i]
    BY <1>3 DEF ToSet
  <2>2. CASE i <= n
    <3>1. i \in 1..n /\ x = s[i]
      BY <2>1, <2>2, <1>1, <1>2
    <3> QED BY <3>1, <1>1 DEF ToSet
  <2>3. CASE ~(i <= n)
    <3>1. i - n \in 1..k /\ x = t[i - n]
      BY <2>1, <2>3, <1>1, <1>2
    <3> QED BY <3>1, <1>1 DEF ToSet
  <2> QED BY <2>2, <2>3
<1>5. ASSUME NEW i \in 1..n PROVE s[i] \in ToSet(u)
  <2>1. i \in 1..(n + k) /\ u[i] = s[i]
    BY <1>1, <1>2
  <2> QED BY <2>1, <1>3 DEF ToSet
<1>6. ASSUME NEW i \in 1..k PROVE t[i] \in ToSet(u)
  <2>1. n + i \in 1..(n + k) /\ ~(n + i <= n) /\ (n + i) - n = i
    BY <1>1
  <2>2. u[n + i] = t[i]
    BY <2>1, <1>2
  <2> QED BY <2>1, <2>2, <1>3 DEF ToSet
<1>7. ToSet(u) = ToSet(s) \cup ToSet(t)
  BY <1>1, <1>4, <1>5, <1>6 DEF ToSet
<1>8. ASSUME S \subseteq Samples, Rising(s), Rising(t),
             \A i \in DOMAIN s, j \in DOMAIN t : s[i].ts <= t[j].ts
      PROVE  Rising(u)
  <2> SUFFICES ASSUME NEW i \in 1..(n + k), NEW j \in 1..(n + k), i <= j
               PROVE  u[i].ts <= u[j].ts
    BY <1>3 DEF Rising
  <2>1. CASE j <= n
    <3>1. i \in 1..n /\ j \in 1..n /\ u[i] = s[i] /\ u[j] = s[j]
      BY <2>1, <1>1, <1>2
    <3> QED BY <3>1, <1>1, <1>8 DEF Rising
  <2>2. CASE i <= n /\ ~(j <= n)
    <3>1. i \in 1..n /\ j - n \in 1..k /\ u[i] = s[i] /\ u[j] = t[j - n]
      BY <2>2, <1>1, <1>2
    <3> QED BY <3>1, <1>1, <1>8
  <2>3. CASE ~(i <= n)
    <3>1. i - n \in 1..k /\ j - n \in 1..k /\ i - n <= j - n
      BY <2>3, <1>1
    <3>2. u[i] = t[i - n] /\ u[j] = t[j - n]
      BY <2>3, <1>1, <1>2
    <3> QED BY <3>1, <3>2, <1>1, <1>8 DEF Rising
  <2> QED BY <2>1, <2>2, <2>3
<1> QED BY <1>2, <1>7, <1>8 DEF u

\* One element of a sequence is replaced.
LEMMA Replaced ==
    ASSUME NEW S, NEW s \in Seq(S), NEW i \in DOMAIN s, NEW e \in S
    PROVE  LET t == [s EXCEPT ![i] = e]
           IN  /\ t \in Seq(S) /\ Len(t) = Len(s) /\ DOMAIN t = DOMAIN s
               /\ \A j \in DOMAIN s : t[j] = IF j = i THEN e ELSE s[j]
               /\ ToSet(t) \subseteq ToSet(s) \cup {e}
<1> DEFINE t == [s EXCEPT ![i] = e]
<1>1. DOMAIN s = 1..Len(s)
  BY LenProperties
<1>2. /\ t \in Seq(S) /\ Len(t) = Len(s) /\ DOMAIN t = DOMAIN s
      /\ \A j \in DOMAIN s : t[j] = IF j = i THEN e ELSE s[j]
  BY <1>1, ExceptSeq
<1> HIDE DEF t
<1>3. ToSet(t) \subseteq ToSet(s) \cup {e}
  BY <1>2 DEF ToSet
<1> QED BY <1>2, <1>3 DEF t

-----------------------------------------------------------------------------
(* The store by itself *)

\* A member carries the time its message was last received, or is gone; no
\* time lies ahead of the clock.  (An expiry left half done by a restart works
\* on with an older timestamp, which removes less.)
Scores ==
    /\ sample.ts <= clock
    /\ \A m \in Messages : zset[m] \in {written[m], Absent}

SInv == StoreTypeOK /\ Scores /\ VisibleKept

LEMMA NoSampleType == NoSample \in [m : Messages, ts : {0}]
BY StoreAssumption DEF NoSample

LEMMA InitSInv == StoreInit => SInv
BY NoSampleType, StoreAssumption
   DEF StoreInit, SInv, StoreTypeOK, Scores, VisibleKept, Sample, Time, Absent

LEMMA NextSInv == SInv /\ [StoreNext]_<<clock, store>> => SInv'
<1> SUFFICES ASSUME SInv, [StoreNext]_<<clock, store>> PROVE SInv'
  OBVIOUS
<1> USE StoreAssumption DEF SInv, StoreTypeOK, Scores, VisibleKept, Time, Absent
<1>1. CASE Tick
  BY <1>1 DEF Tick, store, Sample
<1>2. ASSUME NEW m \in Messages, Receive(m) PROVE SInv'
  BY <1>2 DEF Receive, Sample
<1>3. CASE Add
  <2>1. sample.m \in Messages /\ sample.ts \in 0..MaxTime
    BY DEF Sample
  <2>2. StoreTypeOK'
    BY <1>3, <2>1 DEF Add
  <2>3. \A m \in Messages : /\ zset'[m] = IF m = sample.m THEN sample.ts ELSE zset[m]
                            /\ written'[m] = IF m = sample.m THEN sample.ts ELSE written[m]
    BY <1>3 DEF Add
  <2>4. Scores' /\ VisibleKept'
    BY <1>3, <2>1, <2>3 DEF Add
  <2> QED BY <2>2, <2>4
<1>4. CASE Expire
  <2>1. Deadline \in Int /\ Deadline < clock - SCOPE
    BY DEF Deadline, Sample
  <2>2. \A m \in Messages : zset'[m] = IF zset[m] \in 0..Deadline THEN -1 ELSE zset[m]
    BY <1>4 DEF Expire
  <2>3. StoreTypeOK'
    BY <1>4, NoSampleType DEF Expire, Sample
  <2>4. Scores'
    BY <1>4, <2>2, NoSampleType DEF Expire
  <2>5. VisibleKept'
    BY <1>4, <2>1, <2>2 DEF Expire
  <2> QED BY <2>3, <2>4, <2>5
<1>5. CASE Restart
  BY <1>5, NoSampleType DEF Restart, Sample
<1>6. CASE UNCHANGED <<clock, store>>
  BY <1>6 DEF store
<1> QED BY <1>1, <1>2, <1>3, <1>4, <1>5, <1>6 DEF StoreNext

-----------------------------------------------------------------------------
(* The inductive invariant of the page *)

\* No write from now on has a lower score.
NextScore == IF writer = "add" THEN sample.ts ELSE clock

\* The members of the set; any number of them was sent, finitely many are kept.
Stored == {m \in Messages : zset[m] # Absent}

Written ==
    /\ IsFiniteSet(Stored)
    /\ \A m \in Messages : written[m] <= NextScore
    /\ Scores

\* Every stored sample in view and older than l is on the chart.
Covered(l) ==
    \A m \in Messages, d \in 1..N :
        zset[m] >= 0 /\ zset[m] \in limit..(l - 1)
            => [m |-> m, ts |-> zset[m]] \in ToSet(chart[d])

\* The lower end of the range poll p asks for.
Oldest(p) == Later(p.latest, Viewlimit(p.time))

\* Dataset d of the answer to p has all of the range the page will take for
\* known once it has the answer.
Complete(p, d) ==
    \A m \in Messages :
        zset[m] >= 0 /\ zset[m] \in Oldest(p)..(Latest(p) - 1)
            => [m |-> m, ts |-> zset[m]] \in ToSet(p.datas[d])

PollOK(p) ==
    /\ p.st # "serving" => p.datas = <<>>
    /\ Len(p.datas) <= N
    /\ p.latest <= NextScore /\ Covered(p.latest)
    /\ \A d \in DOMAIN p.datas :
          /\ Complete(p, d) /\ Rising(p.datas[d])
          /\ \A k \in DOMAIN p.datas[d] :
                /\ p.datas[d][k].ts \in p.latest..NextScore
                /\ p.datas[d][k].ts <= p.time

\* Unless polls overlap one at most is under way, and it goes on from where
\* the chart ends.
OneAtATime ==
    ~overlapped =>
        /\ \A i, j \in DOMAIN polls : i < j => polls[i].st = "done"
        /\ \A i \in DOMAIN polls : polls[i].st # "done" => polls[i].latest = latest
        /\ Rising(chart[1])
        /\ \A k \in DOMAIN chart[1] : chart[1][k].ts <= latest

PInv ==
    /\ TypeOK /\ Written
    /\ latest <= NextScore /\ Covered(latest)
    /\ \A p \in ToSet(polls) : PollOK(p)
    /\ OneAtATime

LEMMA PointsAreSamples == Point \subseteq Samples
<1> SUFFICES ASSUME NEW x \in Point PROVE x \in Samples
  OBVIOUS
<1>1. x = [m |-> x.m, ts |-> x.ts] /\ x.m \in Messages /\ x.ts \in 0..MaxTime
  BY DEF Point, Time
<1>2. x.m \in Nat /\ x.ts \in Nat
  BY <1>1, PageAssumption, StoreAssumption
<1> QED BY <1>1, <1>2 DEF Samples

LEMMA NextScoreType ==
    ASSUME StoreTypeOK PROVE NextScore \in Nat
BY StoreAssumption DEF StoreTypeOK, NextScore, Sample, Time

\* What a query answers.
LEMMA QueryAnswer ==
    ASSUME StoreTypeOK, Written, NEW from \in Int, NEW to \in Time
    PROVE  LET s == zrangebyscore(from, to)
           IN  /\ s \in Seq(Point) /\ Rising(s)
               /\ \A k \in DOMAIN s : s[k].ts \in from..NextScore /\ s[k].ts <= to
               /\ \A m \in Messages : zset[m] \in 0..to /\ zset[m] >= from
                      => [m |-> m, ts |-> zset[m]] \in ToSet(s)
<1> DEFINE scores == {t \in 0..to : t >= from}
           D == {m \in Messages : zset[m] \in scores}
           S == Members(scores)
           s == zrangebyscore(from, to)
<1>1. IsFiniteSet(D)
  <2>1. D \subseteq Stored
    BY DEF Stored, Absent
  <2> QED BY <2>1, FS_Subset DEF Written, Scores
<1>2. S = {[m |-> m, ts |-> zset[m]] : m \in D}
  BY DEF Members
<1>3. to \in Nat /\ to <= MaxTime
  BY StoreAssumption DEF Time
<1>4. S \subseteq Point
  BY <1>2, <1>3, StoreAssumption DEF Point, Time
<1>5. IsFiniteSet(S)
  <2> HIDE DEF D, S
  <2>1. [m \in D |-> [m |-> m, ts |-> zset[m]]] \in Surjection(D, S)
    BY <1>2 DEF Surjection
  <2> QED BY <1>1, <2>1, FS_Surjection
<1>6. /\ s \in Seq(S) /\ ToSet(s) = S /\ Rising(s)
  <2> HIDE DEF S
  <2>1. S \subseteq Samples
    BY <1>4, PointsAreSamples
  <2>2. s = InOrder(S)
    BY DEF zrangebyscore, S
  <2> QED BY <1>5, <2>1, <2>2, InOrderProperties
<1> HIDE DEF s
<1>7. s \in Seq(Point)
  BY <1>4, <1>6, SeqMonotonic
<1>8. ASSUME NEW k \in DOMAIN s PROVE s[k].ts \in from..NextScore /\ s[k].ts <= to
  <2>1. s[k] \in S
    BY <1>6 DEF ToSet
  <2>2. PICK m \in D : s[k].ts = zset[m]
    BY <2>1, <1>2
  <2>3. zset[m] \in Nat /\ zset[m] >= from /\ zset[m] <= to /\ zset[m] # Absent
    BY <2>2, <1>3 DEF Absent
  <2>4. zset[m] <= NextScore
    BY <2>2, <2>3 DEF Written, Scores
  <2> QED BY <2>2, <2>3, <2>4, NextScoreType
<1>9. ASSUME NEW m \in Messages, zset[m] \in 0..to, zset[m] >= from
      PROVE  [m |-> m, ts |-> zset[m]] \in ToSet(s)
  BY <1>2, <1>6, <1>9
<1> QED BY <1>6, <1>7, <1>8, <1>9 DEF s

-----------------------------------------------------------------------------
(* The initial state and the store's steps *)

LEMMA InitPInv == Init => PInv
<1> SUFFICES ASSUME Init PROVE PInv
  OBVIOUS
<1>1. StoreTypeOK /\ sample.ts = 0
  BY InitSInv, NoSampleType DEF Init, SInv, StoreInit
<1>2. TypeOK
  <2>1. <<>> \in Seq(Point) /\ <<>> \in Seq(Poll)
    BY EmptySeq
  <2>2. chart \in [1..N -> Seq(Point)]
    BY <2>1 DEF Init
  <2>3. latest \in Time \cup {-1} /\ limit \in -SCOPE..MaxTime
    BY StoreAssumption DEF Init
  <2> QED BY <1>1, <2>1, <2>2, <2>3 DEF Init, TypeOK
<1>3. Written /\ NextScore = 0
  <2>1. Stored = {}
    BY DEF Init, StoreInit, Stored, Absent
  <2>2. NextScore = 0
    BY DEF Init, StoreInit, NextScore
  <2> QED BY <1>1, <2>1, <2>2, FS_EmptySet DEF Init, StoreInit, Written, Scores, Absent
<1>4. Covered(latest)
  BY DEF Init, StoreInit, Covered, Absent
<1>5. \A p \in ToSet(polls) : PollOK(p)
  BY EmptySeq DEF Init, ToSet
<1>6. OneAtATime
  BY EmptySeq, PageAssumption DEF Init, OneAtATime, Rising
<1> QED BY <1>2, <1>3, <1>4, <1>5, <1>6 DEF PInv, Init

\* A step of the store: scores do not fall, and what is added is not older than
\* anything the page takes for known.
LEMMA StoreStep ==
    ASSUME StoreTypeOK, Written, StoreNext
    PROVE  /\ NextScore' >= NextScore /\ NextScore' \in Nat /\ Written' /\ StoreTypeOK'
           /\ \A m \in Messages : zset'[m] \in {zset[m], Absent} \/ zset'[m] >= NextScore
<1> USE StoreAssumption DEF StoreTypeOK, Time, Absent
<1> DEFINE Kept == \A m \in Messages : zset'[m] \in {zset[m], Absent}
           Scores1 == /\ NextScore' >= NextScore /\ NextScore' \in Nat /\ sample.ts <= clock
                      /\ \A m \in Messages : written'[m] <= NextScore'
                      /\ \A m \in Messages : zset'[m] \in {written'[m], Absent}
                      /\ sample'.ts <= clock'
<1>0. NextScore \in Nat /\ sample.m \in Messages /\ sample.ts \in 0..MaxTime
  BY NextScoreType DEF Sample
<1>1. CASE Tick \/ (\E m \in Messages : Receive(m)) \/ Restart
  <2>1. StoreTypeOK' /\ zset' = zset /\ written' = written
    BY <1>1, NoSampleType DEF Tick, Receive, Restart, store, Sample
  <2>2. Scores1
    BY <1>1, <2>1, NoSampleType DEF Written, Scores, NextScore, Tick, Receive, Restart, store, Sample
  <2>3. Stored' = Stored
    BY <2>1 DEF Stored
  <2> QED BY <1>0, <2>1, <2>2, <2>3 DEF Written, Scores
<1>2. CASE Add
  <2>1. StoreTypeOK'
    BY <1>2, <1>0 DEF Add
  <2>2. \A m \in Messages : /\ zset'[m] = IF m = sample.m THEN sample.ts ELSE zset[m]
                            /\ written'[m] = IF m = sample.m THEN sample.ts ELSE written[m]
    BY <1>2 DEF Add
  <2>3. Scores1 /\ NextScore = sample.ts
    BY <1>2, <1>0, <2>2 DEF Written, Scores, NextScore, Add
  <2>4. IsFiniteSet(Stored')
    <3>1. Stored' \subseteq Stored \cup {sample.m}
      BY <2>2 DEF Stored
    <3>2. IsFiniteSet(Stored \cup {sample.m})
      BY FS_AddElement DEF Written, Scores
    <3> QED BY <3>1, <3>2, FS_Subset
  <2> QED BY <1>0, <2>1, <2>2, <2>3, <2>4 DEF Written, Scores
<1>3. CASE Expire
  <2>1. \A m \in Messages : zset'[m] = IF zset[m] \in 0..Deadline THEN Absent ELSE zset[m]
    BY <1>3 DEF Expire
  <2>2. StoreTypeOK'
    BY <1>3, NoSampleType DEF Expire, Sample
  <2>3. Scores1 /\ Kept
    BY <1>3, <2>1, NoSampleType DEF Written, Scores, NextScore, Expire, Sample
  <2>4. IsFiniteSet(Stored')
    <3>1. Stored' \subseteq Stored
      BY <2>1 DEF Stored
    <3> QED BY <3>1, FS_Subset DEF Written, Scores
  <2> QED BY <1>0, <2>2, <2>3, <2>4 DEF Written, Scores
<1> QED BY <1>1, <1>2, <1>3 DEF StoreNext

\* The types of a poll and of its fields.
LEMMA PollTypes ==
    ASSUME TypeOK
    PROVE  \A p \in ToSet(polls) : p \in Poll
BY LenProperties, ElementOfSeq DEF TypeOK, ToSet

LEMMA PollFields ==
    ASSUME NEW p \in Poll
    PROVE  /\ p.latest \in Int /\ p.time \in Time /\ p.datas \in Seq(Seq(Point))
           /\ DOMAIN p.datas = 1..Len(p.datas) /\ Len(p.datas) \in Nat
           /\ \A d \in DOMAIN p.datas : p.datas[d] \in Seq(Point)
           /\ Viewlimit(p.time) \in -SCOPE..MaxTime /\ Oldest(p) \in Int
           /\ Oldest(p) >= p.latest /\ Oldest(p) >= Viewlimit(p.time)
           /\ Oldest(p) \in {p.latest, Viewlimit(p.time)}
<1>1. p.latest \in Int /\ p.time \in Time /\ p.datas \in Seq(Seq(Point))
  BY StoreAssumption DEF Poll, Time
<1>2. /\ DOMAIN p.datas = 1..Len(p.datas) /\ Len(p.datas) \in Nat
      /\ \A d \in DOMAIN p.datas : p.datas[d] \in Seq(Point)
  BY <1>1, LenProperties, ElementOfSeq
<1>3. Viewlimit(p.time) \in -SCOPE..MaxTime
  BY <1>1, StoreAssumption DEF Viewlimit, Time
<1>4. /\ Oldest(p) \in Int /\ Oldest(p) >= p.latest /\ Oldest(p) >= Viewlimit(p.time)
      /\ Oldest(p) \in {p.latest, Viewlimit(p.time)}
  BY <1>1, <1>3, StoreAssumption DEF Oldest, Later
<1> QED BY <1>1, <1>2, <1>3, <1>4

\* What the page takes over from an answer is a score of its first dataset, or
\* what it had.
LEMMA LatestOf ==
    ASSUME TypeOK, NEW p \in Poll, PollOK(p), p.datas # <<>>
    PROVE  /\ Latest(p) \in p.latest..NextScore
           /\ p.datas[1] = <<>> => Latest(p) = p.latest
           /\ \A k \in DOMAIN p.datas[1] : p.datas[1][k].ts <= Latest(p)
<1>1. /\ p.latest \in Int /\ p.latest <= NextScore /\ NextScore \in Nat
  BY PollFields, NextScoreType DEF PollOK, TypeOK
<1>2. 1 \in DOMAIN p.datas
  <2>1. p.datas \in Seq(Seq(Point)) /\ DOMAIN p.datas = 1..Len(p.datas)
    BY PollFields
  <2>2. Len(p.datas) \in Nat \ {0}
    BY <2>1, EmptySeq
  <2> QED BY <2>1, <2>2
<1>3. p.datas[1] \in Seq(Point) /\ Rising(p.datas[1])
      /\ \A k \in DOMAIN p.datas[1] : p.datas[1][k].ts \in p.latest..NextScore
  BY <1>2, PollFields DEF PollOK
<1>4. CASE p.datas[1] = <<>>
  <2>1. DOMAIN p.datas[1] = {}
    BY <1>4, EmptySeq
  <2> QED BY <1>1, <1>4, <2>1 DEF Latest
<1>5. CASE p.datas[1] # <<>>
  <2> DEFINE n == Len(p.datas[1])
  <2>1. DOMAIN p.datas[1] = 1..n /\ n \in Nat \ {0}
    BY <1>3, <1>5, LenProperties, EmptySeq
  <2>2. Latest(p) = p.datas[1][n].ts
    BY <1>5 DEF Latest, Last
  <2>3. n \in DOMAIN p.datas[1] /\ \A k \in DOMAIN p.datas[1] : k <= n
    BY <2>1
  <2> HIDE DEF n
  <2> QED BY <1>3, <1>5, <2>2, <2>3 DEF Rising
<1> QED BY <1>4, <1>5

-----------------------------------------------------------------------------
(* Each action *)

LEMMA StoreKeeps ==
    ASSUME PInv, StoreNext, UNCHANGED page
    PROVE  PInv'
<1>1. /\ TypeOK /\ StoreTypeOK /\ Written
      /\ chart' = chart /\ latest' = latest /\ polls' = polls /\ limit' = limit
      /\ overlapped' = overlapped /\ NextScore \in Nat
  BY NextScoreType DEF PInv, TypeOK, page
<1>2. /\ NextScore' >= NextScore /\ NextScore' \in Nat /\ Written' /\ StoreTypeOK'
      /\ \A m \in Messages : zset'[m] \in {zset[m], Absent} \/ zset'[m] >= NextScore
  BY <1>1, StoreStep
<1>3. TypeOK'
  BY <1>1, <1>2 DEF TypeOK
<1>4. \A m \in Messages : zset'[m] \in Int /\ zset[m] \in Int
  BY <1>1, <1>2, StoreAssumption DEF StoreTypeOK, Time, Absent
<1>5. ASSUME NEW m \in Messages, NEW k \in Int, k <= NextScore, zset'[m] >= 0, zset'[m] <= k - 1
      PROVE  zset'[m] = zset[m]
  BY <1>1, <1>2, <1>4, <1>5 DEF Absent
<1>6. limit \in Int /\ latest \in Int
  BY <1>1, StoreAssumption DEF TypeOK, Time
<1>7. ASSUME NEW l \in Int, l <= NextScore, Covered(l) PROVE Covered(l)'
  BY <1>1, <1>4, <1>5, <1>6, <1>7 DEF Covered
<1>8. ASSUME NEW p \in ToSet(polls) PROVE PollOK(p)'
  <2>1. p \in Poll /\ PollOK(p)
    BY <1>1, PollTypes DEF PInv
  <2>2. /\ p.latest \in Int /\ Oldest(p) \in Int /\ Len(p.datas) \in Nat
        /\ \A d \in DOMAIN p.datas : p.datas[d] \in Seq(Point)
    BY <2>1, PollFields
  <2>3. ASSUME NEW d \in DOMAIN p.datas PROVE Complete(p, d)'
    <3>1. p.datas # <<>>
      BY EmptySeq
    <3>2. Latest(p) \in Int /\ Latest(p) <= NextScore
      BY <1>1, <2>1, <2>2, <3>1, LatestOf
    <3>3. Complete(p, d)
      BY <2>1 DEF PollOK
    <3> QED BY <1>4, <1>5, <2>2, <3>2, <3>3 DEF Complete
  <2>4. Covered(p.latest)'
    BY <1>7, <2>1, <2>2 DEF PollOK
  <2>5. ASSUME NEW d \in DOMAIN p.datas, NEW k \in DOMAIN p.datas[d]
        PROVE  p.datas[d][k].ts \in p.latest..NextScore'
    BY <1>1, <1>2, <2>1, <2>2 DEF PollOK
  <2>6. p.latest <= NextScore'
    BY <1>1, <1>2, <2>1, <2>2 DEF PollOK
  <2> QED BY <2>1, <2>3, <2>4, <2>5, <2>6 DEF PollOK
<1>9. latest' <= NextScore' /\ Covered(latest)'
  <2>1. latest <= NextScore /\ Covered(latest)
    BY DEF PInv
  <2>2. PICK l \in Int : l = latest
    BY <1>6
  <2>3. Covered(l)'
    BY <1>7, <2>1, <2>2
  <2> QED BY <1>1, <1>2, <1>6, <2>1, <2>2, <2>3 DEF Covered
<1>10. OneAtATime'
  BY <1>1 DEF PInv, OneAtATime
<1> QED BY <1>1, <1>2, <1>3, <1>8, <1>9, <1>10 DEF PInv

\* Steps that change neither the store nor the chart.
LEMMA StillOK ==
    ASSUME UNCHANGED <<clock, store, chart, limit>>
    PROVE  /\ NextScore' = NextScore /\ Written' = Written
           /\ \A l : Covered(l)' = Covered(l)
           /\ \A p : PollOK(p)' = PollOK(p)
<1>1. NextScore' = NextScore /\ Written' = Written
  BY DEF store, NextScore, Written, Scores, Stored
<1>2. \A l : Covered(l)' = Covered(l)
  BY DEF store, Covered
<1>3. \A p, d : Complete(p, d)' = Complete(p, d)
  BY DEF store, Complete
<1>4. \A p : PollOK(p)' = PollOK(p)
  BY <1>1, <1>2, <1>3 DEF PollOK
<1> QED BY <1>1, <1>2, <1>4

LEMMA PollRecord ==
    /\ Done \in Poll
    /\ \A l \in Time \cup {-1} : [st |-> "sent", latest |-> l, time |-> 0, datas |-> <<>>] \in Poll
    /\ \A p \in Poll, t \in Time :
          /\ [p EXCEPT !.st = "serving", !.time = t] \in Poll
          /\ \A ds \in Seq(Seq(Point)) : [p EXCEPT !.datas = ds] \in Poll
<1>1. <<>> \in Seq(Seq(Point)) /\ 0 \in Time
  BY EmptySeq, StoreAssumption DEF Time
<1> QED BY <1>1 DEF Done, Poll

LEMMA SendKeeps ==
    ASSUME PInv, Send
    PROVE  PInv'
<1> DEFINE e == [st |-> "sent", latest |-> latest, time |-> 0, datas |-> <<>>]
<1>1. PICK p : p = e
  OBVIOUS
<1>2. /\ TypeOK /\ Written /\ latest <= NextScore /\ Covered(latest)
      /\ polls \in Seq(Poll) /\ latest \in Time \cup {-1}
  BY DEF PInv, TypeOK
<1>3. /\ UNCHANGED <<clock, store, chart, latest, limit>>
      /\ polls' = Append(polls, p)
      /\ overlapped' = (overlapped \/ \E i \in DOMAIN polls : polls[i].st # "done")
  BY <1>1 DEF Send
<1>4. p \in Poll /\ p.latest = latest /\ p.datas = <<>> /\ p.st = "sent"
  BY <1>1, <1>2, PollRecord
<1>5. /\ polls' \in Seq(Poll) /\ Len(polls') = Len(polls) + 1
      /\ polls'[Len(polls) + 1] = p
      /\ \A i \in 1..Len(polls) : polls'[i] = polls[i]
      /\ DOMAIN polls' = 1..(Len(polls) + 1) /\ DOMAIN polls = 1..Len(polls)
      /\ Len(polls) \in Nat
  BY <1>2, <1>3, <1>4, AppendProperties, LenProperties
<1>6. PollOK(p)
  <2>1. DOMAIN p.datas = {} /\ Len(p.datas) = 0
    BY <1>4, EmptySeq
  <2>2. Covered(p.latest)
    BY <1>2, <1>4
  <2> QED BY <1>2, <1>4, <2>1, <2>2, PageAssumption DEF PollOK
<1>7. ASSUME NEW q \in ToSet(polls') PROVE PollOK(q)'
  <2>1. q \in ToSet(polls) \/ q = p
    BY <1>5 DEF ToSet
  <2>2. PollOK(q)
    BY <2>1, <1>6 DEF PInv
  <2> QED BY <1>3, <2>2, StillOK
<1>8. TypeOK'
  BY <1>2, <1>3, <1>5 DEF TypeOK, StoreTypeOK, store
<1>9. Written' /\ latest' <= NextScore' /\ Covered(latest)'
  <2>1. Written' /\ NextScore' = NextScore
    BY <1>2, <1>3, StillOK
  <2>2. Covered(latest)'
    BY <1>2, <1>3 DEF Covered, store
  <2> QED BY <2>1, <2>2, <1>2, <1>3
<1>10. OneAtATime'
  <2> SUFFICES ASSUME ~overlapped'
               PROVE  /\ \A i, j \in DOMAIN polls' : i < j => polls'[i].st = "done"
                      /\ \A i \in DOMAIN polls' : polls'[i].st # "done" => polls'[i].latest = latest'
                      /\ Rising(chart'[1])
                      /\ \A k \in DOMAIN chart'[1] : chart'[1][k].ts <= latest'
    BY DEF OneAtATime, Rising
  <2>1. \A i \in 1..Len(polls) : polls'[i].st = "done"
    BY <1>3, <1>5
  <2>2. /\ Rising(chart[1]) /\ \A k \in DOMAIN chart[1] : chart[1][k].ts <= latest
    BY <1>3 DEF PInv, OneAtATime
  <2>3. ASSUME NEW i \in DOMAIN polls', NEW j \in DOMAIN polls', i < j
        PROVE  polls'[i].st = "done"
    <3>1. i \in 1..Len(polls)
      BY <1>5, <2>3
    <3> QED BY <3>1, <2>1
  <2>4. ASSUME NEW i \in DOMAIN polls', polls'[i].st # "done"
        PROVE  polls'[i].latest = latest'
    <3>1. i = Len(polls) + 1
      BY <1>5, <2>1, <2>4
    <3> QED BY <3>1, <1>3, <1>4, <1>5
  <2> QED BY <1>3, <2>2, <2>3, <2>4
<1> QED BY <1>7, <1>8, <1>9, <1>10 DEF PInv

\* A poll takes its next step and neither the store nor the chart changes.
LEMMA PollSteps ==
    ASSUME PInv, NEW i \in DOMAIN polls, NEW p \in Poll, PollOK(p),
           polls' = [polls EXCEPT ![i] = p],
           p.st # "done" => polls[i].st # "done" /\ p.latest = polls[i].latest,
           UNCHANGED <<clock, store, chart, latest, limit, overlapped>>
    PROVE  PInv'
<1>1. polls \in Seq(Poll) /\ TypeOK /\ Written
  BY DEF PInv, TypeOK
<1>2. /\ polls' \in Seq(Poll) /\ DOMAIN polls' = DOMAIN polls
      /\ \A j \in DOMAIN polls : polls'[j] = IF j = i THEN p ELSE polls[j]
      /\ ToSet(polls') \subseteq ToSet(polls) \cup {p}
  BY <1>1, Replaced
<1>3. ASSUME NEW q \in ToSet(polls') PROVE PollOK(q)'
  <2>1. PollOK(q)
    BY <1>2 DEF PInv
  <2> QED BY <2>1, StillOK
<1>4. TypeOK'
  BY <1>1, <1>2 DEF TypeOK, StoreTypeOK, store
<1>5. Written' /\ latest' <= NextScore' /\ Covered(latest)'
  <2>1. Written' /\ NextScore' = NextScore
    BY <1>1, StillOK
  <2>2. Covered(latest)'
    BY DEF PInv, Covered, store
  <2> QED BY <2>1, <2>2 DEF PInv
<1>6. OneAtATime'
  <2> SUFFICES ASSUME ~overlapped
               PROVE  /\ \A k, j \in DOMAIN polls' : k < j => polls'[k].st = "done"
                      /\ \A j \in DOMAIN polls' : polls'[j].st # "done" => polls'[j].latest = latest
                      /\ Rising(chart[1])
                      /\ \A k \in DOMAIN chart[1] : chart[1][k].ts <= latest
    BY DEF OneAtATime, Rising
  <2>1. /\ \A k, j \in DOMAIN polls : k < j => polls[k].st = "done"
        /\ \A j \in DOMAIN polls : polls[j].st # "done" => polls[j].latest = latest
        /\ Rising(chart[1])
        /\ \A k \in DOMAIN chart[1] : chart[1][k].ts <= latest
    BY DEF PInv, OneAtATime
  <2> QED BY <1>2, <2>1
<1> QED BY <1>3, <1>4, <1>5, <1>6 DEF PInv

LEMMA BeginKeeps ==
    ASSUME PInv, NEW i \in DOMAIN polls, Begin(i)
    PROVE  PInv'
<1>1. PICK o : o = polls[i]
  OBVIOUS
<1>2. PICK p : p = [o EXCEPT !.st = "serving", !.time = clock]
  OBVIOUS
<1>3. o \in Poll /\ PollOK(o) /\ polls \in Seq(Poll) /\ clock \in Time /\ TypeOK
  <2>1. o \in ToSet(polls)
    BY <1>1 DEF ToSet
  <2> QED BY <2>1, PollTypes DEF PInv, TypeOK, StoreTypeOK
<1>4. /\ p \in Poll /\ p.latest = o.latest /\ p.datas = o.datas /\ p.st = "serving"
  BY <1>2, <1>3, PollRecord DEF Poll
<1>5. o.st = "sent" /\ o.datas = <<>>
  BY <1>1, <1>3 DEF Begin, PollOK
<1>6. polls' = [polls EXCEPT ![i] = p]
  BY <1>1, <1>2, <1>3 DEF Begin
<1>7. PollOK(p)
  <2>1. DOMAIN p.datas = {}
    BY <1>4, <1>5, EmptySeq
  <2> QED BY <2>1, <1>3, <1>4 DEF PollOK
<1>8. UNCHANGED <<clock, store, chart, latest, limit, overlapped>>
  BY DEF Begin
<1> QED BY <1>1, <1>4, <1>5, <1>6, <1>7, <1>8, PollSteps

LEMMA DoneOK ==
    ASSUME PInv
    PROVE  PollOK(Done) /\ Done \in Poll /\ Done.st = "done"
<1>1. /\ Done.datas = <<>> /\ DOMAIN Done.datas = {} /\ Len(Done.datas) = 0
      /\ Done.latest = -1 /\ Done.st = "done"
  BY EmptySeq DEF Done
<1>2. NextScore \in Nat /\ limit \in Int
  BY NextScoreType, StoreAssumption DEF PInv, TypeOK
<1>3. \A m \in Messages : zset[m] \in Int
  BY StoreAssumption DEF PInv, TypeOK, StoreTypeOK, Time, Absent
<1>4. Covered(-1)
  BY <1>2, <1>3 DEF Covered
<1>5. Len(Done.datas) <= N /\ Done.latest <= NextScore /\ Covered(Done.latest)
  BY <1>1, <1>2, <1>4, PageAssumption
<1> QED BY <1>1, <1>5, PollRecord DEF PollOK

LEMMA FailKeeps ==
    ASSUME PInv, NEW i \in DOMAIN polls, Fail(i)
    PROVE  PInv'
<1>1. PollOK(Done) /\ Done \in Poll /\ Done.st = "done"
  BY DoneOK
<1>2. /\ polls' = [polls EXCEPT ![i] = Done]
      /\ UNCHANGED <<clock, store, chart, latest, limit, overlapped>>
  BY DEF Fail
<1> QED BY <1>1, <1>2, PollSteps

LEMMA QueryKeeps ==
    ASSUME PInv, NEW i \in DOMAIN polls, Query(i)
    PROVE  PInv'
<1>1. PICK o : o = polls[i]
  OBVIOUS
<1>2. PICK s : s = zrangebyscore(Oldest(o), o.time)
  OBVIOUS
<1>3. PICK p : p = [o EXCEPT !.datas = Append(o.datas, s)]
  OBVIOUS
<1>4. /\ o \in Poll /\ PollOK(o) /\ polls \in Seq(Poll) /\ TypeOK /\ StoreTypeOK /\ Written
      /\ NextScore \in Nat
  <2>1. o \in ToSet(polls)
    BY <1>1 DEF ToSet
  <2> QED BY <2>1, PollTypes, NextScoreType DEF PInv, TypeOK
<1>5. /\ o.latest \in Int /\ o.time \in Time /\ o.datas \in Seq(Seq(Point))
      /\ DOMAIN o.datas = 1..Len(o.datas) /\ Len(o.datas) \in Nat
      /\ \A d \in DOMAIN o.datas : o.datas[d] \in Seq(Point)
      /\ Oldest(o) \in Int /\ Oldest(o) >= o.latest
  BY <1>4, PollFields
<1>6. /\ s \in Seq(Point) /\ Rising(s)
      /\ \A k \in DOMAIN s : s[k].ts \in Oldest(o)..NextScore /\ s[k].ts <= o.time
      /\ \A m \in Messages : zset[m] \in 0..o.time /\ zset[m] >= Oldest(o)
             => [m |-> m, ts |-> zset[m]] \in ToSet(s)
  BY <1>2, <1>4, <1>5, QueryAnswer
<1>7. /\ p.datas \in Seq(Seq(Point)) /\ DOMAIN p.datas = 1..(Len(o.datas) + 1)
      /\ Len(p.datas) = Len(o.datas) + 1 /\ p.datas[Len(o.datas) + 1] = s
      /\ \A d \in 1..Len(o.datas) : p.datas[d] = o.datas[d]
  <2>1. p.datas = Append(o.datas, s)
    BY <1>3, <1>4 DEF Poll
  <2> QED BY <2>1, <1>5, <1>6, AppendProperties, LenProperties
<1>8. p \in Poll /\ p.latest = o.latest /\ p.time = o.time /\ p.st = o.st
  <2>1. Append(o.datas, s) \in Seq(Seq(Point))
    BY <1>5, <1>6, AppendProperties
  <2>2. [o EXCEPT !.datas = Append(o.datas, s)] \in Poll
    BY <1>4, <1>5, <2>1, PollRecord
  <2> QED BY <1>3, <1>4, <2>2 DEF Poll
<1>9. o.st = "serving" /\ Len(o.datas) < N
  BY <1>1 DEF Query
<1>10. polls' = [polls EXCEPT ![i] = p]
  BY <1>1, <1>2, <1>3, <1>4 DEF Query, Oldest
<1>11. UNCHANGED <<clock, store, chart, latest, limit, overlapped>>
  BY DEF Query
<1>12. Oldest(p) = Oldest(o)
  BY <1>8 DEF Oldest
<1>13. ASSUME NEW d \in DOMAIN p.datas
       PROVE  /\ Rising(p.datas[d])
              /\ \A k \in DOMAIN p.datas[d] :
                    p.datas[d][k].ts \in p.latest..NextScore /\ p.datas[d][k].ts <= p.time
  <2>1. CASE d \in 1..Len(o.datas)
    BY <2>1, <1>4, <1>5, <1>7, <1>8 DEF PollOK
  <2>2. CASE d = Len(o.datas) + 1
    <3>1. ASSUME NEW k \in DOMAIN s
          PROVE  s[k].ts \in p.latest..NextScore /\ s[k].ts <= p.time
      BY <1>4, <1>5, <1>6, <1>8
    <3> QED BY <2>2, <3>1, <1>6, <1>7
  <2> QED BY <2>1, <2>2, <1>5, <1>7
<1>14. /\ Latest(p) \in Int
       /\ Latest(p) <= o.time \/ Latest(p) <= Oldest(o)
  <2>1. 1 \in DOMAIN p.datas /\ p.datas[1] \in Seq(Point)
    BY <1>5, <1>6, <1>7
  <2>2. CASE p.datas[1] = <<>>
    BY <2>2, <1>5, <1>8 DEF Latest
  <2>3. CASE p.datas[1] # <<>>
    <3>1. Len(p.datas[1]) \in DOMAIN p.datas[1]
      BY <2>1, <2>3, LenProperties, EmptySeq
    <3>2. Latest(p) = p.datas[1][Len(p.datas[1])].ts
      BY <2>3 DEF Latest, Last
    <3> QED BY <2>1, <3>1, <3>2, <1>5, <1>4, <1>8, <1>13
  <2> QED BY <2>2, <2>3
<1>15. ASSUME NEW d \in DOMAIN p.datas PROVE Complete(p, d)
  <2>1. CASE d \in 1..Len(o.datas)
    <3>1. Complete(o, d)
      BY <2>1, <1>4, <1>5 DEF PollOK
    <3>2. Latest(p) = Latest(o) /\ p.datas[d] = o.datas[d]
      <4>1. 1 \in 1..Len(o.datas)
        BY <2>1, <1>5
      <4> QED BY <4>1, <2>1, <1>7, <1>8 DEF Latest
    <3> QED BY <3>1, <3>2, <1>12 DEF Complete
  <2>2. CASE d = Len(o.datas) + 1
    <3> SUFFICES ASSUME NEW m \in Messages, zset[m] >= 0,
                        zset[m] \in Oldest(p)..(Latest(p) - 1)
                 PROVE  [m |-> m, ts |-> zset[m]] \in ToSet(s)
      BY <2>2, <1>7 DEF Complete
    <3>1. zset[m] \in 0..o.time /\ zset[m] >= Oldest(o)
      <4>1. o.time \in Int
        BY <1>5, StoreAssumption DEF Time
      <4> QED BY <4>1, <1>5, <1>12, <1>14
    <3> QED BY <3>1, <1>6
  <2> QED BY <2>1, <2>2, <1>5, <1>7
<1>16. PollOK(p)
  <2>1. p.latest <= NextScore /\ Covered(p.latest)
    BY <1>4, <1>8 DEF PollOK
  <2>2. p.st = "serving" /\ Len(p.datas) <= N
    BY <1>5, <1>7, <1>8, <1>9, PageAssumption
  <2> QED BY <2>1, <2>2, <1>13, <1>15 DEF PollOK
<1> QED BY <1>1, <1>8, <1>9, <1>10, <1>11, <1>16, PollSteps

\* What the callback makes of the chart.
LEMMA AnswerChart ==
    ASSUME PInv, NEW i \in DOMAIN polls, Answer(i), NEW p, p = polls[i]
    PROVE  /\ p \in Poll /\ PollOK(p) /\ p.st = "serving" /\ p.datas # <<>>
           /\ Len(p.datas) = N /\ DOMAIN p.datas = 1..N
           /\ latest' = Latest(p) /\ limit' = Later(limit, Viewlimit(p.time))
           /\ polls' = [polls EXCEPT ![i] = Done] /\ UNCHANGED <<clock, store, overlapped>>
           /\ chart' \in [1..N -> Seq(Point)]
           /\ \A d \in 1..N :
                 LET joined == chart[d] \o p.datas[d]
                 IN  /\ ToSet(chart'[d]) \subseteq ToSet(joined)
                     /\ \A x \in ToSet(chart[d]) \cup ToSet(p.datas[d]) :
                           x.ts >= Viewlimit(p.time) => x \in ToSet(chart'[d])
                     /\ Rising(joined) => Rising(chart'[d])
<1> DEFINE vl == Viewlimit(p.time)
<1>1. /\ p \in Poll /\ PollOK(p) /\ polls \in Seq(Poll) /\ chart \in [1..N -> Seq(Point)]
  <2>1. p \in ToSet(polls)
    BY DEF ToSet
  <2> QED BY <2>1, PollTypes DEF PInv, TypeOK
<1>2. /\ p.st = "serving" /\ Len(p.datas) = N /\ DOMAIN p.datas = 1..N
      /\ \A d \in 1..N : p.datas[d] \in Seq(Point)
      /\ vl \in Int
  <2>1. p.st = "serving" /\ Len(p.datas) = N
    BY DEF Answer
  <2>2. /\ DOMAIN p.datas = 1..Len(p.datas) /\ vl \in -SCOPE..MaxTime
        /\ \A d \in DOMAIN p.datas : p.datas[d] \in Seq(Point)
    BY <1>1, PollFields
  <2> HIDE DEF vl
  <2>3. vl \in Int
    BY <2>2, StoreAssumption
  <2> QED BY <2>1, <2>2, <2>3
<1>3. p.datas # <<>>
  BY <1>2, EmptySeq, PageAssumption
<1>4. /\ chart' = [d \in 1..N |-> Trim(chart[d] \o p.datas[d], vl)]
      /\ latest' = Latest(p) /\ limit' = Later(limit, vl)
      /\ polls' = [polls EXCEPT ![i] = Done] /\ UNCHANGED <<clock, store, overlapped>>
  BY DEF Answer
<1> HIDE DEF vl
<1>5. ASSUME NEW d \in 1..N
      PROVE  /\ chart'[d] \in Seq(Point)
             /\ ToSet(chart'[d]) \subseteq ToSet(chart[d] \o p.datas[d])
             /\ \A x \in ToSet(chart[d]) \cup ToSet(p.datas[d]) :
                   x.ts >= vl => x \in ToSet(chart'[d])
             /\ Rising(chart[d] \o p.datas[d]) => Rising(chart'[d])
  <2>1. chart[d] \in Seq(Point) /\ p.datas[d] \in Seq(Point)
    BY <1>1, <1>2
  <2>2. PICK s : s = chart[d] \o p.datas[d]
    OBVIOUS
  <2>3. s \in Seq(Point) /\ ToSet(s) = ToSet(chart[d]) \cup ToSet(p.datas[d])
    BY <2>1, <2>2, Joined
  <2>4. chart'[d] = Trim(s, vl)
    BY <1>4, <2>2
  <2>5. /\ Trim(s, vl) \in Seq(Point) /\ ToSet(Trim(s, vl)) \subseteq ToSet(s)
        /\ \A x \in ToSet(s) : x.ts >= vl => x \in ToSet(Trim(s, vl))
        /\ Rising(s) => Rising(Trim(s, vl))
    BY <1>2, <2>3, PointsAreSamples, TrimProperties
  <2> QED BY <2>2, <2>3, <2>4, <2>5
<1>6. chart' \in [1..N -> Seq(Point)]
  BY <1>4, <1>5
<1> QED BY <1>1, <1>2, <1>3, <1>4, <1>5, <1>6 DEF vl

LEMMA AnswerKeeps ==
    ASSUME PInv, NEW i \in DOMAIN polls, Answer(i)
    PROVE  PInv'
<1>1. PICK p : p = polls[i]
  OBVIOUS
<1>2. PICK vl : vl = Viewlimit(p.time)
  OBVIOUS
<1>3. PICK l : l = Latest(p)
  OBVIOUS
<1>4. /\ TypeOK /\ StoreTypeOK /\ Written /\ polls \in Seq(Poll) /\ NextScore \in Nat
      /\ limit \in Int /\ limit \in -SCOPE..MaxTime
  BY NextScoreType, StoreAssumption DEF PInv, TypeOK
<1>5. /\ p \in Poll /\ PollOK(p) /\ p.st = "serving" /\ p.datas # <<>>
      /\ Len(p.datas) = N /\ DOMAIN p.datas = 1..N
      /\ latest' = l /\ limit' = Later(limit, vl)
      /\ polls' = [polls EXCEPT ![i] = Done] /\ UNCHANGED <<clock, store, overlapped>>
      /\ chart' \in [1..N -> Seq(Point)]
  BY <1>1, <1>2, <1>3, AnswerChart
<1>6. ASSUME NEW d \in 1..N
      PROVE  /\ ToSet(chart'[d]) \subseteq ToSet(chart[d] \o p.datas[d])
             /\ \A x \in ToSet(chart[d]) \cup ToSet(p.datas[d]) :
                   x.ts >= vl => x \in ToSet(chart'[d])
             /\ Rising(chart[d] \o p.datas[d]) => Rising(chart'[d])
  BY <1>1, <1>2, AnswerChart
<1>7. /\ p.latest \in Int /\ vl \in -SCOPE..MaxTime /\ Oldest(p) \in Int
      /\ Oldest(p) \in {p.latest, vl}
      /\ \A d \in 1..N : p.datas[d] \in Seq(Point)
  BY <1>2, <1>5, PollFields
<1>8. /\ l \in p.latest..NextScore
      /\ p.datas[1] = <<>> => l = p.latest
      /\ \A k \in DOMAIN p.datas[1] : p.datas[1][k].ts <= l
  BY <1>3, <1>4, <1>5, LatestOf
<1>9. limit' \in -SCOPE..MaxTime /\ limit' \in Int /\ limit' >= limit /\ limit' >= vl
  BY <1>4, <1>5, <1>7, StoreAssumption DEF Later
<1>10. zset' = zset /\ \A m \in Messages : zset[m] \in Int
  BY <1>4, <1>5, StoreAssumption DEF StoreTypeOK, Time, Absent, store
<1>11. l \in Time \cup {-1}
  <2>1. CASE p.datas[1] = <<>>
    BY <2>1, <1>5, <1>8 DEF Poll
  <2>2. CASE p.datas[1] # <<>>
    <3>1. p.datas[1] \in Seq(Point)
      BY <1>7, PageAssumption
    <3>2. p.datas[1][Len(p.datas[1])] \in Point
      BY <3>1, <2>2, LenProperties, EmptySeq, ElementOfSeq
    <3> QED BY <3>2, <2>2, <1>3 DEF Latest, Last, Point
  <2> QED BY <2>1, <2>2
<1>12. TypeOK'
  <2>1. Done \in Poll
    BY DoneOK
  <2>2. polls' \in Seq(Poll)
    BY <2>1, <1>4, <1>5, Replaced
  <2> QED BY <2>2, <1>4, <1>5, <1>9, <1>11 DEF TypeOK, StoreTypeOK, store
<1>13. Written' /\ NextScore' = NextScore
  BY <1>4, <1>5 DEF Written, Scores, NextScore, Stored, store
<1>14. ASSUME NEW t \in Int, Covered(t) PROVE Covered(t)'
  <2> SUFFICES ASSUME NEW m \in Messages, NEW d \in 1..N,
                      zset[m] >= 0, zset[m] \in limit'..(t - 1)
               PROVE  [m |-> m, ts |-> zset[m]] \in ToSet(chart'[d])
    BY <1>10 DEF Covered
  <2>1. zset[m] \in limit..(t - 1) /\ zset[m] >= vl
    BY <1>4, <1>7, <1>9, <1>10
  <2>2. [m |-> m, ts |-> zset[m]] \in ToSet(chart[d])
    BY <2>1, <1>14 DEF Covered
  <2> QED BY <2>1, <2>2, <1>6
<1>15. Covered(l)'
  <2> SUFFICES ASSUME NEW m \in Messages, NEW d \in 1..N,
                      zset[m] >= 0, zset[m] \in limit'..(l - 1)
               PROVE  [m |-> m, ts |-> zset[m]] \in ToSet(chart'[d])
    BY <1>10 DEF Covered
  <2>1. zset[m] \in limit..(l - 1) /\ zset[m] >= vl /\ zset[m] \in Int /\ l \in Int
    BY <1>4, <1>7, <1>8, <1>9, <1>10
  <2>2. CASE zset[m] < p.latest
    <3>1. zset[m] \in limit..(p.latest - 1)
      BY <2>1, <2>2, <1>4, <1>7
    <3>2. [m |-> m, ts |-> zset[m]] \in ToSet(chart[d])
      BY <3>1, <1>5 DEF Covered, PollOK
    <3> QED BY <3>2, <2>1, <1>6
  <2>3. CASE ~(zset[m] < p.latest)
    <3>1. zset[m] \in Oldest(p)..(l - 1)
      BY <2>1, <2>3, <1>7
    <3>2. [m |-> m, ts |-> zset[m]] \in ToSet(p.datas[d])
      BY <3>1, <1>3, <1>5 DEF Complete, PollOK
    <3> QED BY <3>2, <2>1, <1>6
  <2> QED BY <2>2, <2>3
<1>16. ASSUME NEW q \in ToSet(polls') PROVE PollOK(q)'
  <2>1. PollOK(q) /\ q \in Poll
    <3>1. Done \in Poll /\ PollOK(Done)
      BY DoneOK
    <3>2. q \in ToSet(polls) \cup {Done}
      BY <3>1, <1>4, <1>5, Replaced
    <3> QED BY <3>1, <3>2, <1>4, PollTypes DEF PInv
  <2>2. q.latest \in Int
    BY <2>1, PollFields
  <2>3. Covered(q.latest)'
    BY <2>1, <2>2, <1>14 DEF PollOK
  <2>4. \A d : Complete(q, d)' = Complete(q, d)
    BY <1>10 DEF Complete
  <2> QED BY <2>1, <2>3, <2>4, <1>13 DEF PollOK
<1>17. latest' <= NextScore' /\ Covered(latest)'
  BY <1>4, <1>5, <1>8, <1>13, <1>15, <1>7 DEF Covered
<1>18. OneAtATime'
  <2> SUFFICES ASSUME ~overlapped
               PROVE  /\ \A k, j \in DOMAIN polls' : k < j => polls'[k].st = "done"
                      /\ \A j \in DOMAIN polls' : polls'[j].st # "done" => polls'[j].latest = l
                      /\ Rising(chart'[1])
                      /\ \A k \in DOMAIN chart'[1] : chart'[1][k].ts <= l
    BY <1>5 DEF OneAtATime, Rising
  <2>1. /\ \A k, j \in DOMAIN polls : k < j => polls[k].st = "done"
        /\ \A j \in DOMAIN polls : polls[j].st # "done" => polls[j].latest = latest
        /\ Rising(chart[1])
        /\ \A k \in DOMAIN chart[1] : chart[1][k].ts <= latest
    BY DEF PInv, OneAtATime
  <2>2. /\ DOMAIN polls' = DOMAIN polls /\ DOMAIN polls = 1..Len(polls) /\ Len(polls) \in Nat
        /\ \A j \in DOMAIN polls : polls'[j] = IF j = i THEN Done ELSE polls[j]
    BY <1>4, <1>5, DoneOK, Replaced, LenProperties
  <2>3. Done.st = "done" /\ p.latest = latest
    BY <2>1, <1>1, <1>5, DoneOK
  <2>4. ASSUME NEW j \in DOMAIN polls PROVE polls'[j].st = "done"
    <3>1. CASE j = i
      BY <3>1, <2>2, <2>3
    <3>2. CASE j # i
      <4>1. i < j \/ j < i
        BY <3>2, <2>2
      <4>2. polls[j].st = "done"
        BY <4>1, <2>1, <1>1, <1>5
      <4> QED BY <4>2, <3>2, <2>2
    <3> QED BY <3>1, <3>2
  <2>5. /\ chart[1] \in Seq(Point) /\ p.datas[1] \in Seq(Point) /\ 1 \in 1..N
        /\ chart'[1] \in Seq(Point)
    <3>1. 1 \in 1..N
      BY PageAssumption
    <3>2. chart \in [1..N -> Seq(Point)]
      BY <1>4 DEF TypeOK
    <3> QED BY <3>1, <3>2, <1>5, <1>7
  <2>6. /\ Rising(p.datas[1])
        /\ \A k \in DOMAIN p.datas[1] : p.datas[1][k].ts \in p.latest..NextScore
    BY <1>5, <2>5 DEF PollOK
  <2>7. \A k \in DOMAIN chart[1] : chart[1][k].ts \in Int
    <3>1. \A k \in DOMAIN chart[1] : chart[1][k] \in Point
      BY <2>5, LenProperties, ElementOfSeq
    <3> QED BY <3>1, StoreAssumption DEF Point, Time
  <2>8. \A k \in DOMAIN chart[1], j \in DOMAIN p.datas[1] : chart[1][k].ts <= p.datas[1][j].ts
    BY <2>1, <2>3, <2>6, <2>7, <1>4, <1>7
  <2>9. /\ Rising(chart[1] \o p.datas[1])
        /\ ToSet(chart[1] \o p.datas[1]) = ToSet(chart[1]) \cup ToSet(p.datas[1])
    <3>1. PICK s \in Seq(Point) : s = chart[1]
      BY <2>5
    <3>2. PICK t \in Seq(Point) : t = p.datas[1]
      BY <2>5
    <3>3. ToSet(s \o t) = ToSet(s) \cup ToSet(t)
      BY Joined
    <3>4. Rising(s) /\ Rising(t) /\ \A k \in DOMAIN s, j \in DOMAIN t : s[k].ts <= t[j].ts
      BY <3>1, <3>2, <2>1, <2>6, <2>8
    <3>5. Rising(s \o t)
      BY <3>4, PointsAreSamples, Joined
    <3> QED BY <3>1, <3>2, <3>3, <3>5
  <2>10. Rising(chart'[1]) /\ ToSet(chart'[1]) \subseteq ToSet(chart[1]) \cup ToSet(p.datas[1])
    BY <2>5, <2>9, <1>6
  <2>11. ASSUME NEW x \in ToSet(chart[1]) \cup ToSet(p.datas[1]) PROVE x.ts <= l
    <3>1. CASE x \in ToSet(chart[1])
      <4>1. PICK k \in DOMAIN chart[1] : x = chart[1][k]
        BY <3>1 DEF ToSet
      <4> QED BY <4>1, <2>1, <2>3, <2>7, <1>4, <1>7, <1>8
    <3>2. CASE x \in ToSet(p.datas[1])
      <4>1. PICK k \in DOMAIN p.datas[1] : x = p.datas[1][k]
        BY <3>2 DEF ToSet
      <4> QED BY <4>1, <1>8
    <3> QED BY <3>1, <3>2
  <2>12. \A k \in DOMAIN chart'[1] : chart'[1][k].ts <= l
    BY <2>10, <2>11 DEF ToSet
  <2> QED BY <2>2, <2>4, <2>10, <2>12
<1> QED BY <1>12, <1>13, <1>16, <1>17, <1>18 DEF PInv

LEMMA NextPInv == PInv /\ [Next]_vars => PInv'
<1> SUFFICES ASSUME PInv, [Next]_vars PROVE PInv'
  OBVIOUS
<1>1. CASE StoreNext /\ UNCHANGED page
  BY <1>1, StoreKeeps
<1>2. CASE Send
  BY <1>2, SendKeeps
<1>3. ASSUME NEW i \in DOMAIN polls, Begin(i) PROVE PInv'
  BY <1>3, BeginKeeps
<1>4. ASSUME NEW i \in DOMAIN polls, Query(i) PROVE PInv'
  BY <1>4, QueryKeeps
<1>5. ASSUME NEW i \in DOMAIN polls, Answer(i) PROVE PInv'
  BY <1>5, AnswerKeeps
<1>6. ASSUME NEW i \in DOMAIN polls, Fail(i) PROVE PInv'
  BY <1>6, FailKeeps
<1>7. CASE UNCHANGED vars
  <2>1. UNCHANGED <<clock, store, chart, latest, polls, limit, overlapped>>
    BY <1>7 DEF vars, page
  <2>2. \A p \in ToSet(polls') : PollOK(p)'
    BY <2>1, StillOK DEF PInv
  <2>3. Written' /\ NextScore' = NextScore
    BY <2>1, StillOK DEF PInv
  <2>4. Covered(latest)' /\ TypeOK' /\ OneAtATime'
    BY <2>1 DEF PInv, Covered, TypeOK, StoreTypeOK, OneAtATime, store
  <2> QED BY <2>1, <2>2, <2>3, <2>4 DEF PInv
<1> QED BY <1>1, <1>2, <1>3, <1>4, <1>5, <1>6, <1>7 DEF Next, Page

\* The pages only read the store.
LEMMA PageReads == [Next]_vars => [StoreNext]_<<clock, store>>
BY DEF Next, vars, Page, Send, Begin, Query, Answer, Fail

-----------------------------------------------------------------------------
(* The theorems *)

\* A page is a reader: with any number of polls the store behaves as it does by
\* itself (the routes of data.py only query).
THEOREM PageOnlyReads == Spec => StoreSpec
<1>1. Init => StoreInit
  BY DEF Init
<1> QED BY <1>1, PageReads, PTL DEF Spec, StoreSpec

\* The invariant of the store holds under the pages.
THEOREM StoreInvariance == Spec => []SInv
<1>1. Init => SInv
  BY InitSInv DEF Init
<1>2. SInv /\ [Next]_vars => SInv'
  BY NextSInv, PageReads
<1> QED BY <1>1, <1>2, PTL DEF Spec

\* Whatever the pages do and whenever mavlinkapp is restarted, no sample that
\* a query can still ask for has been removed.
THEOREM VisibleKeptHolds == Spec => []VisibleKept
<1>1. SInv => VisibleKept
  BY DEF SInv
<1> QED BY StoreInvariance, <1>1, PTL

\* The inductive invariant: whatever a page takes over from an answer is known
\* to be on its chart, or in the answers still under way.
THEOREM Invariance == Spec => []PInv
BY InitPInv, NextPInv, PTL DEF Spec

\* latestUpdateTime is always a time, also after an empty answer, and charts and
\* answers hold nothing but samples (the callback of updatePlot).
THEOREM TypeCorrect == Spec => []TypeOK
<1>1. PInv => TypeOK
  BY DEF PInv
<1> QED BY Invariance, <1>1, PTL

\* Asking for what is not older than the last sample (zrangebyscore with both
\* ends included) loses nothing: for any number of polls in flight, of datasets
\* queried one after the other and of writes between the queries.
THEOREM NothingMissedHolds == Spec => []NothingMissed
<1>1. PInv => NothingMissed
  BY DEF PInv, Covered, NothingMissed
<1> QED BY Invariance, <1>1, PTL

\* While each poll of a page is answered before the next is sent, push and
\* shift keep the line of the first dataset in the order of time.
THEOREM OrderedHolds == Spec => []OrderedUnlessOverlapping
<1>1. PInv => OrderedUnlessOverlapping
  <2> SUFFICES ASSUME PInv, ~overlapped, NEW k \in DOMAIN chart[1], NEW j \in 1..k
               PROVE  chart[1][j].ts <= chart[1][k].ts
    BY DEF OrderedUnlessOverlapping
  <2>1. Rising(chart[1])
    BY DEF PInv, OneAtATime
  <2>2. DOMAIN chart[1] = 1..Len(chart[1]) /\ Len(chart[1]) \in Nat
    BY PageAssumption, LenProperties DEF PInv, TypeOK
  <2> QED BY <2>1, <2>2 DEF Rising
<1> QED BY Invariance, <1>1, PTL

\* While each poll is answered before the next is sent, latestUpdateTime never
\* goes back: no sample older than the last update is asked for again, and an
\* empty answer does not lose the place (_get_acc_data, updatePlot).
GoesForward == [][~overlapped => latest' >= latest]_vars

LEMMA AnswerForward ==
    ASSUME PInv, ~overlapped, NEW i \in DOMAIN polls, Answer(i)
    PROVE  latest' >= latest
<1>1. PICK p : p = polls[i]
  OBVIOUS
<1>2. /\ p \in Poll /\ PollOK(p) /\ p.st = "serving" /\ p.datas # <<>>
      /\ Len(p.datas) = N /\ DOMAIN p.datas = 1..N /\ latest' = Latest(p)
  BY <1>1, AnswerChart
<1>3. p.latest = latest
  BY <1>1, <1>2 DEF PInv, OneAtATime
<1>4. p.latest \in Int /\ NextScore \in Nat
  BY <1>2, PollFields, NextScoreType DEF PInv, TypeOK
<1>5. Latest(p) \in p.latest..NextScore
  BY <1>2, <1>4, LatestOf DEF PInv, TypeOK
<1> QED BY <1>2, <1>3, <1>4, <1>5

\* For any number of datasets and polls the page goes forward while its polls do
\* not overlap (updatePlot).
THEOREM GoesForwardHolds == Spec => GoesForward
<1>1. PInv /\ [Next]_vars => [~overlapped => latest' >= latest]_vars
  <2> SUFFICES ASSUME PInv, Next, ~overlapped PROVE latest' >= latest
    BY Zenon
  <2>1. latest \in Int
    BY StoreAssumption DEF PInv, TypeOK, Time
  <2>2. CASE UNCHANGED page \/ Send
    BY <2>1, <2>2 DEF page, Send
  <2>3. CASE \E i \in DOMAIN polls : Begin(i) \/ Query(i) \/ Fail(i)
    BY <2>1, <2>3 DEF Begin, Query, Fail
  <2>4. CASE \E i \in DOMAIN polls : Answer(i)
    BY <2>4, AnswerForward
  <2> QED BY <2>2, <2>3, <2>4 DEF Next, Page
<1> QED BY <1>1, Invariance, PTL DEF Spec, GoesForward
=============================================================================

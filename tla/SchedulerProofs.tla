--------------------------- MODULE SchedulerProofs ---------------------------
(* Proofs about savvy_scheduler for any number of jobs, any running times    *)
(* and all six schemes of libscheduler.h.                                    *)
EXTENDS Scheduler, TLAPS, SequenceTheorems, FiniteSetTheorems

JobInfo == [priority : Nat, arrival : Nat, burst : Nat \ {0}, start : Int, remain : Nat]

\* The jobs created so far.
Ids(inf) == 1 .. Len(inf)

\* The order of the scheme.
Sorted(q, inf) == \A i, k \in 1 .. Len(q) : i < k => ~Before(q[k], q[i], inf)
Distinct(q) == \A i, k \in 1 .. Len(q) : q[i] = q[k] => i = k

---------------------------------------------------------------------------
(* Numbers, and the order of the jobs.                                     *)

\* What currtime makes of the quanta is a number and never goes back.
LEMMA ClockReads ==
  ASSUME NEW t \in Nat
  PROVE  currtime(t) \in Nat
BY SMTT(60) DEF currtime

LEMMA ClockGrows ==
  ASSUME NEW t \in Nat, NEW u \in Nat, t <= u
  PROVE  currtime(t) <= currtime(u)
<1>1. PICK a, b, c, d : a = t \div 10 /\ b = t % 10 /\ c = u \div 10 /\ d = u % 10
  OBVIOUS
<1>2. /\ a \in Nat /\ b \in 0 .. 9 /\ t = 10 * a + b
      /\ c \in Nat /\ d \in 0 .. 9 /\ u = 10 * c + d
  BY <1>1, SMTT(60)
<1>3. 100 * a + b <= 100 * c + d
  BY <1>2, SMTT(60)
<1> QED BY <1>1, <1>3 DEF currtime

\* A non-empty set of numbers has a least one: the intervals below its members
\* are finite sets, and inclusion is well-founded on those.
LEMMA LeastNumber ==
  ASSUME NEW T \in SUBSET Nat, T # {}
  PROVE  \E n \in T : \A m \in T : n <= m
<1> DEFINE U == {1 .. n : n \in T}
<1>1. IsWellFoundedOn(StrictSubsetOrdering(Nat), FiniteSubsetsOf(Nat))
  BY FS_StrictSubsetOrderingWellFounded
<1>2. U \subseteq FiniteSubsetsOf(Nat) /\ U # {}
  <2>1. \A n \in T : IsFiniteSet(1 .. n)
    <3>1. \A n \in T : n \in Int /\ 1 \in Int
      OBVIOUS
    <3> QED BY ONLY <3>1, FS_Interval
  <2>2. \A n \in T : 1 .. n \in SUBSET Nat
    OBVIOUS
  <2> QED BY <2>1, <2>2 DEF FiniteSubsetsOf
<1>3. PICK x \in U : \A y \in U : <<y, x>> \notin StrictSubsetOrdering(Nat)
  <2> HIDE DEF U
  <2> QED BY <1>1, <1>2, WFMin
<1>4. PICK n \in T : x = 1 .. n
  BY <1>3
<1>5. ASSUME NEW m \in T, m < n PROVE FALSE
  <2>1. 1 .. m \in SUBSET Nat /\ 1 .. n \in SUBSET Nat /\ 1 .. m \subseteq 1 .. n
    BY <1>5
  <2>2. n \in 1 .. n /\ n \notin 1 .. m
    BY <1>5
  <2>3. 1 .. m \in U
    OBVIOUS
  <2> QED BY <1>3, <1>4, <2>1, <2>2, <2>3 DEF StrictSubsetOrdering
<1> QED BY <1>5

\* What the comparers compare is a number.
LEMMA RankType ==
  ASSUME NEW inf \in Seq(JobInfo), NEW j \in 1 .. Len(inf)
  PROVE  inf[j] \in JobInfo /\ Rank(j, inf) \in Nat /\ inf[j].arrival \in Nat
<1>1. inf[j] \in JobInfo
  BY ElementOfSeq
<1> QED BY <1>1 DEF Rank, JobInfo

\* A job that does not come before another one precedes it or is its equal: the
\* comparers are lexicographic.
LEMMA BeforeOrder ==
  ASSUME NEW inf \in Seq(JobInfo),
         NEW a \in 1 .. Len(inf), NEW b \in 1 .. Len(inf), NEW c \in 1 .. Len(inf)
  PROVE  /\ Before(a, b, inf) => ~Before(b, a, inf)
         /\ ~Before(b, a, inf) /\ ~Before(c, b, inf) => ~Before(c, a, inf)
<1>1. /\ Rank(a, inf) \in Nat /\ Rank(b, inf) \in Nat /\ Rank(c, inf) \in Nat
      /\ inf[a].arrival \in Nat /\ inf[b].arrival \in Nat /\ inf[c].arrival \in Nat
  BY RankType
<1> QED BY <1>1 DEF Before

\* What two jobs are compared by.
SameKeys(j, f, g) == /\ f[j].priority = g[j].priority /\ f[j].arrival = g[j].arrival
                     /\ f[j].burst = g[j].burst /\ f[j].remain = g[j].remain

LEMMA SameBefore ==
  ASSUME NEW f, NEW g, NEW a, NEW b, SameKeys(a, f, g), SameKeys(b, f, g)
  PROVE  Before(a, b, f) <=> Before(a, b, g)
<1>1. Rank(a, f) = Rank(a, g) /\ Rank(b, f) = Rank(b, g)
  BY DEF SameKeys, Rank
<1>2. f[a].arrival = g[a].arrival /\ f[b].arrival = g[b].arrival
  BY DEF SameKeys
<1> QED BY <1>1, <1>2 DEF Before

---------------------------------------------------------------------------
(* The queue.                                                              *)

\* An insertion moves what is behind the place by one.
Inserted(r, q, i, e) ==
  /\ Len(r) = Len(q) + 1
  /\ \A k \in 1 .. Len(q) + 1 : r[k] = IF k < i THEN q[k] ELSE IF k = i THEN e ELSE q[k - 1]

LEMMA InsertAtEffect ==
  ASSUME NEW S, NEW q \in Seq(S), NEW e \in S, NEW i \in 1 .. Len(q) + 1
  PROVE  InsertAt(q, i, e) \in Seq(S) /\ Inserted(InsertAt(q, i, e), q, i, e)
<1> DEFINE front == SubSeq(q, 1, i - 1)
           back == SubSeq(q, i, Len(q))
<1>1. Len(q) \in Nat /\ i \in Int /\ i - 1 \in Int /\ Len(q) \in Int /\ 1 \in Int
  BY LenProperties
<1>2. \A k \in 1 .. Len(q) : q[k] \in S
  BY ElementOfSeq
<1>3. /\ front \in Seq(S) /\ Len(front) = i - 1
      /\ \A k \in 1 .. i - 1 : front[k] = q[k]
  <2>1. \A k \in 1 .. i - 1 : q[k] \in S
    BY <1>1, <1>2
  <2>2. /\ front \in Seq(S) /\ Len(front) = IF 1 <= i - 1 THEN i - 1 - 1 + 1 ELSE 0
        /\ \A k \in 1 .. i - 1 - 1 + 1 : front[k] = q[1 + k - 1]
    BY <1>1, <2>1, SubSeqProperties
  <2> HIDE DEF front
  <2> QED BY <1>1, <2>2
<1>4. /\ back \in Seq(S) /\ Len(back) = Len(q) + 1 - i
      /\ \A k \in 1 .. Len(q) + 1 - i : back[k] = q[i + k - 1]
  <2>1. \A k \in i .. Len(q) : q[k] \in S
    BY <1>1, <1>2
  <2>2. /\ back \in Seq(S) /\ Len(back) = IF i <= Len(q) THEN Len(q) - i + 1 ELSE 0
        /\ \A k \in 1 .. Len(q) - i + 1 : back[k] = q[i + k - 1]
    BY <1>1, <2>1, SubSeqProperties
  <2> HIDE DEF back
  <2> QED BY <1>1, <2>2
<1>5. /\ <<e>> \in Seq(S) /\ Len(<<e>>) = 1 /\ <<e>>[1] = e
  OBVIOUS
<1> HIDE DEF front, back
<1>6. /\ front \o <<e>> \in Seq(S) /\ Len(front \o <<e>>) = i
      /\ \A k \in 1 .. i : (front \o <<e>>)[k] = IF k < i THEN q[k] ELSE e
  <2>1. /\ front \o <<e>> \in Seq(S) /\ Len(front \o <<e>>) = Len(front) + Len(<<e>>)
        /\ \A k \in 1 .. Len(front) + Len(<<e>>) : (front \o <<e>>)[k] =
             IF k <= Len(front) THEN front[k] ELSE <<e>>[k - Len(front)]
    BY <1>3, <1>5, ConcatProperties
  <2> QED BY <1>1, <1>3, <1>5, <2>1
<1>7. PICK left_part : left_part = front \o <<e>>
  OBVIOUS
<1>8. /\ left_part \in Seq(S) /\ Len(left_part) = i
       /\ \A k \in 1 .. i : left_part[k] = IF k < i THEN q[k] ELSE e
  BY <1>6, <1>7
<1>9. /\ left_part \o back \in Seq(S) /\ Len(left_part \o back) = Len(left_part) + Len(back)
      /\ \A k \in 1 .. Len(left_part) + Len(back) : (left_part \o back)[k] =
           IF k <= Len(left_part) THEN left_part[k] ELSE back[k - Len(left_part)]
  BY <1>4, <1>8, ConcatProperties
<1>10. InsertAt(q, i, e) = left_part \o back
  BY <1>7 DEF InsertAt, front, back
<1>11. ASSUME NEW k \in 1 .. Len(q) + 1
       PROVE  (left_part \o back)[k] = IF k < i THEN q[k] ELSE IF k = i THEN e ELSE q[k - 1]
  <2>1. k \in 1 .. Len(left_part) + Len(back)
    BY <1>1, <1>4, <1>8
  <2>2. CASE k <= i
    BY <1>1, <1>9, <1>8, <2>1, <2>2
  <2>3. CASE k > i
    <3>1. k - i \in 1 .. Len(q) + 1 - i /\ i + (k - i) - 1 = k - 1 /\ ~(k <= i)
      BY <1>1, <2>3
    <3>2. (left_part \o back)[k] = back[k - i]
      BY <1>9, <1>8, <2>1, <3>1
    <3>3. back[k - i] = q[k - 1]
      BY <1>4, <3>1
    <3>4. ~(k < i) /\ k # i
      BY <1>1, <2>3
    <3>5. (left_part \o back)[k] = q[k - 1]
      BY <3>2, <3>3
    <3> QED BY <3>4, <3>5
  <2>4. k <= i \/ k > i
    BY <1>1
  <2> QED BY <2>2, <2>3, <2>4
<1>12. Len(left_part \o back) = Len(q) + 1 /\ left_part \o back \in Seq(S)
  BY <1>1, <1>4, <1>8, <1>9
<1>13. Inserted(left_part \o back, q, i, e)
  BY <1>11, <1>12 DEF Inserted
<1> QED BY <1>10, <1>12, <1>13

\* priqueue_offer links a job where it belongs: behind all that it does not
\* precede, in front of all that it precedes.
Fits(q, j, inf, i) == /\ \A k \in 1 .. Len(q) : k < i => ~Before(j, q[k], inf)
                      /\ \A k \in 1 .. Len(q) : k >= i => ~Before(q[k], j, inf)

LEMMA OfferPlace ==
  ASSUME NEW inf \in Seq(JobInfo), NEW q \in Seq(Ids(inf)), Sorted(q, inf),
         NEW j \in Ids(inf)
  PROVE  \E i \in 1 .. Len(q) + 1 : /\ priqueue_offer(q, j, inf) = InsertAt(q, i, j)
                                     /\ Fits(q, j, inf, i)
<1> DEFINE fits(i) == (i > 1 => ~Before(j, q[i - 1], inf)) /\ Before(j, q[i], inf)
           places == {i \in DOMAIN q : fits(i)} \cup {Len(q) + 1}
           i == CHOOSE n \in places : \A k \in places : n <= k
<1>1. Len(q) \in Nat /\ DOMAIN q = 1 .. Len(q) /\ \A k \in 1 .. Len(q) : q[k] \in Ids(inf)
  BY LenProperties, ElementOfSeq
<1>2. places \in SUBSET Nat /\ places # {} /\ \A n \in places : n \in 1 .. Len(q) + 1
  BY <1>1
<1>3. i \in places /\ \A k \in places : i <= k
  <2> HIDE DEF places
  <2>1. \E n \in places : \A k \in places : n <= k
    BY <1>2, LeastNumber
  <2> QED BY <2>1
<1>4. priqueue_offer(q, j, inf) = InsertAt(q, i, j)
  BY DEF priqueue_offer
<1>5. i \in 1 .. Len(q) + 1 /\ (i = Len(q) + 1 \/ fits(i))
  BY <1>1, <1>2, <1>3
<1>6. ASSUME NEW k \in 1 .. Len(q), NEW m \in 1 .. Len(q)
      PROVE  /\ Before(j, q[k], inf) => ~Before(q[k], j, inf)
             /\ ~Before(j, q[m], inf) /\ ~Before(q[m], q[k], inf) => ~Before(j, q[k], inf)
             /\ ~Before(q[m], j, inf) /\ ~Before(q[k], q[m], inf) => ~Before(q[k], j, inf)
  <2>1. q[k] \in 1 .. Len(inf) /\ q[m] \in 1 .. Len(inf) /\ j \in 1 .. Len(inf)
    BY <1>1 DEF Ids
  <2> QED BY <2>1, BeforeOrder
<1> HIDE DEF i
<1>7. CASE fits(i) /\ i <= Len(q)
  <2>1. ASSUME NEW k \in 1 .. Len(q), k < i PROVE ~Before(j, q[k], inf)
    <3>1. i - 1 \in 1 .. Len(q) /\ i > 1 /\ k <= i - 1
      BY <1>1, <1>5, <1>7, <2>1
    <3>2. ~Before(j, q[i - 1], inf)
      BY <1>7, <3>1
    <3>3. CASE k = i - 1
      BY <3>2, <3>3
    <3>4. CASE k < i - 1
      <4>1. ~Before(q[i - 1], q[k], inf)
        BY <3>1, <3>4 DEF Sorted
      <4> QED BY <1>1, <1>6, <3>1, <3>2, <4>1
    <3> QED BY <1>1, <1>5, <3>1, <3>3, <3>4
  <2>2. ASSUME NEW k \in 1 .. Len(q), k >= i PROVE ~Before(q[k], j, inf)
    <3>1. i \in 1 .. Len(q) /\ Before(j, q[i], inf)
      BY <1>1, <1>5, <1>7
    <3>2. CASE k = i
      BY <1>1, <1>6, <3>1, <3>2
    <3>3. CASE k > i
      <4>1. ~Before(q[k], q[i], inf)
        BY <3>1, <3>3 DEF Sorted
      <4>2. ~Before(q[i], j, inf)
        BY <1>1, <1>6, <3>1
      <4> QED BY <1>1, <1>6, <3>1, <4>1, <4>2
    <3> QED BY <1>1, <2>2, <3>1, <3>2, <3>3
  <2> QED BY <1>4, <1>5, <2>1, <2>2 DEF Fits
<1>8. CASE i = Len(q) + 1
  <2> DEFINE Ahead == {k \in 1 .. Len(q) : Before(j, q[k], inf)}
  <2>1. ASSUME Ahead # {} PROVE FALSE
    <3>1. Ahead \in SUBSET Nat
      BY <1>1
    <3>2. PICK k \in Ahead : \A m \in Ahead : k <= m
      <4> HIDE DEF Ahead
      <4> QED BY <2>1, <3>1, LeastNumber
    <3>3. k > 1 => ~Before(j, q[k - 1], inf)
      <4>1. k > 1 => k - 1 \in 1 .. Len(q) /\ ~(k <= k - 1)
        BY <1>1
      <4> QED BY <3>2, <4>1
    <3>4. k \in places
      BY <1>1, <3>3
    <3>5. i <= k
      <4> HIDE DEF places
      <4> QED BY <1>3, <3>4
    <3> QED BY <1>1, <1>8, <3>5
  <2>2. \A k \in 1 .. Len(q) : k < i => ~Before(j, q[k], inf)
    BY <2>1
  <2>3. \A k \in 1 .. Len(q) : k >= i => ~Before(q[k], j, inf)
    BY <1>1, <1>8
  <2> QED BY <1>4, <1>5, <2>2, <2>3 DEF Fits
<1>9. i <= Len(q) \/ i = Len(q) + 1
  BY <1>1, <1>5
<1>10. i <= Len(q) => fits(i)
  BY <1>1, <1>5
<1> QED BY <1>7, <1>8, <1>9, <1>10

\* What an offer makes of a queue in order.
LEMMA OfferEffect ==
  ASSUME NEW inf \in Seq(JobInfo), NEW q \in Seq(Ids(inf)), Sorted(q, inf), Distinct(q),
         NEW j \in Ids(inf), j \notin ToSet(q)
  PROVE  LET r == priqueue_offer(q, j, inf)
         IN  /\ r \in Seq(Ids(inf)) /\ Sorted(r, inf) /\ Distinct(r)
             /\ ToSet(r) = ToSet(q) \cup {j}
<1>1. Len(q) \in Nat /\ DOMAIN q = 1 .. Len(q) /\ \A k \in 1 .. Len(q) : q[k] \in Ids(inf)
  BY LenProperties, ElementOfSeq
<1>2. PICK i \in 1 .. Len(q) + 1 : /\ priqueue_offer(q, j, inf) = InsertAt(q, i, j)
                                   /\ Fits(q, j, inf, i)
  BY OfferPlace
<1>3. PICK r : r = priqueue_offer(q, j, inf)
  OBVIOUS
<1>4. /\ r \in Seq(Ids(inf)) /\ Len(r) = Len(q) + 1
      /\ \A k \in 1 .. Len(q) + 1 : r[k] = IF k < i THEN q[k] ELSE IF k = i THEN j ELSE q[k - 1]
  <2>1. r = InsertAt(q, i, j)
    BY <1>2, <1>3
  <2>2. r \in Seq(Ids(inf)) /\ Inserted(r, q, i, j)
    BY <2>1, InsertAtEffect
  <2> QED BY <2>2 DEF Inserted
<1>5. DOMAIN r = 1 .. Len(q) + 1
  BY <1>4, LenProperties
<1>6. \A k \in 1 .. Len(q) : q[k] # j
  BY <1>1 DEF ToSet
\* Where an element of the new queue was in the old one.
<1>7. \A k \in 1 .. Len(q) + 1 : \/ k < i /\ k \in 1 .. Len(q) /\ r[k] = q[k]
                                 \/ k = i /\ r[k] = j
                                 \/ k > i /\ k - 1 \in 1 .. Len(q) /\ r[k] = q[k - 1]
  BY <1>1, <1>4
<1>8. Sorted(r, inf)
  <2> SUFFICES ASSUME NEW a \in 1 .. Len(q) + 1, NEW b \in 1 .. Len(q) + 1, a < b
               PROVE  ~Before(r[b], r[a], inf)
    BY <1>4 DEF Sorted
  <2>1. CASE b < i
    BY <1>1, <1>7, <2>1 DEF Sorted
  <2>2. CASE b = i
    BY <1>1, <1>2, <1>7, <2>2 DEF Fits
  <2>3. CASE b > i /\ a = i
    <3>1. r[b] = q[b - 1] /\ r[a] = j /\ b - 1 \in 1 .. Len(q) /\ b - 1 >= i
      BY <1>1, <1>7, <2>3
    <3> QED BY <1>2, <3>1 DEF Fits
  <2>4. CASE b > i /\ a < i
    <3>1. r[b] = q[b - 1] /\ b - 1 \in 1 .. Len(q)
      BY <1>1, <1>7, <2>4
    <3>2. r[a] = q[a] /\ a \in 1 .. Len(q) /\ a < b - 1
      BY <1>1, <1>7, <2>4
    <3> QED BY <3>1, <3>2 DEF Sorted
  <2>5. CASE b > i /\ a > i
    <3>1. r[b] = q[b - 1] /\ b - 1 \in 1 .. Len(q)
      BY <1>1, <1>7, <2>5
    <3>2. r[a] = q[a - 1] /\ a - 1 \in 1 .. Len(q) /\ a - 1 < b - 1
      BY <1>1, <1>7, <2>5
    <3> QED BY <3>1, <3>2 DEF Sorted
  <2> QED BY <1>1, <2>1, <2>2, <2>3, <2>4, <2>5
<1>9. Distinct(r)
  <2> SUFFICES ASSUME NEW a \in 1 .. Len(q) + 1, NEW b \in 1 .. Len(q) + 1, r[a] = r[b], a < b
               PROVE  FALSE
    BY <1>1, <1>4 DEF Distinct
  <2>1. CASE a = i \/ b = i
    BY <1>1, <1>6, <1>7, <2>1
  <2>2. CASE b < i
    BY <1>1, <1>7, <2>2 DEF Distinct
  <2>3. CASE b > i /\ a < i
    <3>1. r[b] = q[b - 1] /\ b - 1 \in 1 .. Len(q)
      BY <1>1, <1>7, <2>3
    <3>2. r[a] = q[a] /\ a \in 1 .. Len(q) /\ a < b - 1
      BY <1>1, <1>7, <2>3
    <3> QED BY <3>1, <3>2 DEF Distinct
  <2>4. CASE b > i /\ a > i
    <3>1. r[b] = q[b - 1] /\ b - 1 \in 1 .. Len(q)
      BY <1>1, <1>7, <2>4
    <3>2. r[a] = q[a - 1] /\ a - 1 \in 1 .. Len(q) /\ a - 1 < b - 1
      BY <1>1, <1>7, <2>4
    <3> QED BY <3>1, <3>2 DEF Distinct
  <2> QED BY <1>1, <2>1, <2>2, <2>3, <2>4
<1>10. ToSet(r) = ToSet(q) \cup {j}
  <2>1. ASSUME NEW x \in ToSet(r) PROVE x \in ToSet(q) \cup {j}
    <3>1. PICK k \in 1 .. Len(q) + 1 : x = r[k]
      BY <1>5 DEF ToSet
    <3> QED BY <1>1, <1>7, <3>1 DEF ToSet
  <2>2. j \in ToSet(r)
    <3>1. i \in 1 .. Len(q) + 1 /\ r[i] = j
      BY <1>1, <1>4
    <3> QED BY <1>5, <3>1 DEF ToSet
  <2>3. ASSUME NEW x \in ToSet(q) PROVE x \in ToSet(r)
    <3>1. PICK k \in 1 .. Len(q) : x = q[k]
      BY <1>1 DEF ToSet
    <3>2. CASE k < i
      <4>1. k \in 1 .. Len(q) + 1 /\ r[k] = q[k]
        BY <1>1, <1>4, <3>2
      <4> QED BY <1>5, <3>1, <4>1 DEF ToSet
    <3>3. CASE k >= i
      <4>1. k + 1 \in 1 .. Len(q) + 1 /\ r[k + 1] = q[k]
        <5>1. k + 1 \in 1 .. Len(q) + 1 /\ ~(k + 1 < i) /\ k + 1 # i /\ k + 1 - 1 = k
          BY <1>1, <3>3
        <5>2. r[k + 1] = q[k + 1 - 1]
          BY <1>4, <5>1
        <5> QED BY <5>1, <5>2
      <4> QED BY <1>5, <3>1, <4>1 DEF ToSet
    <3> QED BY <1>1, <3>2, <3>3
  <2> QED BY <2>1, <2>2, <2>3
<1> QED BY <1>3, <1>4, <1>8, <1>9, <1>10

\* The rest of a queue in order is in order, without its head.
LEMMA TailEffect ==
  ASSUME NEW inf, NEW S, NEW q \in Seq(S), q # <<>>
  PROVE  /\ Head(q) \in S /\ Head(q) = q[1] /\ Len(q) \in Nat /\ 1 \in 1 .. Len(q)
         /\ Tail(q) \in Seq(S) /\ Len(Tail(q)) = Len(q) - 1
         /\ \A k \in 1 .. Len(q) - 1 : Tail(q)[k] = q[k + 1] /\ k + 1 \in 2 .. Len(q)
         /\ Distinct(q) => Distinct(Tail(q)) /\ ToSet(Tail(q)) = ToSet(q) \ {Head(q)}
         /\ Sorted(q, inf) => Sorted(Tail(q), inf)
<1>1. Len(q) \in Nat /\ Len(q) # 0 /\ DOMAIN q = 1 .. Len(q) /\ \A k \in 1 .. Len(q) : q[k] \in S
  BY LenProperties, ElementOfSeq, EmptySeq
<1>2. /\ Tail(q) \in Seq(S) /\ Len(Tail(q)) = Len(q) - 1
      /\ \A k \in 1 .. Len(q) - 1 : Tail(q)[k] = q[k + 1]
  BY <1>1, HeadTailProperties
<1>3. Head(q) = q[1] /\ Head(q) \in S
  BY <1>1
<1>4. PICK t : t = Tail(q)
  OBVIOUS
<1>5. \A k \in 1 .. Len(q) - 1 : t[k] = q[k + 1] /\ k + 1 \in 2 .. Len(q) /\ k + 1 \in 1 .. Len(q)
  BY <1>1, <1>2, <1>4
<1>6. DOMAIN t = 1 .. Len(q) - 1 /\ Len(t) = Len(q) - 1
  BY <1>1, <1>2, <1>4, LenProperties
<1>7. Distinct(q) => Distinct(t)
  <2> SUFFICES ASSUME Distinct(q), NEW a \in 1 .. Len(q) - 1, NEW b \in 1 .. Len(q) - 1,
                      t[a] = t[b]
               PROVE  a = b
    BY <1>6 DEF Distinct
  <2>1. q[a + 1] = q[b + 1] /\ a + 1 \in 1 .. Len(q) /\ b + 1 \in 1 .. Len(q)
    BY <1>5
  <2>2. a + 1 = b + 1
    BY <2>1 DEF Distinct
  <2> QED BY <1>1, <2>2
<1>8. Distinct(q) => ToSet(t) = ToSet(q) \ {Head(q)}
  <2> SUFFICES ASSUME Distinct(q) PROVE ToSet(t) = ToSet(q) \ {Head(q)}
    OBVIOUS
  <2>1. ASSUME NEW x \in ToSet(t) PROVE x \in ToSet(q) \ {Head(q)}
    <3>1. PICK k \in 1 .. Len(q) - 1 : x = t[k]
      BY <1>6 DEF ToSet
    <3>2. x = q[k + 1] /\ k + 1 \in 1 .. Len(q) /\ k + 1 # 1 /\ 1 \in 1 .. Len(q)
      BY <1>1, <1>5, <3>1
    <3>3. q[k + 1] # q[1]
      BY <3>2 DEF Distinct
    <3> QED BY <1>1, <1>3, <3>2, <3>3 DEF ToSet
  <2>2. ASSUME NEW x \in ToSet(q), x # Head(q) PROVE x \in ToSet(t)
    <3>1. PICK k \in 1 .. Len(q) : x = q[k]
      BY <1>1 DEF ToSet
    <3>2. k # 1
      BY <1>3, <2>2, <3>1
    <3>3. k - 1 \in 1 .. Len(q) - 1 /\ k - 1 + 1 = k
      BY <1>1, <3>2
    <3>4. x = t[k - 1]
      BY <1>5, <3>1, <3>3
    <3> QED BY <1>6, <3>3, <3>4 DEF ToSet
  <2> QED BY <2>1, <2>2
<1>9. Sorted(q, inf) => Sorted(t, inf)
  <2> SUFFICES ASSUME Sorted(q, inf), NEW a \in 1 .. Len(q) - 1, NEW b \in 1 .. Len(q) - 1, a < b
               PROVE  ~Before(t[b], t[a], inf)
    BY <1>6 DEF Sorted
  <2>1. t[a] = q[a + 1] /\ t[b] = q[b + 1] /\ a + 1 \in 1 .. Len(q) /\ b + 1 \in 1 .. Len(q)
    BY <1>5
  <2>2. a + 1 < b + 1
    BY <1>1, <2>1
  <2> QED BY <2>1, <2>2 DEF Sorted
<1>10. 1 \in 1 .. Len(q)
  BY <1>1
<1> QED BY <1>1, <1>2, <1>3, <1>4, <1>5, <1>7, <1>8, <1>9, <1>10

---------------------------------------------------------------------------
(* The records of the jobs.                                                *)

\* g is f but for what it says of j.
OnlyOf(j, f, g) == /\ g \in Seq(JobInfo) /\ Len(g) = Len(f)
                   /\ \A k \in Ids(f) : k # j => g[k] = f[k]

LEMMA SetRecord ==
  ASSUME NEW inf \in Seq(JobInfo), NEW j \in Ids(inf), NEW e \in JobInfo
  PROVE  OnlyOf(j, inf, [inf EXCEPT ![j] = e]) /\ [inf EXCEPT ![j] = e][j] = e
<1>1. j \in 1 .. Len(inf)
  BY DEF Ids
<1>2. /\ [inf EXCEPT ![j] = e] \in Seq(JobInfo) /\ Len([inf EXCEPT ![j] = e]) = Len(inf)
      /\ \A k \in 1 .. Len(inf) : [inf EXCEPT ![j] = e][k] = IF k = j THEN e ELSE inf[k]
  BY <1>1, ExceptSeq
<1>3. PICK g : g = [inf EXCEPT ![j] = e]
  OBVIOUS
<1>4. /\ g \in Seq(JobInfo) /\ Len(g) = Len(inf)
      /\ \A k \in 1 .. Len(inf) : g[k] = IF k = j THEN e ELSE inf[k]
  BY <1>2, <1>3
<1>5. OnlyOf(j, inf, g) /\ g[j] = e
  BY <1>1, <1>4 DEF OnlyOf, Ids
<1> QED BY <1>3, <1>5

\* g is f with one field of j's record changed.
HasStart(g, f, j, s) == g = [f EXCEPT ![j].start = s]
HasRemain(g, f, j, n) == g = [f EXCEPT ![j].remain = n]
Raised(g, f, j) == g = [f EXCEPT ![j].priority = @ + 10]

LEMMA SetStart ==
  ASSUME NEW inf \in Seq(JobInfo), NEW j \in Ids(inf), NEW s \in Int, NEW g, HasStart(g, inf, j, s)
  PROVE  OnlyOf(j, inf, g) /\ SameKeys(j, inf, g) /\ g[j].start = s
<1>1. inf[j] \in JobInfo
  BY ElementOfSeq DEF Ids
<1>2. PICK m : m = inf[j]
  OBVIOUS
<1>3. PICK e : e = [m EXCEPT !.start = s]
  OBVIOUS
<1>4. /\ e \in JobInfo /\ e.start = s /\ e.priority = m.priority /\ e.arrival = m.arrival
      /\ e.burst = m.burst /\ e.remain = m.remain
  BY <1>1, <1>2, <1>3 DEF JobInfo
<1>5. g = [inf EXCEPT ![j] = e]
  BY <1>2, <1>3 DEF HasStart
<1>6. OnlyOf(j, inf, [inf EXCEPT ![j] = e]) /\ [inf EXCEPT ![j] = e][j] = e
  BY <1>4, SetRecord
<1>7. OnlyOf(j, inf, g) /\ g[j] = e
  BY ONLY <1>5, <1>6
<1> QED BY <1>2, <1>4, <1>7 DEF SameKeys

LEMMA SetRemain ==
  ASSUME NEW inf \in Seq(JobInfo), NEW j \in Ids(inf), NEW n \in Nat, NEW g, HasRemain(g, inf, j, n)
  PROVE  OnlyOf(j, inf, g) /\ g[j].remain = n /\ g[j].start = inf[j].start
<1>1. inf[j] \in JobInfo
  BY ElementOfSeq DEF Ids
<1>2. PICK m : m = inf[j]
  OBVIOUS
<1>3. PICK e : e = [m EXCEPT !.remain = n]
  OBVIOUS
<1>4. e \in JobInfo /\ e.remain = n /\ e.start = m.start
  BY <1>1, <1>2, <1>3 DEF JobInfo
<1>5. g = [inf EXCEPT ![j] = e]
  BY <1>2, <1>3 DEF HasRemain
<1>6. OnlyOf(j, inf, [inf EXCEPT ![j] = e]) /\ [inf EXCEPT ![j] = e][j] = e
  BY <1>4, SetRecord
<1>7. OnlyOf(j, inf, g) /\ g[j] = e
  BY ONLY <1>5, <1>6
<1> QED BY <1>2, <1>4, <1>7

LEMMA AddPriority ==
  ASSUME NEW inf \in Seq(JobInfo), NEW j \in Ids(inf), NEW g, Raised(g, inf, j)
  PROVE  OnlyOf(j, inf, g) /\ g[j].remain = inf[j].remain /\ g[j].start = inf[j].start
<1>1. inf[j] \in JobInfo
  BY ElementOfSeq DEF Ids
<1>2. PICK m : m = inf[j]
  OBVIOUS
<1>3. PICK n : n = m.priority + 10
  OBVIOUS
<1>4. n \in Nat
  <2>1. m.priority \in Nat
    BY <1>1, <1>2 DEF JobInfo
  <2> QED BY <1>3, <2>1
<1>5. PICK e : e = [m EXCEPT !.priority = n]
  OBVIOUS
<1>6. e \in JobInfo /\ e.remain = m.remain /\ e.start = m.start
  BY <1>1, <1>2, <1>4, <1>5 DEF JobInfo
<1>7. g = [inf EXCEPT ![j] = e]
  BY <1>2, <1>3, <1>5 DEF Raised
<1>8. OnlyOf(j, inf, [inf EXCEPT ![j] = e]) /\ [inf EXCEPT ![j] = e][j] = e
  BY <1>6, SetRecord
<1>9. OnlyOf(j, inf, g) /\ g[j] = e
  BY ONLY <1>7, <1>8
<1> QED BY <1>2, <1>6, <1>9

\* A change of one record, and what a queue without its job keeps.
LEMMA QueueKept ==
  ASSUME NEW f \in Seq(JobInfo), NEW g, NEW j, OnlyOf(j, f, g),
         NEW q \in Seq(Ids(f)), Sorted(q, f),
         j \notin ToSet(q) \/ SameKeys(j, f, g)
  PROVE  q \in Seq(Ids(g)) /\ Sorted(q, g)
<1>1. Len(q) \in Nat /\ DOMAIN q = 1 .. Len(q) /\ \A k \in 1 .. Len(q) : q[k] \in Ids(f)
  BY LenProperties, ElementOfSeq
<1>2. \A k \in 1 .. Len(q) : q[k] \in ToSet(q)
  BY <1>1 DEF ToSet
<1>3. \A k \in 1 .. Len(q) : SameKeys(q[k], f, g)
  <2> TAKE k \in 1 .. Len(q)
  <2>1. q[k] \in Ids(f) /\ q[k] \in ToSet(q)
    BY <1>1, <1>2
  <2>2. q[k] # j => SameKeys(q[k], f, g)
    BY <2>1 DEF OnlyOf, SameKeys
  <2> QED BY <2>1, <2>2
<1>4. Sorted(q, g)
  <2> SUFFICES ASSUME NEW a \in 1 .. Len(q), NEW b \in 1 .. Len(q), a < b
               PROVE  ~Before(q[b], q[a], g)
    BY DEF Sorted
  <2>1. ~Before(q[b], q[a], f)
    BY DEF Sorted
  <2>2. SameKeys(q[a], f, g) /\ SameKeys(q[b], f, g)
    BY <1>3
  <2> QED BY <2>1, <2>2, SameBefore
<1>5. Ids(g) = Ids(f)
  BY DEF OnlyOf, Ids
<1> QED BY <1>4, <1>5

---------------------------------------------------------------------------
(* scheduler_quantum_expired.                                              *)

Totals == [job_num : Int, waiting : Int, turnaround : Int, response : Int]

\* A queue in order, of jobs that have work left, at time t.
Good(q, inf, t) == /\ inf \in Seq(JobInfo)
                   /\ \A k \in Ids(inf) : inf[k].start <= t
                   /\ q \in Seq(Ids(inf)) /\ Distinct(q) /\ Sorted(q, inf)
                   /\ \A k \in ToSet(q) : inf[k].remain > 0

\* Who runs when the queue is q.
First(q) == IF q = <<>> THEN gtmain ELSE Head(q)

LEMMA PeekEffect ==
  ASSUME NEW inf \in Seq(JobInfo), NEW q \in Seq(Ids(inf)),
         currjob' = IF priqueue_peek(q) = NULL THEN gtmain ELSE priqueue_peek(q)
  PROVE  currjob' = First(q)
<1>1. CASE q = <<>>
  BY <1>1 DEF priqueue_peek, First, NULL
<1>2. CASE q # <<>>
  <2>1. Head(q) \in Ids(inf)
    BY <1>2, TailEffect
  <2>2. Head(q) # NULL
    BY <2>1 DEF Ids, NULL
  <2> QED BY <1>2, <2>2 DEF priqueue_peek, First
<1> QED BY <1>1, <1>2

\* The record of a job keeps its order and its remaining time while start_time is
\* set, and nothing starts in the future.
LEMMA StartedGood ==
  ASSUME NEW t \in Nat, NEW inf, NEW q, Good(q, inf, t), NEW j \in Ids(inf),
         NEW g, OnlyOf(j, inf, g), SameKeys(j, inf, g), g[j].start <= t
  PROVE  Good(q, g, t)
<1>1. Ids(g) = Ids(inf) /\ g \in Seq(JobInfo)
  BY DEF OnlyOf, Ids
<1>2. q \in Seq(Ids(g)) /\ Sorted(q, g)
  BY QueueKept DEF Good
<1>3. \A k \in Ids(inf) : g[k].remain = inf[k].remain /\ g[k].start <= t
  BY DEF Good, OnlyOf, SameKeys
<1>4. \A k \in ToSet(q) : k \in Ids(inf)
  <2>1. Len(q) \in Nat /\ DOMAIN q = 1 .. Len(q) /\ \A k \in 1 .. Len(q) : q[k] \in Ids(inf)
    BY LenProperties, ElementOfSeq DEF Good
  <2> QED BY <2>1 DEF ToSet
<1>5. \A k \in ToSet(q) : g[k].remain > 0
  BY <1>3, <1>4 DEF Good
<1>6. \A k \in Ids(g) : g[k].start <= t
  BY <1>1, <1>3
<1> QED BY <1>1, <1>2, <1>5, <1>6 DEF Good

LEMMA StartedEffect ==
  ASSUME NEW t, NEW j, NEW inf, NEW q, Good(q, inf, t), j \in Ids(inf),
         currtime(clock') = t, t \in Nat
  PROVE  /\ OnlyOf(j, inf, Started(j, inf)) /\ SameKeys(j, inf, Started(j, inf))
         /\ Started(j, inf)[j].start <= t /\ Started(j, inf)[j].start \in Int
<1>1. inf \in Seq(JobInfo) /\ inf[j].start <= t
  BY DEF Good
<1>2. inf[j].start \in Int
  <2>1. inf[j] \in JobInfo
    BY <1>1, ElementOfSeq DEF Ids
  <2> QED BY <2>1 DEF JobInfo
<1>3. PICK s : s = IF inf[j].start = -1 THEN t ELSE inf[j].start
  OBVIOUS
<1>4. s \in Int /\ s <= t
  BY <1>1, <1>2, <1>3
<1>5. Started(j, inf) = [inf EXCEPT ![j].start = s]
  BY <1>3 DEF Started
<1>6. PICK g : g = [inf EXCEPT ![j].start = s]
  OBVIOUS
<1>7. OnlyOf(j, inf, g) /\ SameKeys(j, inf, g) /\ g[j].start = s
  <2>1. HasStart(g, inf, j, s)
    BY <1>6 DEF HasStart
  <2>2. inf \in Seq(JobInfo) /\ j \in Ids(inf) /\ s \in Int
    BY <1>1, <1>4
  <2> QED BY ONLY <2>1, <2>2, SetStart
<1> QED BY <1>4, <1>5, <1>6, <1>7

\* What a look at the queue promises when no job in it has finished.
Resumed(inf, resp) ==
  /\ Good(pqueue', info', currtime(clock')) /\ Len(info') = Len(inf)
  /\ currjob' = First(pqueue')
  /\ totals' \in Totals /\ totals'.job_num = resp.job_num
  /\ ToSet(pqueue') \subseteq ToSet(pqueue)
  /\ NonPreemptive => pqueue' = pqueue

LEMMA StartFirstResumes ==
  ASSUME currtime(clock') \in Nat, NEW inf, NEW resp \in Totals, Good(pqueue, inf, currtime(clock')),
         StartFirst(NULL, inf, resp)
  PROVE  Resumed(inf, resp)
<1>1. PICK t : t = currtime(clock')
  OBVIOUS
<1>2. PICK h : h = Head(pqueue)
  OBVIOUS
<1>3. PICK g : g = info'
  OBVIOUS
<1>4. h \in Ids(inf) /\ t \in Nat /\ t \in Int /\ inf \in Seq(JobInfo) /\ pqueue # <<>>
  BY <1>1, <1>2, TailEffect DEF Good, StartFirst
<1>5. g = [inf EXCEPT ![h].start = t]
  BY <1>1, <1>2, <1>3 DEF StartFirst
<1>6. OnlyOf(h, inf, g) /\ SameKeys(h, inf, g) /\ g[h].start = t
  <2>1. HasStart(g, inf, h, t)
    BY <1>5 DEF HasStart
  <2> QED BY ONLY <1>4, <2>1, SetStart
<1>7. Good(pqueue, g, t)
  <2>1. Good(pqueue, inf, t) /\ g[h].start <= t
    BY <1>1, <1>4, <1>6
  <2> QED BY <1>4, <1>6, <2>1, StartedGood
<1>8. currjob' = First(pqueue)
  <2>1. h # NULL
    BY <1>4 DEF Ids, NULL
  <2> QED BY <1>2, <1>4, <2>1 DEF StartFirst, SwitchTo, First
<1>9. Len(g) = Len(inf)
  BY <1>6 DEF OnlyOf
<1>10. pqueue' = pqueue /\ totals' = resp
  BY DEF StartFirst
<1>11. Good(pqueue', info', currtime(clock'))
  BY <1>1, <1>3, <1>7, <1>10
<1> QED BY <1>3, <1>8, <1>9, <1>10, <1>11 DEF Resumed

LEMMA GoOnResumes ==
  ASSUME currtime(clock') \in Nat, NEW inf, NEW resp \in Totals, Good(pqueue, inf, currtime(clock')),
         NEW ev, pqueue # <<>>, ev = Head(pqueue), GoOn(ev, inf, resp)
  PROVE  Resumed(inf, resp)
<1>1. PICK t : t = currtime(clock')
  OBVIOUS
<1>2. ev \in Ids(inf) /\ t \in Nat
  BY <1>1, TailEffect DEF Good
<1>3. PICK g : g = Started(ev, inf)
  OBVIOUS
<1>4. Good(pqueue, inf, t) /\ currtime(clock') = t
  BY <1>1
<1>5. OnlyOf(ev, inf, g) /\ SameKeys(ev, inf, g) /\ g[ev].start <= t
  BY <1>2, <1>3, <1>4, StartedEffect
<1>6. Good(pqueue, g, t)
  BY <1>2, <1>4, <1>5, StartedGood
<1>7. currjob' = First(pqueue)
  <2>1. ev # NULL
    BY <1>2 DEF Ids, NULL
  <2> QED BY <2>1 DEF GoOn, SwitchTo, First
<1>8. Len(g) = Len(inf)
  BY <1>5 DEF OnlyOf
<1>9. pqueue' = pqueue /\ totals' = resp /\ info' = g
  BY <1>3 DEF GoOn
<1>10. Good(pqueue', info', currtime(clock'))
  BY <1>1, <1>6, <1>9
<1> QED BY <1>7, <1>8, <1>9, <1>10 DEF Resumed

\* The two records the quantum of the evicted job changes: its own.
LEMMA RanEffect ==
  ASSUME NEW t, NEW ev, NEW inf, NEW q, Good(q, inf, t), ev \in Ids(inf), currtime(clock') = t, t \in Nat,
         NEW ran, ran = [Started(ev, inf) EXCEPT ![ev].remain = t - Started(ev, inf)[ev].start]
  PROVE  /\ OnlyOf(ev, inf, ran) /\ ran[ev].start <= t
         /\ ran[ev].remain \in Nat /\ ran[ev].start \in Int /\ ran[ev].arrival \in Int
<1>1. PICK run : run = Started(ev, inf)
  OBVIOUS
<1>2. OnlyOf(ev, inf, run) /\ run[ev].start <= t /\ run[ev].start \in Int
  BY <1>1, StartedEffect
<1>3. PICK n : n = t - run[ev].start
  OBVIOUS
<1>4. n \in Nat
  BY <1>2, <1>3
<1>5. run \in Seq(JobInfo) /\ ev \in Ids(run)
  BY <1>2 DEF OnlyOf, Ids
<1>6. ran = [run EXCEPT ![ev].remain = n]
  BY <1>1, <1>3
<1>7. OnlyOf(ev, run, ran) /\ ran[ev].remain = n /\ ran[ev].start = run[ev].start
  <2>1. HasRemain(ran, run, ev, n)
    BY <1>6 DEF HasRemain
  <2> QED BY ONLY <1>4, <1>5, <2>1, SetRemain
<1>8. OnlyOf(ev, inf, ran)
  BY <1>2, <1>7 DEF OnlyOf, Ids
<1>9. ran[ev] \in JobInfo
  <2>1. ran \in Seq(JobInfo) /\ ev \in 1 .. Len(ran)
    BY <1>8 DEF OnlyOf, Ids
  <2> QED BY <2>1, ElementOfSeq
<1>10. ran[ev].arrival \in Int
  BY <1>9 DEF JobInfo
<1> QED BY <1>2, <1>4, <1>7, <1>8, <1>10

LEMMA RotateResumes ==
  ASSUME SchedulerAssumption, pqueue_scheme \in Schemes, currtime(clock') \in Nat,
         NEW inf, NEW resp \in Totals, Good(pqueue, inf, currtime(clock')),
         NEW ev, pqueue # <<>>, ev = Head(pqueue), Rotate(ev, inf, resp)
  PROVE  Resumed(inf, resp)
<1>1. PICK t : t = currtime(clock')
  OBVIOUS
<1>2. ev \in Ids(inf) /\ t \in Nat /\ Good(pqueue, inf, t) /\ currtime(clock') = t /\ inf \in Seq(JobInfo)
  BY <1>1, TailEffect DEF Good
<1>3. PICK ran : ran = [Started(ev, inf) EXCEPT ![ev].remain = t - Started(ev, inf)[ev].start]
  OBVIOUS
<1>4. /\ OnlyOf(ev, inf, ran) /\ ran[ev].start <= t
      /\ ran[ev].remain \in Nat /\ ran[ev].start \in Int /\ ran[ev].arrival \in Int
  BY <1>2, <1>3, RanEffect
<1>5. ran \in Seq(JobInfo) /\ ev \in Ids(ran)
  BY <1>2, <1>4 DEF OnlyOf, Ids
<1>6. PICK up : up = [ran EXCEPT ![ev].priority = @ + 10]
  OBVIOUS
<1>7. OnlyOf(ev, ran, up) /\ up[ev].remain = ran[ev].remain /\ up[ev].start = ran[ev].start
  <2>1. Raised(up, ran, ev)
    BY <1>6 DEF Raised
  <2> QED BY ONLY <1>5, <2>1, AddPriority
<1>8. OnlyOf(ev, inf, up)
  BY <1>4, <1>7 DEF OnlyOf, Ids
<1>9. PICK g : g = info'
  OBVIOUS
<1>10. g = up \/ g = ran
  BY <1>1, <1>3, <1>6, <1>9 DEF Rotate
<1>11. OnlyOf(ev, inf, g) /\ g[ev].remain = ran[ev].remain /\ g[ev].start <= t
  BY <1>4, <1>7, <1>8, <1>10
<1>12. PICK rest : rest = Tail(pqueue)
  OBVIOUS
<1>13. /\ rest \in Seq(Ids(inf)) /\ Distinct(rest) /\ Sorted(rest, inf)
       /\ ToSet(rest) = ToSet(pqueue) \ {ev} /\ ev \notin ToSet(rest) /\ ev \in ToSet(pqueue)
  <2>1. /\ rest \in Seq(Ids(inf)) /\ Distinct(rest) /\ Sorted(rest, inf)
        /\ ToSet(rest) = ToSet(pqueue) \ {ev}
    BY <1>2, <1>12, TailEffect DEF Good
  <2>2. 1 \in 1 .. Len(pqueue) /\ ev = pqueue[1] /\ Len(pqueue) \in Nat
    BY <1>2, TailEffect DEF Good
  <2>3. ev \in ToSet(pqueue)
    <3>1. DOMAIN pqueue = 1 .. Len(pqueue)
      BY <1>2, LenProperties DEF Good
    <3> QED BY <2>2, <3>1 DEF ToSet
  <2> QED BY <2>1, <2>3
<1>14. rest \in Seq(Ids(g)) /\ Sorted(rest, g)
  BY <1>2, <1>11, <1>13, QueueKept
<1>15. g \in Seq(JobInfo) /\ Ids(g) = Ids(inf) /\ Len(g) = Len(inf)
  BY <1>11 DEF OnlyOf, Ids
<1>16. PICK r : r = pqueue'
  OBVIOUS
<1>17. r = IF ran[ev].remain > 0 THEN priqueue_offer(rest, ev, g) ELSE rest
  BY <1>1, <1>3, <1>9, <1>12, <1>16 DEF Rotate
<1>18. /\ r \in Seq(Ids(g)) /\ Sorted(r, g) /\ Distinct(r)
       /\ ToSet(r) \subseteq ToSet(pqueue) /\ (ev \in ToSet(r) => ran[ev].remain > 0)
  <2>1. CASE ran[ev].remain > 0
    <3>1. r = priqueue_offer(rest, ev, g) /\ ev \in Ids(g)
      BY <1>2, <1>15, <1>17, <2>1
    <3>2. /\ r \in Seq(Ids(g)) /\ Sorted(r, g) /\ Distinct(r)
          /\ ToSet(r) = ToSet(rest) \cup {ev}
      BY <1>13, <1>14, <1>15, <3>1, OfferEffect
    <3> QED BY <1>13, <2>1, <3>2
  <2>2. CASE ~(ran[ev].remain > 0)
    BY <1>13, <1>14, <1>17, <2>2
  <2> QED BY <2>1, <2>2
<1>19. Good(r, g, t)
  <2>1. ASSUME NEW k \in Ids(g) PROVE g[k].start <= t
    <3>1. k # ev => g[k] = inf[k] /\ inf[k].start <= t
      BY <1>2, <1>11, <1>15 DEF OnlyOf, Good
    <3> QED BY <1>11, <3>1
  <2>2. ASSUME NEW k \in ToSet(r) PROVE g[k].remain > 0
    <3>1. k = ev => g[k].remain > 0
      BY <1>11, <1>18
    <3>2. k \in ToSet(pqueue) /\ inf[k].remain > 0 /\ k \in Ids(inf)
      <4>1. Len(pqueue) \in Nat /\ DOMAIN pqueue = 1 .. Len(pqueue)
        BY <1>2, LenProperties DEF Good
      <4>2. \A m \in 1 .. Len(pqueue) : pqueue[m] \in Ids(inf)
        BY <1>2, ElementOfSeq DEF Good
      <4>3. k \in ToSet(pqueue)
        BY <1>18
      <4> QED BY <1>2, <4>1, <4>2, <4>3 DEF ToSet, Good
    <3>3. k # ev => g[k] = inf[k]
      BY <1>11, <3>2 DEF OnlyOf
    <3> QED BY <3>1, <3>2, <3>3
  <2> QED BY <1>15, <1>18, <2>1, <2>2 DEF Good
<1>20. currjob' = First(r)
  <2>1. currjob' = IF priqueue_peek(r) = NULL THEN gtmain ELSE priqueue_peek(r)
    BY <1>16 DEF Rotate, SwitchTo
  <2>2. g \in Seq(JobInfo) /\ r \in Seq(Ids(g))
    BY <1>15, <1>18
  <2> QED BY <2>1, <2>2, PeekEffect
<1>21. totals' \in Totals /\ totals'.job_num = resp.job_num
  <2>1. PICK n : n = resp.response + ran[ev].start - ran[ev].arrival
    OBVIOUS
  <2>2. n \in Int
    BY <1>4, <2>1 DEF Totals
  <2>3. totals' = [resp EXCEPT !.response = n] \/ totals' = resp
    BY <1>1, <1>3, <2>1 DEF Rotate
  <2> QED BY <2>2, <2>3 DEF Totals
<1>22. ~NonPreemptive
  BY DEF Rotate, NonPreemptive, Preemptive
<1> QED BY <1>1, <1>9, <1>15, <1>16, <1>18, <1>19, <1>20, <1>21, <1>22 DEF Resumed

\* Nobody, or the job at the head, is evicted from a queue of jobs with work left.
LEMMA ExpiredResumes ==
  ASSUME SchedulerAssumption, pqueue_scheme \in Schemes, currtime(clock') \in Nat,
         NEW inf, NEW resp \in Totals, Good(pqueue, inf, currtime(clock')),
         NEW ev, ev = NULL \/ (pqueue # <<>> /\ ev = Head(pqueue)),
         scheduler_quantum_expired(ev, inf, resp)
  PROVE  Resumed(inf, resp)
<1>1. CASE QueueEmpty(ev, inf, resp)
  <2>1. pqueue = <<>> /\ ev = NULL /\ info' = inf /\ totals' = resp /\ pqueue' = pqueue
    BY <1>1 DEF QueueEmpty
  <2>2. currjob' = First(pqueue')
    BY <1>1, <2>1 DEF QueueEmpty, SwitchTo, First
  <2>3. Good(pqueue', info', currtime(clock'))
    BY <2>1
  <2> QED BY <2>1, <2>2, <2>3 DEF Resumed
<1>2. CASE DropFinished(ev, inf, resp)
  <2>1. 1 \in 1 .. Len(pqueue) /\ Head(pqueue) = pqueue[1] /\ pqueue # <<>>
    BY <1>2, TailEffect DEF Good, DropFinished
  <2>2. DOMAIN pqueue = 1 .. Len(pqueue)
    BY LenProperties DEF Good
  <2>3. Head(pqueue) \in ToSet(pqueue)
    BY <2>1, <2>2 DEF ToSet
  <2>4. inf[Head(pqueue)].remain > 0
    BY <2>3 DEF Good
  <2> QED BY <1>2, <2>4 DEF DropFinished
<1>3. CASE StartFirst(ev, inf, resp)
  <2>1. ev = NULL
    BY <1>3 DEF StartFirst
  <2> QED BY <1>3, <2>1, StartFirstResumes
<1>4. CASE GoOn(ev, inf, resp)
  <2>1. pqueue # <<>> /\ ev = Head(pqueue)
    BY <1>4 DEF GoOn
  <2> QED BY <1>4, <2>1, GoOnResumes
<1>5. CASE Rotate(ev, inf, resp)
  <2>1. pqueue # <<>> /\ ev = Head(pqueue)
    BY <1>5 DEF Rotate
  <2> QED BY <1>5, <2>1, RotateResumes
<1> QED BY <1>1, <1>2, <1>3, <1>4, <1>5 DEF scheduler_quantum_expired

\* After a job has ended at the head, the next one is switched to.
LEMMA ExpiredDrops ==
  ASSUME NEW inf \in Seq(JobInfo), pqueue \in Seq(Ids(inf)), pqueue # <<>>,
         inf[Head(pqueue)].remain = 0, NEW resp, scheduler_quantum_expired(NULL, inf, resp)
  PROVE  /\ pqueue' = Tail(pqueue) /\ info' = inf /\ totals' = resp
         /\ currjob' = First(Tail(pqueue))
<1>1. DropFinished(NULL, inf, resp)
  BY DEF scheduler_quantum_expired, QueueEmpty, StartFirst, GoOn, Rotate
<1>2. PICK rest : rest = Tail(pqueue)
  OBVIOUS
<1>3. rest \in Seq(Ids(inf))
  BY <1>2, TailEffect
<1>4. currjob' = IF priqueue_peek(rest) = NULL THEN gtmain ELSE priqueue_peek(rest)
  BY <1>1, <1>2 DEF DropFinished, SwitchTo
<1>5. currjob' = First(rest)
  BY <1>3, <1>4, PeekEffect
<1> QED BY <1>1, <1>2, <1>5 DEF DropFinished

---------------------------------------------------------------------------
(* The invariant.                                                          *)

TypeOK == /\ pqueue_scheme \in Schemes
          /\ state \in Seq({"Ready", "Unused"}) /\ Len(state) = Len(info)
          /\ left \in Seq(Nat) /\ Len(left) = Len(info) /\ Len(info) <= NumJobs
          /\ totals \in Totals /\ counter \in {0, 1}
          /\ job_count \in Nat /\ clock \in Nat /\ stage \in {"create", "wait", "exited"}

QueueInv == Good(pqueue, info, currtime(clock))

\* The job that runs, and the one that has made way for main, is at the head.
RunsOK == \/ currjob = gtmain /\ suspended = NULL
          \/ stage = "wait" /\ pqueue # <<>> /\ currjob = Head(pqueue) /\ suspended = NULL
          \/ stage = "wait" /\ pqueue # <<>> /\ suspended = Head(pqueue) /\ currjob = gtmain

JobsOK == /\ ToSet(pqueue) \subseteq Ready
          /\ job_count = Cardinality(Ready) /\ totals.job_num = Len(state) - job_count
          /\ NonPreemptive => Ready \subseteq ToSet(pqueue)

\* main leaves only when the queue is empty.
EndOK == stage = "exited" => pqueue = <<>>

SchedInv == TypeOK /\ QueueInv /\ RunsOK /\ JobsOK /\ EndOK

\* What the types say of the job at the head.
LEMMA HeadLives ==
  ASSUME SchedulerAssumption, TypeOK, QueueInv, pqueue # <<>>
  PROVE  /\ Head(pqueue) \in Ids(info) /\ Head(pqueue) \in Jobs /\ Head(pqueue) # NULL
         /\ Head(pqueue) # gtmain /\ Head(pqueue) \in ToSet(pqueue)
<1>1. Head(pqueue) \in Ids(info) /\ Head(pqueue) = pqueue[1] /\ 1 \in 1 .. Len(pqueue)
  BY TailEffect DEF QueueInv, Good
<1>2. DOMAIN pqueue = 1 .. Len(pqueue) /\ Len(info) \in Nat
  BY LenProperties DEF QueueInv, Good
<1>3. Head(pqueue) \in ToSet(pqueue)
  BY <1>1, <1>2 DEF ToSet
<1>4. Head(pqueue) \in Jobs /\ Head(pqueue) # NULL
  BY <1>1, <1>2 DEF TypeOK, SchedulerAssumption, Ids, Jobs, NULL
<1> QED BY <1>1, <1>3, <1>4 DEF SchedulerAssumption, Jobs

LEMMA QueuePrimed ==
  ASSUME pqueue_scheme' = pqueue_scheme, Good(pqueue', info', currtime(clock'))
  PROVE  QueueInv'
BY DEF QueueInv, Good, Sorted, Distinct, Before, Rank, Ids, currtime

\* The invariant once the queue has been looked at.
LEMMA GoesOn ==
  ASSUME SchedulerAssumption, SchedInv, Resumed(info, totals), pqueue_scheme' = pqueue_scheme,
         state' = state, job_count' = job_count, suspended' = NULL, counter' \in {0, 1},
         left' \in Seq(Nat), Len(left') = Len(left), clock' \in Nat,
         stage' = "wait" \/ (stage' = "exited" /\ currjob' = gtmain)
  PROVE  SchedInv'
<1> USE DEF SchedInv
<1>1. QueueInv'
  BY QueuePrimed DEF Resumed
<1>2. TypeOK'
  BY DEF TypeOK, Resumed
<1>3. pqueue' # <<>> => Head(pqueue') # gtmain
  <2>1. PICK r, g : r = pqueue' /\ g = info'
    OBVIOUS
  <2>2. r \in Seq(Ids(g)) /\ Len(g) = Len(info)
    BY <2>1 DEF Resumed, Good
  <2>3. r # <<>> => Head(r) \in Ids(g)
    BY <2>2, TailEffect
  <2>4. Len(info) \in Nat
    BY LenProperties DEF QueueInv, Good
  <2>5. gtmain \notin Ids(g)
    BY <2>2, <2>4 DEF SchedulerAssumption, Ids, TypeOK
  <2> QED BY <2>1, <2>3, <2>5
<1>4. RunsOK' /\ EndOK'
  <2>1. currjob' = IF pqueue' = <<>> THEN gtmain ELSE Head(pqueue')
    BY DEF Resumed, First
  <2> QED BY <1>3, <2>1 DEF RunsOK, EndOK
<1>5. JobsOK'
  <2>1. Ready' = Ready
    BY DEF Ready
  <2>2. NonPreemptive' <=> NonPreemptive
    BY DEF NonPreemptive
  <2>3. ToSet(pqueue') \subseteq ToSet(pqueue) /\ totals'.job_num = totals.job_num
        /\ (NonPreemptive => pqueue' = pqueue)
    BY DEF Resumed
  <2> QED BY <2>1, <2>2, <2>3 DEF JobsOK
<1> QED BY <1>1, <1>2, <1>4, <1>5

LEMMA InitSched == SchedulerAssumption /\ Init => SchedInv
<1> SUFFICES ASSUME SchedulerAssumption, Init PROVE SchedInv
  OBVIOUS
<1>1. /\ info = <<>> /\ pqueue = <<>> /\ state = <<>> /\ left = <<>>
      /\ Len(<<>>) = 0 /\ \A S : <<>> \in Seq(S)
  BY EmptySeq DEF Init
<1>2. Ids(info) = {} /\ DOMAIN pqueue = {}
  BY <1>1 DEF Ids
<1>3. ToSet(pqueue) = {}
  BY <1>2 DEF ToSet
<1>4. Ready = {} /\ Cardinality(Ready) = 0
  <2>1. Ready = {}
    BY <1>1 DEF Ready
  <2> QED BY <2>1, FS_EmptySet
<1>5. TypeOK
  BY <1>1 DEF Init, TypeOK, Totals, SchedulerAssumption
<1>6. QueueInv
  BY <1>1, <1>2, <1>3 DEF QueueInv, Good, Distinct, Sorted
<1>7. RunsOK /\ EndOK
  BY DEF Init, RunsOK, EndOK
<1>8. JobsOK
  BY <1>1, <1>3, <1>4 DEF Init, JobsOK
<1> QED BY <1>5, <1>6, <1>7, <1>8 DEF SchedInv

LEMMA ReadyFinite ==
  ASSUME TypeOK
  PROVE  IsFiniteSet(Ready) /\ Ready \subseteq 1 .. Len(state) /\ Len(state) \in Nat
<1>1. Len(state) \in Nat /\ DOMAIN state = 1 .. Len(state)
  BY LenProperties DEF TypeOK
<1>2. IsFiniteSet(1 .. Len(state))
  BY <1>1, FS_Interval
<1>3. Ready \subseteq 1 .. Len(state)
  BY <1>1 DEF Ready
<1> QED BY <1>1, <1>2, <1>3, FS_Subset

\* A job that has been created is offered to the queue and lives.
LEMMA StepGtgo == ASSUME SchedulerAssumption, SchedInv, gtgo PROVE SchedInv'
<1> USE DEF SchedInv
<1>1. PICK work \in 1 .. MaxBurst, d \in {0, 1} :
        /\ clock' = clock + d
        /\ left' = Append(left, work)
        /\ info' = Append(info, [priority |-> 1, arrival |-> currtime(clock'),
                                 burst |-> 10 * work, start |-> -1, remain |-> 10 * work])
  BY DEF gtgo
<1>2. PICK t, now, burst, g, r : /\ now = currtime(clock) /\ t = currtime(clock')
                                /\ burst = 10 * work /\ g = info' /\ r = pqueue'
  OBVIOUS
<1>3. PICK e : e = [priority |-> 1, arrival |-> t, burst |-> burst, start |-> -1, remain |-> burst]
  OBVIOUS
<1>4. /\ clock' \in Nat /\ now \in Nat /\ t \in Nat /\ t >= now
      /\ burst \in Nat \ {0} /\ work \in Nat
  <2>1. clock \in Nat /\ clock' \in Nat /\ clock <= clock' /\ work \in Nat \ {0}
    BY <1>1 DEF TypeOK, SchedulerAssumption
  <2>2. PICK u : u = clock'
    OBVIOUS
  <2>3. now \in Nat /\ t \in Nat /\ now <= t
    BY <1>2, <2>1, <2>2, ClockReads, ClockGrows
  <2> QED BY <1>2, <2>1, <2>3
<1>5. e \in JobInfo /\ e.remain > 0 /\ e.start <= t
  BY <1>3, <1>4 DEF JobInfo
<1>6. info \in Seq(JobInfo) /\ Len(info) \in Nat /\ g = Append(info, e)
  BY <1>1, <1>2, <1>3, LenProperties DEF QueueInv, Good
<1>7. PICK n : n = Len(info) + 1
  OBVIOUS
<1>8. /\ g \in Seq(JobInfo) /\ Len(g) = n /\ g[n] = e
      /\ \A k \in 1 .. Len(info) : g[k] = info[k]
  BY <1>5, <1>6, <1>7, AppendProperties
<1>9. n \in Ids(g) /\ n \notin Ids(info) /\ Ids(info) \subseteq Ids(g)
      /\ \A k \in Ids(g) : k = n \/ k \in Ids(info)
  BY <1>6, <1>7, <1>8 DEF Ids
<1>10. /\ pqueue \in Seq(Ids(info)) /\ Len(pqueue) \in Nat /\ DOMAIN pqueue = 1 .. Len(pqueue)
       /\ \A k \in 1 .. Len(pqueue) : pqueue[k] \in Ids(info)
  BY LenProperties, ElementOfSeq DEF QueueInv, Good
<1>11. ToSet(pqueue) \subseteq Ids(info)
  BY <1>10 DEF ToSet
<1>12. pqueue \in Seq(Ids(g))
  BY <1>9, <1>10, SeqDef
<1>13. Sorted(pqueue, g)
  <2> SUFFICES ASSUME NEW a \in 1 .. Len(pqueue), NEW b \in 1 .. Len(pqueue), a < b
               PROVE  ~Before(pqueue[b], pqueue[a], g)
    BY DEF Sorted
  <2>1. ~Before(pqueue[b], pqueue[a], info)
    BY DEF QueueInv, Good, Sorted
  <2>2. pqueue[a] \in 1 .. Len(info) /\ pqueue[b] \in 1 .. Len(info)
    BY <1>10 DEF Ids
  <2>3. SameKeys(pqueue[a], info, g) /\ SameKeys(pqueue[b], info, g)
    BY <1>8, <2>2 DEF SameKeys
  <2> QED BY <2>1, <2>3, SameBefore
<1>14. r = priqueue_offer(pqueue, n, g)
  BY <1>2, <1>8 DEF gtgo
<1>15. r \in Seq(Ids(g)) /\ Sorted(r, g) /\ Distinct(r) /\ ToSet(r) = ToSet(pqueue) \cup {n}
  <2>1. Distinct(pqueue) /\ n \notin ToSet(pqueue)
    BY <1>9, <1>11 DEF QueueInv, Good
  <2> QED BY <1>8, <1>9, <1>12, <1>13, <1>14, <2>1, OfferEffect
<1>16. Good(r, g, t)
  <2>1. ASSUME NEW k \in Ids(g) PROVE g[k].start <= t
    <3>1. CASE k = n
      BY <1>5, <1>8, <3>1
    <3>2. CASE k \in Ids(info)
      <4>1. g[k] = info[k]
        BY <1>8, <3>2 DEF Ids
      <4>2. info[k] \in JobInfo
        BY <1>6, <3>2, ElementOfSeq DEF Ids
      <4>3. info[k].start <= now /\ info[k].start \in Int
        BY <1>2, <3>2, <4>2 DEF QueueInv, Good, JobInfo
      <4> QED BY <1>4, <4>1, <4>3
    <3> QED BY <1>9, <3>1, <3>2
  <2>2. ASSUME NEW k \in ToSet(r) PROVE g[k].remain > 0
    <3>1. CASE k = n
      BY <1>5, <1>8, <3>1
    <3>2. CASE k \in ToSet(pqueue)
      <4>1. k \in 1 .. Len(info) /\ info[k].remain > 0
        BY <1>11, <3>2 DEF QueueInv, Good, Ids
      <4> QED BY <1>8, <4>1
    <3> QED BY <1>15, <3>1, <3>2
  <2> QED BY <1>8, <1>15, <2>1, <2>2 DEF Good
<1>17. QueueInv'
  <2>1. pqueue_scheme' = pqueue_scheme
    BY DEF gtgo
  <2> QED BY <1>2, <1>16, <2>1, QueuePrimed
<1>18. PICK st, lf : st = state' /\ lf = left'
  OBVIOUS
<1>19. /\ state \in Seq({"Ready", "Unused"}) /\ Len(state) = Len(info)
       /\ left \in Seq(Nat) /\ Len(left) = Len(info)
  BY DEF TypeOK
<1>20. /\ st \in Seq({"Ready", "Unused"}) /\ Len(st) = n /\ DOMAIN st = 1 .. n /\ st[n] = "Ready"
       /\ \A k \in 1 .. Len(info) : st[k] = state[k]
  <2>1. st = Append(state, "Ready") /\ "Ready" \in {"Ready", "Unused"}
    BY <1>18 DEF gtgo
  <2>2. st \in Seq({"Ready", "Unused"}) /\ Len(st) = Len(state) + 1 /\ st[Len(state) + 1] = "Ready"
        /\ \A k \in 1 .. Len(state) : st[k] = state[k]
    BY <1>19, <2>1, AppendProperties
  <2>3. DOMAIN st = 1 .. Len(st)
    BY <2>2, LenProperties
  <2> QED BY <1>7, <1>19, <2>2, <2>3
<1>21. lf \in Seq(Nat) /\ Len(lf) = n
  <2>1. lf = Append(left, work) /\ work \in Nat
    BY <1>1, <1>4, <1>18
  <2> QED BY <1>7, <1>19, <2>1, AppendProperties
<1>22. Ready' = Ready \cup {n} /\ n \notin Ready
  <2>1. DOMAIN state = 1 .. Len(info)
    BY <1>19, LenProperties
  <2>2. Ready' = {k \in 1 .. n : st[k] = "Ready"}
    BY <1>18, <1>20 DEF Ready
  <2>3. \A k : k \in 1 .. n <=> k \in 1 .. Len(info) \/ k = n
    BY <1>6, <1>7
  <2>4. n \notin 1 .. Len(info)
    BY <1>6, <1>7
  <2> QED BY <1>20, <2>1, <2>2, <2>3, <2>4 DEF Ready
<1>23. Cardinality(Ready') = Cardinality(Ready) + 1
  BY <1>22, ReadyFinite, FS_AddElement
<1>24. TypeOK'
  <2>1. n <= NumJobs
    BY <1>6, <1>7 DEF gtgo, TypeOK, SchedulerAssumption
  <2>2. /\ pqueue_scheme' = pqueue_scheme /\ totals' = totals /\ counter' = counter
        /\ stage' = stage /\ job_count' = job_count + 1
    BY DEF gtgo
  <2> QED BY <1>2, <1>4, <1>8, <1>18, <1>20, <1>21, <2>1, <2>2 DEF TypeOK
<1>25. JobsOK'
  <2>1. NonPreemptive' <=> NonPreemptive
    BY DEF gtgo, NonPreemptive
  <2>2. job_count' = job_count + 1 /\ totals' = totals /\ job_count \in Nat
    BY DEF gtgo, TypeOK
  <2>3. totals.job_num = Len(state) - job_count /\ totals.job_num \in Int
    BY DEF JobsOK, TypeOK, Totals
  <2>4. ToSet(pqueue') = ToSet(pqueue) \cup {n} /\ Len(state') = Len(state) + 1
    BY <1>2, <1>7, <1>15, <1>18, <1>19, <1>20
  <2>5. Len(state) \in Nat
    BY ReadyFinite
  <2>6. job_count' = Cardinality(Ready') /\ totals'.job_num = Len(state') - job_count'
    BY <1>23, <2>2, <2>3, <2>4, <2>5 DEF JobsOK
  <2> QED BY <1>22, <2>1, <2>4, <2>6 DEF JobsOK
<1>26. RunsOK' /\ EndOK'
  BY DEF gtgo, RunsOK, EndOK
<1> QED BY <1>17, <1>24, <1>25, <1>26

\* gtstart and gtdoyield(0) of main: nobody is evicted.
LEMMA StepMain == ASSUME SchedulerAssumption, SchedInv, gtstart \/ MainYields PROVE SchedInv'
<1>1. /\ clock' = clock /\ scheduler_quantum_expired(NULL, info, totals)
      /\ pqueue_scheme' = pqueue_scheme /\ state' = state /\ counter' = counter
      /\ suspended' = suspended /\ job_count' = job_count /\ left' = left
  BY DEF gtstart, MainYields
<1>2. suspended = NULL
  BY DEF gtstart, MainYields, SchedInv, RunsOK
<1>3. stage' = "wait" \/ (stage' = "exited" /\ currjob' = gtmain)
  <2>1. gtstart => stage' = "wait"
    BY DEF gtstart
  <2>2. MainYields => stage' = IF currjob' = gtmain THEN "exited" ELSE "wait"
    BY DEF MainYields
  <2> QED BY <2>1, <2>2
<1>4. /\ Good(pqueue, info, currtime(clock')) /\ clock' \in Nat /\ totals \in Totals
      /\ pqueue_scheme \in Schemes /\ currtime(clock') \in Nat
  BY <1>1, ClockReads DEF SchedInv, QueueInv, TypeOK
<1>5. Resumed(info, totals)
  BY <1>1, <1>4, ExpiredResumes
<1>6. counter' \in {0, 1} /\ left' \in Seq(Nat) /\ Len(left') = Len(left) /\ suspended' = NULL
  BY <1>1, <1>2 DEF SchedInv, TypeOK
<1> QED BY <1>1, <1>3, <1>4, <1>5, <1>6, GoesOn

\* The job main made way for is evicted after all.
LEMMA StepGoBack == ASSUME SchedulerAssumption, SchedInv, GoBack PROVE SchedInv'
<1>1. /\ clock' = clock /\ scheduler_quantum_expired(suspended, info, totals)
      /\ pqueue_scheme' = pqueue_scheme /\ state' = state /\ counter' = counter
      /\ suspended' = NULL /\ job_count' = job_count /\ left' = left /\ stage' = "wait"
  BY DEF GoBack
<1>2. pqueue # <<>> /\ suspended = Head(pqueue)
  BY DEF GoBack, SchedInv, RunsOK
<1>3. /\ Good(pqueue, info, currtime(clock')) /\ clock' \in Nat /\ totals \in Totals
      /\ pqueue_scheme \in Schemes /\ currtime(clock') \in Nat
  BY <1>1, ClockReads DEF SchedInv, QueueInv, TypeOK
<1>4. Resumed(info, totals)
  <2>1. PICK ev : ev = suspended
    OBVIOUS
  <2>2. scheduler_quantum_expired(ev, info, totals) /\ pqueue # <<>> /\ ev = Head(pqueue)
    BY <1>1, <1>2, <2>1
  <2> QED BY <1>3, <2>2, ExpiredResumes
<1>5. counter' \in {0, 1} /\ left' \in Seq(Nat) /\ Len(left') = Len(left)
  BY <1>1 DEF SchedInv, TypeOK
<1> QED BY <1>1, <1>3, <1>4, <1>5, GoesOn

\* The job that runs is at the head of the queue.
LEMMA Running ==
  ASSUME SchedulerAssumption, SchedInv, currjob \in Jobs
  PROVE  /\ pqueue # <<>> /\ currjob = Head(pqueue) /\ suspended = NULL /\ stage = "wait"
         /\ currjob \in Ids(info) /\ currjob \in ToSet(pqueue)
<1>1. currjob # gtmain
  BY DEF SchedulerAssumption, Jobs
<1>2. pqueue # <<>> /\ currjob = Head(pqueue) /\ suspended = NULL /\ stage = "wait"
  BY <1>1 DEF SchedInv, RunsOK
<1> QED BY <1>2, HeadLives DEF SchedInv

\* Time passes for a queue nobody looks at.
LEMMA TimePasses ==
  ASSUME clock \in Nat, clock' \in Nat, clock <= clock'
  PROVE  /\ currtime(clock) \in Nat /\ currtime(clock') \in Nat
         /\ currtime(clock) <= currtime(clock')
<1>1. PICK u : u = clock'
  OBVIOUS
<1> QED BY <1>1, ClockReads, ClockGrows

LEMMA LaterGood ==
  ASSUME NEW t \in Nat, NEW u \in Nat, t <= u, NEW q, NEW inf, Good(q, inf, t)
  PROVE  Good(q, inf, u)
<1>1. ASSUME NEW k \in Ids(inf) PROVE inf[k].start <= u
  <2>1. inf[k] \in JobInfo
    BY ElementOfSeq DEF Ids, Good
  <2>2. inf[k].start \in Int
    BY <2>1 DEF JobInfo
  <2>3. inf[k].start <= t
    BY DEF Good
  <2> QED BY <2>2, <2>3
<1> QED BY <1>1 DEF Good

LEMMA StepAlarm == ASSUME SchedulerAssumption, SchedInv, Alarm PROVE SchedInv'
<1>1. /\ currjob \in Jobs /\ left[currjob] > 0 /\ left' = [left EXCEPT ![currjob] = @ - 1]
      /\ clock' = clock + 1 /\ counter' = (counter + 1) % 2
      /\ pqueue_scheme' = pqueue_scheme /\ state' = state /\ job_count' = job_count
      /\ stage' = stage
  BY DEF Alarm
<1>2. /\ pqueue # <<>> /\ currjob = Head(pqueue) /\ suspended = NULL /\ stage = "wait"
      /\ currjob \in Ids(info)
  BY <1>1, Running
<1>3. clock \in Nat /\ clock' \in Nat /\ clock <= clock' /\ counter' \in {0, 1}
  BY <1>1 DEF SchedInv, TypeOK
<1>4. Good(pqueue, info, currtime(clock')) /\ currtime(clock') \in Nat
  <2>1. PICK t, u : t = currtime(clock) /\ u = currtime(clock')
    OBVIOUS
  <2>2. t \in Nat /\ u \in Nat /\ t <= u
    BY <1>3, <2>1, TimePasses
  <2>3. Good(pqueue, info, u)
    BY <2>1, <2>2, LaterGood DEF SchedInv, QueueInv
  <2> QED BY <2>1, <2>2, <2>3
<1>5. left' \in Seq(Nat) /\ Len(left') = Len(left)
  <2>1. left \in Seq(Nat) /\ currjob \in 1 .. Len(left)
    BY <1>2 DEF SchedInv, TypeOK, Ids
  <2>2. left[currjob] - 1 \in Nat
    BY <1>1, <2>1, ElementOfSeq
  <2>3. PICK n : n = left[currjob] - 1
    OBVIOUS
  <2>4. left' = [left EXCEPT ![currjob] = n]
    BY <1>1, <2>3
  <2>5. n \in Nat
    BY <2>2, <2>3
  <2> QED BY <2>1, <2>4, <2>5, ExceptSeq
<1>6. CASE suspended' = currjob /\ currjob' = gtmain /\ UNCHANGED <<pqueue, info, totals>>
  <2>1. pqueue' = pqueue /\ info' = info /\ totals' = totals
    BY <1>6
  <2>2. QueueInv'
    BY <1>1, <1>4, <2>1, QueuePrimed
  <2>3. TypeOK'
    BY <1>1, <1>3, <1>5, <2>1 DEF SchedInv, TypeOK
  <2>4. RunsOK' /\ EndOK'
    BY <1>1, <1>2, <1>6, <2>1 DEF RunsOK, EndOK
  <2>5. JobsOK'
    BY <1>1, <2>1 DEF SchedInv, JobsOK, Ready, NonPreemptive
  <2> QED BY <2>2, <2>3, <2>4, <2>5 DEF SchedInv
<1>7. CASE scheduler_quantum_expired(currjob, info, totals) /\ suspended' = suspended
  <2>1. totals \in Totals /\ pqueue_scheme \in Schemes
    BY DEF SchedInv, TypeOK
  <2>2. Resumed(info, totals)
    <3>1. PICK ev : ev = currjob
      OBVIOUS
    <3>2. scheduler_quantum_expired(ev, info, totals) /\ pqueue # <<>> /\ ev = Head(pqueue)
      BY <1>2, <1>7, <3>1
    <3> QED BY <1>3, <1>4, <2>1, <3>2, ExpiredResumes
  <2> QED BY <1>1, <1>2, <1>3, <1>5, <1>7, <2>2, GoesOn
<1> QED BY <1>6, <1>7 DEF Alarm

\* The job at the head ends: it leaves the queue and the jobs that live at once.
LEMMA FinishEffect ==
  ASSUME SchedulerAssumption, SchedInv, Finish
  PROVE  /\ pqueue # <<>> /\ currjob = Head(pqueue) /\ currjob \in ToSet(pqueue)
         /\ pqueue' = Tail(pqueue) /\ currjob' = First(pqueue') /\ suspended' = NULL
         /\ stage = "wait" /\ stage' = "wait"
         /\ pqueue_scheme' = pqueue_scheme /\ Good(pqueue', info', currtime(clock'))
         /\ Len(info') = Len(info) /\ totals' \in Totals /\ totals'.job_num = totals.job_num + 1
         /\ clock' \in Nat /\ left' \in Seq(Nat) /\ Len(left') = Len(left)
<1>1. /\ currjob \in Jobs /\ clock' = clock + left[currjob]
      /\ left' = [left EXCEPT ![currjob] = 0]
      /\ pqueue_scheme' = pqueue_scheme /\ suspended' = suspended /\ stage' = stage
  BY DEF Finish
<1>2. /\ pqueue # <<>> /\ currjob = Head(pqueue) /\ suspended = NULL /\ stage = "wait"
      /\ currjob \in Ids(info) /\ currjob \in ToSet(pqueue)
  BY <1>1, Running
<1>3. left \in Seq(Nat) /\ currjob \in 1 .. Len(left)
  BY <1>2 DEF SchedInv, TypeOK, Ids
<1>4. /\ clock \in Nat /\ clock' \in Nat /\ clock <= clock'
      /\ currtime(clock) \in Nat /\ currtime(clock') \in Nat
      /\ currtime(clock) <= currtime(clock')
  <2>1. left[currjob] \in Nat
    BY <1>3, ElementOfSeq
  <2>2. clock \in Nat /\ clock' \in Nat /\ clock <= clock'
    BY <1>1, <2>1 DEF SchedInv, TypeOK
  <2> QED BY <2>2, TimePasses
<1>5. left' \in Seq(Nat) /\ Len(left') = Len(left)
  BY <1>1, <1>3, ExceptSeq
<1>6. PICK g : g = [info EXCEPT ![currjob].remain = 0]
  OBVIOUS
<1>7. info \in Seq(JobInfo) /\ pqueue \in Seq(Ids(info)) /\ Distinct(pqueue) /\ Sorted(pqueue, info)
  BY DEF SchedInv, QueueInv, Good
<1>8. OnlyOf(currjob, info, g) /\ g[currjob].remain = 0 /\ g[currjob].start = info[currjob].start
  <2>1. PICK n : n = 0
    OBVIOUS
  <2>2. PICK j : j = currjob
    OBVIOUS
  <2>3. n \in Nat /\ j \in Ids(info) /\ info \in Seq(JobInfo)
    BY <1>2, <1>7, <2>1, <2>2
  <2>4. HasRemain(g, info, j, n)
    BY <1>6, <2>1, <2>2 DEF HasRemain
  <2>5. OnlyOf(j, info, g) /\ g[j].remain = n /\ g[j].start = info[j].start
    BY ONLY <2>3, <2>4, SetRemain
  <2> QED BY <2>1, <2>2, <2>5
<1>9. g \in Seq(JobInfo) /\ Ids(g) = Ids(info) /\ Len(g) = Len(info)
  BY <1>8 DEF OnlyOf, Ids
<1>10. PICK sums : sums = [job_num |-> totals.job_num + 1,
                  waiting |-> totals.waiting + (currtime(clock') - info[currjob].arrival) - info[currjob].burst,
                  turnaround |-> totals.turnaround + currtime(clock') - info[currjob].arrival,
                  response |-> totals.response + info[currjob].start - info[currjob].arrival]
  OBVIOUS
<1>11. sums \in Totals /\ sums.job_num = totals.job_num + 1
  <2>1. info[currjob] \in JobInfo
    BY <1>2, <1>7, ElementOfSeq DEF Ids
  <2>2. /\ info[currjob].arrival \in Int /\ info[currjob].burst \in Int
        /\ info[currjob].start \in Int
    BY <2>1 DEF JobInfo
  <2>3. /\ totals.job_num \in Int /\ totals.waiting \in Int /\ totals.turnaround \in Int
        /\ totals.response \in Int
    BY DEF SchedInv, TypeOK, Totals
  <2>4. /\ totals.waiting + (currtime(clock') - info[currjob].arrival) - info[currjob].burst \in Int
        /\ totals.turnaround + currtime(clock') - info[currjob].arrival \in Int
        /\ totals.response + info[currjob].start - info[currjob].arrival \in Int
    BY <1>4, <2>2, <2>3
  <2> QED BY <1>10, <2>3, <2>4 DEF Totals
<1>12. scheduler_quantum_expired(NULL, g, sums)
  BY <1>6, <1>10 DEF Finish
<1>13. pqueue' = Tail(pqueue) /\ info' = g /\ totals' = sums /\ currjob' = First(Tail(pqueue))
  <2>1. pqueue \in Seq(Ids(g)) /\ g[Head(pqueue)].remain = 0
    BY <1>2, <1>7, <1>8, <1>9
  <2> QED BY <1>2, <1>9, <1>12, <2>1, ExpiredDrops
<1>14. PICK rest : rest = Tail(pqueue)
  OBVIOUS
<1>15. /\ rest \in Seq(Ids(info)) /\ Distinct(rest) /\ Sorted(rest, info)
       /\ ToSet(rest) = ToSet(pqueue) \ {currjob}
  BY <1>2, <1>7, <1>14, TailEffect
<1>16. rest \in Seq(Ids(g)) /\ Sorted(rest, g)
  BY <1>7, <1>8, <1>15, QueueKept
<1>17. PICK t, now : t = currtime(clock') /\ now = currtime(clock)
  OBVIOUS
<1>18. Good(rest, g, t)
  <2>1. Good(pqueue, info, t)
    <3>1. now \in Nat /\ t \in Nat /\ now <= t
      BY <1>4, <1>17
    <3> QED BY <1>17, <3>1, LaterGood DEF SchedInv, QueueInv
  <2>2. ASSUME NEW k \in Ids(g) PROVE g[k].start <= t
    BY <1>8, <1>9, <2>1 DEF Good, OnlyOf
  <2>3. ASSUME NEW k \in ToSet(rest) PROVE g[k].remain > 0
    <3>1. DOMAIN rest = 1 .. Len(rest) /\ \A m \in 1 .. Len(rest) : rest[m] \in Ids(info)
      BY <1>15, LenProperties, ElementOfSeq
    <3>2. k \in Ids(info) /\ k # currjob /\ k \in ToSet(pqueue)
      BY <1>15, <3>1 DEF ToSet
    <3> QED BY <1>8, <2>1, <3>2 DEF Good, OnlyOf
  <2> QED BY <1>9, <1>15, <1>16, <2>2, <2>3 DEF Good
<1>19. Good(pqueue', info', currtime(clock'))
  BY <1>13, <1>14, <1>17, <1>18
<1> QED BY <1>1, <1>2, <1>4, <1>5, <1>9, <1>11, <1>13, <1>19

LEMMA StepFinish == ASSUME SchedulerAssumption, SchedInv, Finish PROVE SchedInv'
<1> USE DEF SchedInv
<1>1. /\ pqueue # <<>> /\ currjob = Head(pqueue) /\ currjob \in ToSet(pqueue)
      /\ pqueue' = Tail(pqueue) /\ currjob' = First(pqueue') /\ suspended' = NULL
      /\ stage = "wait" /\ stage' = "wait"
      /\ pqueue_scheme' = pqueue_scheme /\ Good(pqueue', info', currtime(clock'))
      /\ Len(info') = Len(info) /\ totals' \in Totals /\ totals'.job_num = totals.job_num + 1
      /\ clock' \in Nat /\ left' \in Seq(Nat) /\ Len(left') = Len(left)
  BY FinishEffect
<1>2. /\ state' = [state EXCEPT ![currjob] = "Unused"] /\ job_count' = job_count - 1
      /\ counter' = counter
  BY DEF Finish
<1>3. currjob \in Ready
  BY <1>1 DEF JobsOK
<1>4. /\ state \in Seq({"Ready", "Unused"}) /\ currjob \in 1 .. Len(state)
      /\ DOMAIN state = 1 .. Len(state)
  BY <1>3, ReadyFinite, LenProperties DEF TypeOK
<1>5. PICK st : st = state'
  OBVIOUS
<1>6. /\ st \in Seq({"Ready", "Unused"}) /\ Len(st) = Len(state)
      /\ \A k \in 1 .. Len(state) : st[k] = IF k = currjob THEN "Unused" ELSE state[k]
  BY <1>2, <1>4, <1>5, ExceptSeq
<1>7. DOMAIN st = 1 .. Len(state)
  BY <1>6, LenProperties
<1>8. Ready' = Ready \ {currjob}
  <2>1. Ready' = {k \in DOMAIN st : st[k] = "Ready"}
    BY <1>5 DEF Ready
  <2> QED BY <1>4, <1>6, <1>7, <2>1 DEF Ready
<1>9. Cardinality(Ready') = Cardinality(Ready) - 1 /\ Cardinality(Ready) \in Nat \ {0}
  <2>1. IsFiniteSet(Ready)
    BY ReadyFinite
  <2>2. Cardinality(Ready') = Cardinality(Ready) - 1
    BY <1>3, <1>8, <2>1, FS_RemoveElement
  <2>3. Cardinality(Ready) \in Nat
    BY <2>1, FS_CardinalityType
  <2>4. Cardinality(Ready) # 0
    BY <1>3, <2>1, FS_EmptySet
  <2> QED BY <2>2, <2>3, <2>4
<1>10. job_count' \in Nat /\ job_count' = Cardinality(Ready')
  BY <1>2, <1>9 DEF JobsOK
<1>11. TypeOK'
  BY <1>1, <1>2, <1>5, <1>6, <1>10 DEF TypeOK
<1>12. QueueInv'
  BY <1>1, QueuePrimed
<1>13. RunsOK' /\ EndOK'
  BY <1>1 DEF RunsOK, EndOK, First
<1>14. ToSet(pqueue') = ToSet(pqueue) \ {currjob}
  <2>1. pqueue \in Seq(Ids(info)) /\ Distinct(pqueue)
    BY DEF QueueInv, Good
  <2>2. ToSet(Tail(pqueue)) = ToSet(pqueue) \ {Head(pqueue)}
    BY <1>1, <2>1, TailEffect
  <2> QED BY <1>1, <2>2
<1>15. totals'.job_num = Len(state') - job_count'
  <2>1. /\ Len(state) \in Nat /\ job_count \in Nat /\ totals.job_num = Len(state) - job_count
        /\ totals'.job_num = totals.job_num + 1
    BY <1>1, ReadyFinite DEF TypeOK, JobsOK
  <2> QED BY <1>2, <1>5, <1>6, <2>1
<1>16. JobsOK'
  <2>1. NonPreemptive' <=> NonPreemptive
    BY <1>1 DEF NonPreemptive
  <2> QED BY <1>8, <1>10, <1>14, <1>15, <2>1 DEF JobsOK
<1> QED BY <1>11, <1>12, <1>13, <1>16

LEMMA StepStays == ASSUME SchedInv, UNCHANGED vars PROVE SchedInv'
<1>1. /\ pqueue_scheme' = pqueue_scheme /\ pqueue' = pqueue /\ info' = info /\ state' = state
      /\ totals' = totals /\ counter' = counter /\ suspended' = suspended /\ currjob' = currjob
      /\ job_count' = job_count /\ left' = left /\ clock' = clock /\ stage' = stage
  BY DEF vars
<1>2. QueueInv'
  BY <1>1, QueuePrimed DEF SchedInv, QueueInv
<1>3. TypeOK' /\ RunsOK' /\ EndOK'
  BY <1>1 DEF SchedInv, TypeOK, RunsOK, EndOK
<1>4. JobsOK'
  BY <1>1 DEF SchedInv, JobsOK, Ready, NonPreemptive
<1> QED BY <1>2, <1>3, <1>4 DEF SchedInv

LEMMA SchedStep == ASSUME SchedulerAssumption, SchedInv, [Next]_vars PROVE SchedInv'
<1>1. CASE UNCHANGED vars
  BY <1>1, StepStays
<1>2. CASE gtgo
  BY <1>2, StepGtgo
<1>3. CASE gtstart \/ MainYields
  BY <1>3, StepMain
<1>4. CASE Alarm
  BY <1>4, StepAlarm
<1>5. CASE GoBack
  BY <1>5, StepGoBack
<1>6. CASE Finish
  BY <1>6, StepFinish
<1>7. CASE Terminated
  BY <1>7, StepStays DEF Terminated
<1> QED BY <1>1, <1>2, <1>3, <1>4, <1>5, <1>6, <1>7 DEF Next

---------------------------------------------------------------------------
(* What the invariant says.                                                *)

LEMMA ConsistentFollows == ASSUME SchedulerAssumption, SchedInv PROVE Consistent
<1> USE DEF SchedInv
<1>1. /\ pqueue \in Seq(Ids(info)) /\ Distinct(pqueue) /\ Sorted(pqueue, info)
      /\ DOMAIN pqueue = 1 .. Len(pqueue)
  BY LenProperties DEF QueueInv, Good
<1>2. ToSet(pqueue) \subseteq Ready
  BY DEF JobsOK
<1>3. IsInjective(pqueue)
  BY <1>1 DEF IsInjective, Distinct
<1>4. \A i, k \in DOMAIN pqueue : i < k => ~Before(pqueue[k], pqueue[i], info)
  BY <1>1 DEF Sorted
<1>5. pqueue # <<>> => Head(pqueue) \in Ready
  BY <1>2, HeadLives
<1>6. {currjob, suspended} \ {gtmain, NULL} \subseteq Ready
  BY <1>5 DEF RunsOK
<1>7. job_count = Cardinality(Ready) /\ totals.job_num = Len(state) - job_count
  BY DEF JobsOK
<1>8. NonPreemptive => ToSet(pqueue) = Ready
  BY <1>2 DEF JobsOK
<1>9. \A j \in {currjob, suspended} \cap Jobs : j = Head(pqueue)
  <2>1. gtmain \notin Jobs /\ NULL \notin Jobs
    BY DEF SchedulerAssumption, Jobs, NULL
  <2> QED BY <2>1 DEF RunsOK
<1> QED BY <1>2, <1>3, <1>4, <1>6, <1>7, <1>8, <1>9 DEF Consistent

\* libscheduler.c:144-170 and gthreads.c:180-203, every scheme: the queue is in
\* the order of the scheme and names only jobs that live, whoever runs lives, and
\* without preemption the queue holds every job that lives, the running one first.
THEOREM SchedulerConsistent == Spec => []Consistent
<1>1. Init => SchedInv
  BY InitSched, SchedulerAssumption
<1>2. SchedInv /\ [Next]_vars => SchedInv'
  BY SchedStep, SchedulerAssumption
<1>3. SchedInv => Consistent
  BY ConsistentFollows, SchedulerAssumption
<1> QED BY <1>1, <1>2, <1>3, PTL DEF Spec

\* libscheduler.h:147-149: without preemption the program ends only after every
\* job has ended; the safety half of what the runs check as AllJobsEnd.
THEOREM NoJobLeftBehind == Spec => [](NonPreemptive => NobodyLeftBehind)
<1>1. Init => SchedInv
  BY InitSched, SchedulerAssumption
<1>2. SchedInv /\ [Next]_vars => SchedInv'
  BY SchedStep, SchedulerAssumption
<1>3. SchedInv => (NonPreemptive => NobodyLeftBehind)
  <2> SUFFICES ASSUME SchedInv, NonPreemptive, stage = "exited" PROVE Ready = {}
    BY DEF NobodyLeftBehind
  <2>1. pqueue = <<>> /\ Ready \subseteq ToSet(pqueue)
    BY DEF SchedInv, EndOK, JobsOK
  <2>2. DOMAIN pqueue = {}
    <3>1. Len(pqueue) = 0 /\ DOMAIN pqueue = 1 .. Len(pqueue)
      BY <2>1, EmptySeq, LenProperties DEF SchedInv, QueueInv, Good
    <3> QED BY <3>1
  <2> QED BY <2>1, <2>2 DEF ToSet
<1> QED BY <1>1, <1>2, <1>3, PTL DEF Spec

\* The job at the head of the queue precedes every job that lives.
LEMMA HeadFirst ==
  ASSUME SchedulerAssumption, SchedInv, NonPreemptive, pqueue # <<>>, NEW k \in Ready
  PROVE  ~Before(k, Head(pqueue), info)
<1>1. /\ pqueue \in Seq(Ids(info)) /\ info \in Seq(JobInfo) /\ Sorted(pqueue, info)
      /\ DOMAIN pqueue = 1 .. Len(pqueue) /\ Len(pqueue) \in Nat
  BY LenProperties DEF SchedInv, QueueInv, Good
<1>2. k \in ToSet(pqueue)
  BY DEF SchedInv, JobsOK
<1>3. PICK m \in 1 .. Len(pqueue) : k = pqueue[m]
  BY <1>1, <1>2 DEF ToSet
<1>4. Head(pqueue) = pqueue[1] /\ 1 \in 1 .. Len(pqueue)
  BY <1>1, TailEffect
<1>5. CASE m = 1
  <2>1. pqueue[1] \in 1 .. Len(info)
    BY <1>1, <1>4, ElementOfSeq DEF Ids
  <2> QED BY <1>1, <1>3, <1>4, <1>5, <2>1, BeforeOrder
<1>6. CASE m > 1
  BY <1>1, <1>3, <1>4, <1>6 DEF Sorted
<1> QED BY <1>1, <1>3, <1>5, <1>6

\* A step of anybody, seen from one job.
EndsOK(j) == /\ state'[j] # state[j] => \A k \in Ready : ~Before(k, j, info)
             /\ currjob = j /\ currjob' \in Jobs \ {j} => state'[j] # state[j]

LEMMA SwitchKeeps ==
  ASSUME SchedulerAssumption, SchedInv, NonPreemptive, Resumed(info, totals), currjob \in Jobs
  PROVE  currjob' = currjob
<1>1. pqueue # <<>> /\ currjob = Head(pqueue)
  BY Running
<1> QED BY <1>1 DEF Resumed, First

LEMMA EndsStep ==
  ASSUME SchedulerAssumption, SchedInv, [Next]_vars, NonPreemptive, NEW j \in DOMAIN state
  PROVE  EndsOK(j)
<1>1. /\ state \in Seq({"Ready", "Unused"}) /\ DOMAIN state = 1 .. Len(state)
      /\ Len(state) \in Nat /\ Len(state) = Len(info) /\ Len(info) <= NumJobs
  BY LenProperties DEF SchedInv, TypeOK
<1>2. j \in Jobs /\ j # gtmain
  BY <1>1 DEF Jobs, SchedulerAssumption
<1>3. CASE state' = state /\ (currjob = gtmain \/ currjob' = currjob \/ currjob' = gtmain)
  <2>1. gtmain \notin Jobs
    BY DEF SchedulerAssumption, Jobs
  <2> QED BY <1>2, <1>3, <2>1 DEF EndsOK
<1>4. CASE gtgo
  <2>1. currjob' = currjob /\ state' = Append(state, "Ready")
    BY <1>4 DEF gtgo
  <2>2. PICK e : e = "Ready"
    OBVIOUS
  <2>3. e \in {"Ready", "Unused"} /\ \A k \in 1 .. Len(state) : Append(state, e)[k] = state[k]
    BY <1>1, <2>2, AppendProperties
  <2>4. state'[j] = state[j]
    BY <1>1, <2>1, <2>2, <2>3
  <2> QED BY <2>1, <2>4 DEF EndsOK
<1>5. CASE gtstart \/ MainYields \/ GoBack
  <2>1. state' = state
    BY <1>5 DEF gtstart, MainYields, GoBack
  <2>2. currjob = gtmain
    <3>1. gtstart => currjob = gtmain
      BY DEF gtstart, SchedInv, RunsOK
    <3>2. MainYields \/ GoBack => currjob = gtmain
      BY DEF MainYields, GoBack
    <3> QED BY <1>5, <3>1, <3>2
  <2> QED BY <1>3, <2>1, <2>2
<1>6. CASE Alarm
  <2>1. state' = state /\ currjob \in Jobs /\ clock' = clock + 1
    BY <1>6 DEF Alarm
  <2>2. pqueue # <<>> /\ currjob = Head(pqueue)
    BY <2>1, Running
  <2>3. /\ totals \in Totals /\ pqueue_scheme \in Schemes
        /\ currtime(clock) \in Nat /\ currtime(clock') \in Nat
        /\ currtime(clock) <= currtime(clock')
    <3>1. clock \in Nat /\ clock' \in Nat /\ clock <= clock'
      BY <2>1 DEF SchedInv, TypeOK
    <3>2. totals \in Totals /\ pqueue_scheme \in Schemes
      BY DEF SchedInv, TypeOK
    <3> QED BY <3>1, <3>2, TimePasses
  <2>4. PICK now, t, ev : now = currtime(clock) /\ t = currtime(clock') /\ ev = currjob
    OBVIOUS
  <2>5. Good(pqueue, info, t)
    <3>1. now \in Nat /\ t \in Nat /\ now <= t
      BY <2>3, <2>4
    <3> QED BY <2>4, <3>1, LaterGood DEF SchedInv, QueueInv
  <2>6. CASE scheduler_quantum_expired(currjob, info, totals)
    <3>1. scheduler_quantum_expired(ev, info, totals) /\ ev = Head(pqueue) /\ Good(pqueue, info, currtime(clock'))
      BY <2>2, <2>4, <2>5, <2>6
    <3>2. Resumed(info, totals)
      BY <2>2, <2>3, <3>1, ExpiredResumes
    <3>3. currjob' = currjob
      BY <2>1, <3>2, SwitchKeeps
    <3> QED BY <1>3, <2>1, <3>3
  <2>7. CASE currjob' = gtmain
    BY <1>3, <2>1, <2>7
  <2> QED BY <1>6, <2>6, <2>7 DEF Alarm
<1>7. CASE Finish
  <2>1. pqueue # <<>> /\ currjob = Head(pqueue) /\ currjob \in ToSet(pqueue)
    BY <1>7, FinishEffect
  <2>2. state' = [state EXCEPT ![currjob] = "Unused"]
    BY <1>7 DEF Finish
  <2>3. currjob \in Ready
    BY <2>1 DEF SchedInv, JobsOK
  <2>4. state[currjob] = "Ready" /\ currjob \in DOMAIN state
    BY <2>3 DEF Ready
  <2>5. state'[j] # state[j] <=> j = currjob
    <3>1. j # currjob => state'[j] = state[j]
      BY <1>1, <2>2
    <3>2. state'[currjob] = "Unused"
      BY <1>1, <2>2, <2>4
    <3> QED BY <2>4, <3>1, <3>2
  <2>6. j = currjob => \A k \in Ready : ~Before(k, j, info)
    BY <2>1, HeadFirst
  <2> QED BY <2>5, <2>6 DEF EndsOK
<1>8. CASE UNCHANGED vars \/ Terminated
  <2>1. state' = state /\ currjob' = currjob
    BY <1>8 DEF vars, Terminated
  <2> QED BY <1>3, <2>1
<1> QED BY <1>4, <1>5, <1>6, <1>7, <1>8 DEF Next

\* libscheduler.h:146-147: without preemption a job that runs is left for another
\* one only when it has ended, and none that precedes it is then still waiting.
THEOREM JobsEndInOrder == Spec => EndsInOrder
<1>1. Init => SchedInv
  BY InitSched, SchedulerAssumption
<1>2. SchedInv /\ [Next]_vars => SchedInv'
  BY SchedStep, SchedulerAssumption
<1>3. SchedInv /\ [Next]_vars =>
        [NonPreemptive =>
           \A j \in DOMAIN state : LET ends == state'[j] # state[j] IN
             /\ ends => \A k \in Ready : ~Before(k, j, info)
             /\ currjob = j /\ currjob' \in Jobs \ {j} => ends]_vars
  <2> SUFFICES ASSUME SchedInv, [Next]_vars, NonPreemptive, NEW j \in DOMAIN state
               PROVE  EndsOK(j)
    BY DEF EndsOK
  <2> QED BY EndsStep, SchedulerAssumption
<1> QED BY <1>1, <1>2, <1>3, PTL DEF Spec, EndsInOrder
=============================================================================

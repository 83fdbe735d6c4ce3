---------------------------- MODULE CrackerProofs ---------------------------
(* Proofs about the two programs of password_cracker and about mapreduce,    *)
(* for any number of workers. cracker2.c, any users and unknown letters: the *)
(* three meetings keep main and the workers in step, the subranges partition *)
(* the candidates, and the counts that the workers add up under the mutex    *)
(* are the size of the set of the candidates tried. cracker1.c, any tasks, a *)
(* queue of any size: each task goes through one pair of hands. mapreduce,   *)
(* any file and any pipes: each line goes through one splitter, one mapper   *)
(* and the reducer.                                                          *)
EXTENDS MCWorkers, TLAPS, FiniteSetTheorems, SequenceTheorems

---------------------------------------------------------------------------
(* The second cracker.                                                     *)

\* The user whose password is searched, and the subrange of worker w.
User == someinfo.user
Lo(w) == start_index(w, Candidates[User])
Hi(w) == end_index(w, Candidates[User])

IntRange == -IntLimit .. IntLimit - 1
Info == [user : 0 .. NumUsers, found : {-1, 0, 1}, password : Nat \cup {NoSecret}, hash_count : IntRange]

Shape == /\ line \in 0 .. EOF
         /\ someinfo \in Info
         /\ pc \in [Workers -> Meeting \cup {"check", "begin", "look", "hash", "found", "add", "exit"}]
         /\ buffer \in [Workers -> Nat] /\ left \in [Workers -> Int]
         /\ num_hashes \in [Workers -> Nat] /\ thread_status \in [Workers -> 0 .. 2]
         /\ printed \in Seq(Info)

\* The barrier releases main and the workers from the same meeting.
InStep ==
  /\ mainPc \in Meeting \cup {"read", "check", "summary", "join", "done"}
  /\ mainPc \in {"read", "meet1", "summary"} => \A w \in Workers : pc[w] = "meet1"
  /\ mainPc = "check" => \A w \in Workers : pc[w] \in {"check", "meet2", "exit"}
  /\ mainPc = "meet2" => \A w \in Workers : pc[w] \in {"check", "meet2"}
  /\ mainPc = "meet3" => \A w \in Workers : pc[w] = "meet3" \/ Searching(w)
  /\ mainPc \in {"join", "done"} => \A w \in Workers : pc[w] \in {"check", "exit"}

\* How far main has read: a worker sees the end of the input in time.
LineOK ==
  /\ mainPc \in {"join", "done"} => line = EOF
  /\ mainPc \in {"meet2", "meet3", "summary"} => line \in Users
  /\ mainPc \in {"meet1", "check"} => line \in 1 .. EOF
  /\ mainPc = "read" => line \in 0 .. NumUsers
  /\ \A w \in Workers : (pc[w] = "meet2" => line # EOF) /\ (pc[w] = "exit" => line = EOF)
  /\ mainPc \in {"read", "meet2", "meet3", "summary"} => User = line
  /\ Len(printed) = IF mainPc = "read" THEN line ELSE line - 1

\* The flag says no more than the record holds.
FlagOK ==
  /\ mainPc \in {"meet1", "check", "meet2"} => someinfo.found = 1 /\ someinfo.hash_count = 0
  /\ mainPc \in {"meet3", "summary"} => someinfo.found \in {0, 1}
  /\ mainPc \in {"meet3", "summary"} /\ someinfo.found = 0 =>
       Secret[User] # NoSecret /\ someinfo.password = Secret[User]
  /\ \A w \in Workers :
       /\ pc[w] = "found" => Secret[User] # NoSecret /\ someinfo.password = Secret[User]
       /\ pc[w] = "begin" => thread_status[w] = 2
       /\ Searching(w) /\ thread_status[w] = 1 => someinfo.found = 0
       /\ pc[w] \in {"meet1", "check", "meet2"} => thread_status[w] = 2

\* A worker stays in its subrange and counts each candidate it has left behind.
RangeOK == \A w \in Workers :
  /\ pc[w] \in {"look", "hash", "found"} => Lo(w) <= buffer[w]
  /\ pc[w] \in {"look", "hash"} => /\ num_hashes[w] = buffer[w] - Lo(w)
                                   /\ left[w] <= Hi(w) - buffer[w]
  /\ pc[w] = "hash" => left[w] > 0
  /\ mainPc = "meet3" /\ pc[w] # "begin" => num_hashes[w] <= Hi(w) - Lo(w)

\* The candidates that w counts, and those that have been added up.
Counted(w) == Lo(w) .. Lo(w) + num_hashes[w] - 1
Added == UNION {Counted(w) : w \in {v \in Workers : pc[v] = "meet3"}}

\* As far as an int shows it.
TallyOK == mainPc = "meet3" => someinfo.hash_count = int(Cardinality(Added))

CrackInv == Shape /\ InStep /\ LineOK /\ FlagOK /\ RangeOK /\ TallyOK

---------------------------------------------------------------------------
\* The loop counter of each worker fits an int (cracker2.c:168-178).
CountsFit == \A u \in Users, w \in Workers : count(w, Candidates[u]) < IntLimit

\* Then who leaves the loop without the flag has tried all of its subrange.
TriedOK == \A w \in Workers :
  /\ pc[w] \in {"look", "hash"} => /\ left[w] = Hi(w) - buffer[w]
                                   /\ \A c \in Lo(w) .. buffer[w] - 1 : c # Secret[User]
  /\ mainPc = "meet3" /\ pc[w] \in {"add", "meet3"} /\ someinfo.found # 0 =>
       /\ num_hashes[w] = Hi(w) - Lo(w)
       /\ \A c \in Lo(w) .. Hi(w) - 1 : c # Secret[User]

SummaryOK == mainPc = "summary" =>
  /\ someinfo.found = 0 <=> Secret[User] # NoSecret
  /\ someinfo.found # 0 => someinfo.hash_count = int(Candidates[User])

RightInv == CrackInv /\ TriedOK /\ SummaryOK /\ SummaryRight

---------------------------------------------------------------------------
(* Arithmetic.                                                             *)

LEMMA DivMonotonic ==
  ASSUME NEW a \in Nat, NEW b \in Nat, a <= b, NEW n \in Nat \ {0}
  PROVE  a \div n \in Nat /\ b \div n \in Nat /\ a \div n <= b \div n
<1>1. a \div n \in Nat /\ b \div n \in Nat
  OBVIOUS
<1>2. a \div n <= b \div n
  OBVIOUS
<1> QED BY <1>1, <1>2

LEMMA DivOfMultiple ==
  ASSUME NEW a \in Nat, NEW n \in Nat \ {0}
  PROVE  (a * n) \div n = a
OBVIOUS

\* The conversion to int never makes a count larger, and keeps one that fits.
LEMMA IntOf ==
  ASSUME NEW n \in Nat
  PROVE  int(n) \in Int /\ int(n) \in IntRange /\ int(n) <= n /\ (n < IntLimit => int(n) = n)
<1> DEFINE k == 2 * IntLimit
<1>1. IntLimit \in Nat \ {0} /\ k \in Nat \ {0}
  BY Cracker2Assumption
<1>2. (n + IntLimit) % k \in 0 .. k - 1
  BY <1>1
<1>3. (n + IntLimit) % k <= n + IntLimit
  BY <1>1
<1>4. n + IntLimit < k => (n + IntLimit) % k = n + IntLimit
  BY <1>1
<1> QED BY <1>1, <1>2, <1>3, <1>4 DEF int, IntRange

LEMMA Quotient ==
  ASSUME NEW a \in Nat, NEW k \in Nat \ {0}
  PROVE  \E q \in Nat, r \in 0 .. k - 1 : a = q * k + r
<1>1. PICK q : q = a \div k
  OBVIOUS
<1>2. q \in Nat /\ q * k <= a /\ a < q * k + k
  BY <1>1, SMTT(60)
<1>3. PICK r : r = a - q * k
  OBVIOUS
<1>4. r \in 0 .. k - 1 /\ a = q * k + r
  BY <1>2, <1>3
<1> QED BY <1>2, <1>4

LEMMA Remainder ==
  ASSUME NEW a \in Nat, NEW k \in Nat \ {0}, NEW q \in Nat, NEW r \in 0 .. k - 1, a = q * k + r
  PROVE  a % k = r
BY SMTT(60)

\* Sums that wrap on the way are right in the end, as an int.
LEMMA IntSum ==
  ASSUME NEW c \in Nat, NEW n \in Nat
  PROVE  int(int(c) + n) = int(c + n)
<1>1. PICK k \in Nat \ {0} : k = 2 * IntLimit
  BY Cracker2Assumption
<1>2. IntLimit \in Nat
  BY Cracker2Assumption
<1>3. PICK a \in Nat : a = c + IntLimit
  BY <1>2
<1>4. PICK q \in Nat, r \in 0 .. k - 1 : a = q * k + r
  BY Quotient
<1>5. a % k = r
  BY <1>4, Remainder
<1>6. PICK b \in Nat : b = r + n
  OBVIOUS
<1>7. PICK p \in Nat, t \in 0 .. k - 1 : b = p * k + t
  BY Quotient
<1>8. b % k = t
  BY <1>7, Remainder
<1>9. (a + n) % k = t
  <2>1. PICK z \in Nat, o \in Nat : z = a + n /\ o = q + p
    OBVIOUS
  <2>2. z = o * k + t
    BY <1>4, <1>6, <1>7, <2>1
  <2>3. z % k = t
    BY <2>2, Remainder
  <2> QED BY <2>1, <2>3
<1>10. int(c) = r - IntLimit
  BY <1>1, <1>3, <1>5 DEF int
<1>11. int(c) + n + IntLimit = b
  BY <1>2, <1>6, <1>10
<1>12. int(int(c) + n) = t - IntLimit
  BY <1>1, <1>8, <1>11 DEF int
<1>13. c + n + IntLimit = a + n
  BY <1>2, <1>3
<1>14. int(c + n) = t - IntLimit
  BY <1>1, <1>9, <1>13 DEF int
<1> QED BY <1>12, <1>14

LEMMA IntOfZero == int(0) = 0 /\ 0 \in IntRange
BY IntOf, Cracker2Assumption DEF IntRange

\* A non-empty set of numbers has a least one: the initial intervals they
\* bound are ordered by inclusion, which is well-founded on finite sets.
LEMMA LeastNumber ==
  ASSUME NEW T \in SUBSET Nat, T # {}
  PROVE  \E n \in T : \A m \in T : n <= m
<1> DEFINE U == {1 .. n : n \in T}
<1>1. IsWellFoundedOn(StrictSubsetOrdering(Nat), FiniteSubsetsOf(Nat))
  BY FS_StrictSubsetOrderingWellFounded
<1>2. U \subseteq FiniteSubsetsOf(Nat) /\ U # {}
  <2>1. \A n \in T : IsFiniteSet(1 .. n)
    <3>1. \A n \in T : n \in Int /\ 1 \in Int
      OBVIOUS
    <3> QED BY ONLY <3>1, FS_Interval
  <2>2. \A n \in T : 1 .. n \in SUBSET Nat
    OBVIOUS
  <2> QED BY <2>1, <2>2 DEF FiniteSubsetsOf
<1>3. PICK x \in U : \A y \in U : <<y, x>> \notin StrictSubsetOrdering(Nat)
  <2> HIDE DEF U
  <2> QED BY <1>1, <1>2, WFMin
<1>4. PICK n \in T : x = 1 .. n
  BY <1>3
<1>5. ASSUME NEW m \in T, m < n PROVE FALSE
  <2>1. 1 .. m \in SUBSET Nat /\ 1 .. n \in SUBSET Nat /\ 1 .. m \subseteq 1 .. n
    BY <1>5
  <2>2. n \in 1 .. n /\ n \notin 1 .. m
    BY <1>5
  <2>3. 1 .. m \in U
    OBVIOUS
  <2> QED BY <1>3, <1>4, <2>1, <2>2, <2>3 DEF StrictSubsetOrdering
<1> QED BY <1>5

---------------------------------------------------------------------------
(* getSubrange: the subranges follow each other from 0 to the last candidate. *)

LEMMA SubrangeBounds ==
  ASSUME NEW max \in Nat \ {0}, NEW w \in Workers
  PROVE  /\ start_index(w, max) \in Nat /\ end_index(w, max) \in Nat
         /\ start_index(w, max) <= end_index(w, max) /\ end_index(w, max) <= max
         /\ count(w, max) \in Nat /\ count(w, max) = end_index(w, max) - start_index(w, max)
<1>1. NumWorkers \in Nat \ {0} /\ w \in 1 .. NumWorkers
  BY Cracker2Assumption DEF Workers
<1>2. /\ max * (w - 1) \in Nat /\ max * w \in Nat /\ max * NumWorkers \in Nat
      /\ max * (w - 1) <= max * w /\ max * w <= max * NumWorkers
  BY <1>1
<1>3. (max * NumWorkers) \div NumWorkers = max
  BY <1>1, DivOfMultiple
<1>4. /\ (max * (w - 1)) \div NumWorkers \in Nat /\ (max * w) \div NumWorkers \in Nat
      /\ (max * (w - 1)) \div NumWorkers <= (max * w) \div NumWorkers
      /\ (max * w) \div NumWorkers <= (max * NumWorkers) \div NumWorkers
  BY ONLY <1>1, <1>2, DivMonotonic
<1> QED BY <1>3, <1>4 DEF start_index, end_index, count

LEMMA SubrangeOrder ==
  ASSUME NEW max \in Nat \ {0}, NEW w \in Workers, NEW v \in Workers, v > w
  PROVE  end_index(w, max) <= start_index(v, max)
<1>1. NumWorkers \in Nat \ {0} /\ w \in 1 .. NumWorkers /\ v \in 1 .. NumWorkers
  BY Cracker2Assumption DEF Workers
<1>2. max * w \in Nat /\ max * (v - 1) \in Nat /\ max * w <= max * (v - 1)
  BY <1>1
<1> QED BY <1>1, <1>2, DivMonotonic DEF start_index, end_index

LEMMA SubrangesCover ==
  ASSUME NEW max \in Nat \ {0}, NEW c \in 0 .. max - 1
  PROVE  \E w \in Workers : start_index(w, max) <= c /\ c < end_index(w, max)
<1> DEFINE T == {w \in Workers : c < end_index(w, max)}
<1>1. NumWorkers \in Nat \ {0} /\ Workers = 1 .. NumWorkers
  BY Cracker2Assumption DEF Workers
<1>2. NumWorkers \in T
  BY <1>1, DivOfMultiple DEF end_index
<1>3. PICK w \in T : \A v \in T : w <= v
  <2>1. T \in SUBSET Nat /\ T # {}
    BY <1>1, <1>2
  <2> HIDE DEF T
  <2> QED BY <2>1, LeastNumber
<1>4. start_index(w, max) <= c
  <2>1. CASE w = 1
    <3>1. max * (w - 1) = 0 * NumWorkers
      BY <1>1, <2>1
    <3> QED BY <1>1, <3>1, DivOfMultiple DEF start_index
  <2>2. CASE w # 1
    <3>1. w - 1 \in Workers /\ w - 1 \notin T
      BY <1>1, <1>3, <2>2
    <3>2. end_index(w - 1, max) <= c
      BY <3>1, SubrangeBounds
    <3> QED BY <3>2 DEF start_index, end_index
  <2> QED BY <2>1, <2>2
<1> QED BY <1>3, <1>4

---------------------------------------------------------------------------
\* While the workers search, the record holds a user of the file.
LEMMA UserAtHand ==
  ASSUME Shape, LineOK, mainPc \in {"meet2", "meet3", "summary"}
  PROVE  /\ User \in Users /\ User = line /\ User > 0 /\ Candidates[User] \in Nat \ {0}
         /\ Secret[User] \in 0 .. Candidates[User] - 1 \cup {NoSecret}
BY Cracker2Assumption DEF LineOK, Users, Shape, User

\* The subrange of each worker, and that they are disjoint.
LEMMA LoHi ==
  ASSUME Shape, LineOK, mainPc = "meet3", NEW w \in Workers
  PROVE  /\ Lo(w) \in Nat /\ Hi(w) \in Nat /\ Lo(w) <= Hi(w) /\ Hi(w) <= Candidates[User]
         /\ \A v \in Workers : v > w => Hi(w) <= Lo(v)
BY UserAtHand, SubrangeBounds, SubrangeOrder DEF Lo, Hi

\* The candidates added up change only with the counts of those at the third meeting.
LEMMA AddedUnchanged ==
  ASSUME someinfo'.user = someinfo.user,
         \A v \in Workers : /\ pc'[v] = "meet3" <=> pc[v] = "meet3"
                            /\ pc[v] = "meet3" => num_hashes'[v] = num_hashes[v]
  PROVE  Added' = Added
<1>1. Candidates[User'] = Candidates[User]
  BY DEF User
<1>2. \A v \in Workers : Lo(v)' = Lo(v)
  BY <1>1 DEF Lo
<1>3. \A v \in Workers : pc[v] = "meet3" => Counted(v)' = Counted(v)
  BY <1>2 DEF Counted
<1> QED BY <1>3 DEF Added

\* All that is counted is a candidate, so the sum is at most their number.
LEMMA AddedBound ==
  ASSUME Shape, LineOK, RangeOK, mainPc = "meet3"
  PROVE  /\ Added \subseteq 0 .. Candidates[User] - 1 /\ IsFiniteSet(0 .. Candidates[User] - 1)
         /\ Cardinality(0 .. Candidates[User] - 1) = Candidates[User]
         /\ IsFiniteSet(Added) /\ Cardinality(Added) \in Nat /\ Cardinality(Added) <= Candidates[User]
<1> DEFINE max == Candidates[User]
<1>1. max \in Nat \ {0}
  BY UserAtHand
<1>2. ASSUME NEW w \in Workers, pc[w] = "meet3" PROVE Counted(w) \subseteq 0 .. max - 1
  <2>1. num_hashes[w] \in Nat /\ num_hashes[w] <= Hi(w) - Lo(w)
    BY <1>2 DEF Shape, RangeOK
  <2>2. Lo(w) \in Nat /\ Hi(w) \in Nat /\ Hi(w) <= max
    BY LoHi
  <2> HIDE DEF max
  <2> QED BY ONLY <1>1, <2>1, <2>2 DEF Counted
<1>3. Added \subseteq 0 .. max - 1
  BY <1>2 DEF Added
<1>4. IsFiniteSet(0 .. max - 1) /\ Cardinality(0 .. max - 1) = max
  <2>1. 0 \in Int /\ max - 1 \in Int /\ ~(0 > max - 1) /\ max - 1 - 0 + 1 = max
    BY <1>1
  <2> HIDE DEF max
  <2> QED BY <2>1, FS_Interval
<1> QED BY <1>3, <1>4, FS_Subset, FS_CardinalityType

LEMMA CrackInit == Init => CrackInv
<1> SUFFICES ASSUME Init PROVE CrackInv
  OBVIOUS
<1>1. Shape
  BY Cracker2Assumption, IntOfZero, EmptySeq DEF Init, Shape, Info, EOF, Meeting
<1>2. InStep /\ RangeOK /\ TallyOK
  BY DEF Init, InStep, RangeOK, TallyOK, Meeting, User
<1>3. LineOK /\ FlagOK
  BY Cracker2Assumption DEF Init, LineOK, FlagOK, User, Searching
<1> QED BY <1>1, <1>2, <1>3 DEF CrackInv

LEMMA BarrierTripsCrack ==
  ASSUME CrackInv, BarrierTrips
  PROVE  CrackInv'
<1>1. Shape'
  BY Cracker2Assumption DEF CrackInv, Shape, Info, BarrierTrips, Past, MainPast, locals, Meeting
<1>2. InStep'
  <2>1. mainPc \in Meeting /\ (\A w \in Workers : pc[w] \in Meeting) /\ mainPc' = MainPast[mainPc]
        /\ \A w \in Workers : pc'[w] = Past[pc[w]]
    BY DEF BarrierTrips
  <2>2. CASE mainPc = "meet1"
    <3>1. \A w \in Workers : pc[w] = "meet1"
      BY <2>2 DEF CrackInv, InStep
    <3> QED BY <2>1, <2>2, <3>1 DEF InStep, Past, MainPast
  <2>3. CASE mainPc = "meet2"
    <3>1. \A w \in Workers : pc[w] = "meet2"
      BY <2>1, <2>3 DEF CrackInv, InStep, Meeting
    <3> QED BY <2>1, <2>3, <3>1 DEF InStep, Past, MainPast, Searching, Meeting
  <2>4. CASE mainPc = "meet3"
    <3>1. \A w \in Workers : pc[w] = "meet3"
      BY <2>1, <2>4 DEF CrackInv, InStep, Meeting, Searching
    <3> QED BY <2>1, <2>4, <3>1 DEF InStep, Past, MainPast
  <2> QED BY <2>1, <2>2, <2>3, <2>4 DEF Meeting
<1>3. LineOK'
  BY Cracker2Assumption DEF CrackInv, Shape, InStep, LineOK, BarrierTrips, Past, MainPast, locals, Meeting, Searching, User, EOF, Users, Info
<1>4. FlagOK'
  BY DEF CrackInv, Shape, InStep, LineOK, FlagOK, BarrierTrips, Past, MainPast, locals, Meeting, Searching, User, Info
<1>5. RangeOK'
  BY DEF CrackInv, Shape, InStep, RangeOK, BarrierTrips, Past, MainPast, locals, Meeting, Searching, User, Lo, Hi
<1>6. TallyOK'
  <2>1. CASE mainPc' = "meet3"
    <3>1. mainPc = "meet2" /\ (\A w \in Workers : pc[w] = "meet2") /\ someinfo' = someinfo
      BY <2>1 DEF BarrierTrips, MainPast, Meeting, CrackInv, InStep
    <3>2. \A w \in Workers : pc'[w] = "begin"
      BY <3>1 DEF BarrierTrips, Past
    <3>3. Added' = {}
      BY <3>2 DEF Added
    <3>4. someinfo.hash_count = 0
      BY <3>1 DEF CrackInv, FlagOK
    <3> QED BY <3>1, <3>3, <3>4, FS_EmptySet, IntOfZero DEF TallyOK
  <2>2. CASE mainPc' # "meet3"
    BY <2>2 DEF TallyOK
  <2> QED BY <2>1, <2>2
<1> QED BY <1>1, <1>2, <1>3, <1>4, <1>5, <1>6 DEF CrackInv

LEMMA ReadCrack ==
  ASSUME CrackInv, Read
  PROVE  CrackInv'
<1>1. Shape'
  <2>1. line' \in 0 .. EOF
    BY Cracker2Assumption DEF CrackInv, LineOK, Read, EOF
  <2>2. someinfo' \in Info
    BY IntOfZero DEF CrackInv, Shape, Info, Read
  <2> QED BY <2>1, <2>2 DEF CrackInv, Shape, Read, locals
<1>2. InStep'
  BY DEF CrackInv, Shape, InStep, Read, locals, Meeting, Searching
<1>3. LineOK'
  BY Cracker2Assumption DEF CrackInv, Shape, InStep, LineOK, Read, locals, Meeting, Searching, User, EOF, Users, Info
<1>4. FlagOK'
  BY DEF CrackInv, Shape, InStep, LineOK, FlagOK, Read, locals, Meeting, Searching, User, Info
<1>5. RangeOK'
  BY DEF CrackInv, Shape, InStep, RangeOK, Read, locals, Meeting, Searching, User, Lo, Hi
<1>6. TallyOK'
  BY DEF TallyOK, Read
<1> QED BY <1>1, <1>2, <1>3, <1>4, <1>5, <1>6 DEF CrackInv

LEMMA PublishCrack ==
  ASSUME CrackInv, Publish
  PROVE  CrackInv'
<1>1. Shape'
  <2>1. someinfo' \in Info
    <3>1. CASE line = EOF
      BY <3>1 DEF CrackInv, Shape, Publish
    <3>2. CASE line # EOF
      <4>1. line \in 0 .. NumUsers
        <5>1. line \in 0 .. EOF
          BY DEF CrackInv, Shape
        <5> QED BY ONLY <3>2, <5>1, Cracker2Assumption DEF EOF
      <4>2. someinfo \in Info /\ someinfo' = [someinfo EXCEPT !.user = line]
        BY <3>2 DEF CrackInv, Shape, Publish
      <4> QED BY ONLY <4>1, <4>2 DEF Info
    <3> QED BY <3>1, <3>2
  <2> QED BY <2>1 DEF CrackInv, Shape, Publish, locals
<1>2. InStep'
  <2>1. mainPc = "check" /\ pc' = pc /\ \A w \in Workers : pc[w] \in {"check", "meet2", "exit"}
    BY DEF Publish, CrackInv, InStep
  <2>2. CASE line = EOF
    <3>1. mainPc' = "join" /\ \A w \in Workers : pc[w] \in {"check", "exit"}
      BY <2>1, <2>2 DEF Publish, CrackInv, LineOK
    <3> QED BY <2>1, <3>1 DEF InStep
  <2>3. CASE line # EOF
    <3>1. mainPc' = "meet2" /\ \A w \in Workers : pc[w] \in {"check", "meet2"}
      BY <2>1, <2>3 DEF Publish, CrackInv, LineOK
    <3> QED BY <2>1, <3>1 DEF InStep, Meeting
  <2> QED BY <2>2, <2>3
<1>3. LineOK'
  BY Cracker2Assumption DEF CrackInv, Shape, InStep, LineOK, Publish, locals, Meeting, Searching, User, EOF, Users, Info
<1>4. FlagOK'
  BY DEF CrackInv, Shape, InStep, LineOK, FlagOK, Publish, locals, Meeting, Searching, User, Info
<1>5. RangeOK'
  BY DEF CrackInv, Shape, InStep, RangeOK, Publish, locals, Meeting, Searching, User, Lo, Hi
<1>6. TallyOK'
  BY DEF TallyOK, Publish
<1> QED BY <1>1, <1>2, <1>3, <1>4, <1>5, <1>6 DEF CrackInv

LEMMA SummaryCrack ==
  ASSUME CrackInv, Summary
  PROVE  CrackInv'
<1>1. Shape'
  BY Cracker2Assumption DEF CrackInv, Shape, Info, Summary, locals, Meeting
<1>2. InStep'
  BY DEF CrackInv, Shape, InStep, Summary, locals, Meeting, Searching
<1>3. LineOK'
  BY Cracker2Assumption DEF CrackInv, Shape, InStep, LineOK, Summary, locals, Meeting, Searching, User, EOF, Users, Info
<1>4. FlagOK'
  BY DEF CrackInv, Shape, InStep, LineOK, FlagOK, Summary, locals, Meeting, Searching, User, Info
<1>5. RangeOK'
  BY DEF CrackInv, Shape, InStep, RangeOK, Summary, locals, Meeting, Searching, User, Lo, Hi
<1>6. TallyOK'
  BY DEF CrackInv, Shape, InStep, TallyOK, Summary, locals, Meeting, Searching, User, Added, Counted, Lo
<1> QED BY <1>1, <1>2, <1>3, <1>4, <1>5, <1>6 DEF CrackInv

LEMMA JoinCrack ==
  ASSUME CrackInv, Join
  PROVE  CrackInv'
<1>1. Shape'
  BY Cracker2Assumption DEF CrackInv, Shape, Info, Join, locals, Meeting
<1>2. InStep'
  BY DEF CrackInv, Shape, InStep, Join, locals, Meeting, Searching
<1>3. LineOK'
  BY Cracker2Assumption DEF CrackInv, Shape, InStep, LineOK, Join, locals, Meeting, Searching, User, EOF, Users, Info
<1>4. FlagOK'
  BY DEF CrackInv, Shape, InStep, LineOK, FlagOK, Join, locals, Meeting, Searching, User, Info
<1>5. RangeOK'
  BY DEF CrackInv, Shape, InStep, RangeOK, Join, locals, Meeting, Searching, User, Lo, Hi
<1>6. TallyOK'
  BY DEF CrackInv, Shape, InStep, TallyOK, Join, locals, Meeting, Searching, User, Added, Counted, Lo
<1> QED BY <1>1, <1>2, <1>3, <1>4, <1>5, <1>6 DEF CrackInv

LEMMA CheckEofCrack ==
  ASSUME CrackInv, NEW w \in Workers, CheckEof(w)
  PROVE  CrackInv'
<1>1. Shape'
  BY Cracker2Assumption DEF CrackInv, Shape, Info, CheckEof, locals, Meeting
<1>2. InStep'
  <2>1. /\ mainPc' = mainPc /\ pc[w] = "check" /\ \A v \in Workers \ {w} : pc'[v] = pc[v]
        /\ pc'[w] = IF line = EOF THEN "exit" ELSE "meet2"
    BY DEF CheckEof, CrackInv, Shape
  <2>2. mainPc \in {"check", "meet2", "join", "done"}
    BY <2>1 DEF CrackInv, InStep, Meeting, Searching
  <2>3. mainPc = "meet2" => line # EOF
    BY Cracker2Assumption DEF CrackInv, LineOK, EOF, Users
  <2>4. mainPc \in {"join", "done"} => line = EOF
    BY DEF CrackInv, LineOK
  <2> QED BY <2>1, <2>2, <2>3, <2>4 DEF CrackInv, InStep
<1>3. LineOK'
  BY Cracker2Assumption DEF CrackInv, Shape, InStep, LineOK, CheckEof, locals, Meeting, Searching, User, EOF, Users, Info
<1>4. FlagOK'
  BY DEF CrackInv, Shape, InStep, LineOK, FlagOK, CheckEof, locals, Meeting, Searching, User, Info
<1>5. RangeOK'
  BY DEF CrackInv, Shape, InStep, RangeOK, CheckEof, locals, Meeting, Searching, User, Lo, Hi
<1>6. TallyOK'
  BY DEF CrackInv, Shape, InStep, TallyOK, CheckEof, locals, Meeting, Searching, User, Added, Counted, Lo
<1> QED BY <1>1, <1>2, <1>3, <1>4, <1>5, <1>6 DEF CrackInv

LEMMA BeginCrack ==
  ASSUME CrackInv, NEW w \in Workers, Begin(w)
  PROVE  CrackInv'
<1>1. Shape'
  <2>1. mainPc = "meet3"
    BY DEF CrackInv, InStep, Meeting, Searching, Begin
  <2>2. Candidates[User] \in Nat \ {0}
    BY <2>1, UserAtHand DEF CrackInv
  <2>3. start_index(w, Candidates[User]) \in Nat /\ int(count(w, Candidates[User])) \in Int
    BY <2>2, SubrangeBounds, IntOf
  <2>4. buffer' \in [Workers -> Nat] /\ left' \in [Workers -> Int] /\ num_hashes' \in [Workers -> Nat]
    BY <2>3 DEF CrackInv, Shape, Begin, User
  <2>5. pc' \in [Workers -> Meeting \cup {"check", "begin", "look", "hash", "found", "add", "exit"}]
    BY DEF CrackInv, Shape, Begin
  <2> QED BY <2>4, <2>5 DEF CrackInv, Shape, Begin
<1>2. InStep'
  BY DEF CrackInv, Shape, InStep, Begin, locals, Meeting, Searching
<1>3. LineOK'
  BY Cracker2Assumption DEF CrackInv, Shape, InStep, LineOK, Begin, locals, Meeting, Searching, User, EOF, Users, Info
<1>4. FlagOK'
  BY DEF CrackInv, Shape, InStep, LineOK, FlagOK, Begin, locals, Meeting, Searching, User, Info
<1>5. RangeOK'
  <2>1. mainPc = "meet3"
    BY DEF CrackInv, InStep, Meeting, Searching, Begin
  <2>2. Candidates[User] \in Nat \ {0} /\ Lo(w) \in Nat /\ Hi(w) \in Nat /\ Lo(w) <= Hi(w)
    BY <2>1, UserAtHand, LoHi DEF CrackInv
  <2>3. int(count(w, Candidates[User])) <= Hi(w) - Lo(w)
    BY <2>2, SubrangeBounds, IntOf DEF Lo, Hi
  <2>4. /\ pc'[w] = "look" /\ buffer'[w] = Lo(w) /\ num_hashes'[w] = 0
        /\ left'[w] = int(count(w, Candidates[User]))
        /\ \A v \in Workers \ {w} : /\ pc'[v] = pc[v] /\ buffer'[v] = buffer[v]
                                    /\ left'[v] = left[v] /\ num_hashes'[v] = num_hashes[v]
        /\ User' = User /\ mainPc' = mainPc
    BY DEF Begin, CrackInv, Shape, Lo, User
  <2>5. \A v \in Workers : Lo(v)' = Lo(v) /\ Hi(v)' = Hi(v)
    BY <2>4 DEF Lo, Hi
  <2> QED BY <2>2, <2>3, <2>4, <2>5 DEF CrackInv, RangeOK
<1>6. TallyOK'
  BY DEF CrackInv, Shape, InStep, TallyOK, Begin, locals, Meeting, Searching, User, Added, Counted, Lo
<1> QED BY <1>1, <1>2, <1>3, <1>4, <1>5, <1>6 DEF CrackInv

LEMMA LookCrack ==
  ASSUME CrackInv, NEW w \in Workers, Look(w)
  PROVE  CrackInv'
<1>1. Shape'
  <2>1. \E l \in {"add", "hash"} : pc' = [pc EXCEPT ![w] = l]
    BY DEF Look
  <2>2. pc' \in [Workers -> Meeting \cup {"check", "begin", "look", "hash", "found", "add", "exit"}]
    BY <2>1 DEF CrackInv, Shape
  <2>3. thread_status' \in [Workers -> 0 .. 2]
    BY DEF CrackInv, Shape, Look
  <2> QED BY <2>2, <2>3 DEF CrackInv, Shape, Look
<1>2. InStep'
  BY DEF CrackInv, Shape, InStep, Look, locals, Meeting, Searching
<1>3. LineOK'
  BY Cracker2Assumption DEF CrackInv, Shape, InStep, LineOK, Look, locals, Meeting, Searching, User, EOF, Users, Info
<1>4. FlagOK'
  BY DEF CrackInv, Shape, InStep, LineOK, FlagOK, Look, locals, Meeting, Searching, User, Info
<1>5. RangeOK'
  BY DEF CrackInv, Shape, InStep, RangeOK, Look, locals, Meeting, Searching, User, Lo, Hi
<1>6. TallyOK'
  <2>1. /\ pc[w] # "meet3" /\ pc'[w] # "meet3" /\ mainPc' = mainPc
        /\ \A v \in Workers \ {w} : pc'[v] = pc[v] /\ num_hashes'[v] = num_hashes[v]
        /\ someinfo'.user = someinfo.user /\ someinfo'.hash_count = someinfo.hash_count
    BY DEF Look, CrackInv, Shape, Info
  <2>2. Added' = Added
    BY <2>1, AddedUnchanged
  <2> QED BY <2>1, <2>2 DEF CrackInv, TallyOK, User
<1> QED BY <1>1, <1>2, <1>3, <1>4, <1>5, <1>6 DEF CrackInv

LEMMA HashCrack ==
  ASSUME CrackInv, NEW w \in Workers, Hash(w)
  PROVE  CrackInv'
<1>1. Shape'
  <2>1. \E l \in {"found", "look"} : pc' = [pc EXCEPT ![w] = l]
    BY DEF Hash
  <2>2. pc' \in [Workers -> Meeting \cup {"check", "begin", "look", "hash", "found", "add", "exit"}]
    BY <2>1 DEF CrackInv, Shape
  <2>3. buffer' \in [Workers -> Nat] /\ left' \in [Workers -> Int] /\ num_hashes' \in [Workers -> Nat]
    <3>1. /\ buffer' = buffer \/ buffer' = [buffer EXCEPT ![w] = buffer[w] + 1]
          /\ left' = left \/ left' = [left EXCEPT ![w] = left[w] - 1]
          /\ num_hashes' = [num_hashes EXCEPT ![w] = num_hashes[w] + 1]
      BY DEF Hash
    <3> QED BY <3>1 DEF CrackInv, Shape
  <2>4. someinfo' \in Info
    BY DEF CrackInv, Shape, Info, Hash
  <2> QED BY <2>2, <2>3, <2>4 DEF CrackInv, Shape, Hash
<1>2. InStep'
  BY DEF CrackInv, Shape, InStep, Hash, Matches, locals, Meeting, Searching
<1>3. LineOK'
  BY Cracker2Assumption DEF CrackInv, Shape, InStep, LineOK, Hash, Matches, locals, Meeting, Searching, User, EOF, Users, Info
<1>4. FlagOK'
  <2>1. mainPc = "meet3"
    BY DEF CrackInv, InStep, Meeting, Searching, Hash
  <2>2. /\ \A v \in Workers \ {w} : pc'[v] = pc[v]
        /\ pc'[w] = IF Matches(w) THEN "found" ELSE "look"
        /\ mainPc' = mainPc /\ thread_status' = thread_status
        /\ someinfo'.user = someinfo.user /\ someinfo'.found = someinfo.found
        /\ someinfo'.password = IF Matches(w) THEN Secret[User] ELSE someinfo.password
    BY DEF Hash, Matches, CrackInv, Shape, Info, User
  <2>3. Matches(w) => Secret[User] # NoSecret
    BY Cracker2Assumption DEF Matches, CrackInv, Shape, User
  <2>4. Searching(w) /\ pc[w] = "hash"
    BY DEF Hash, Searching
  <2> QED BY <2>1, <2>2, <2>3, <2>4 DEF CrackInv, FlagOK, User, Searching
<1>5. RangeOK'
  <2>1. mainPc = "meet3"
    BY DEF CrackInv, InStep, Meeting, Searching, Hash
  <2>2. /\ \A v \in Workers \ {w} : /\ pc'[v] = pc[v] /\ buffer'[v] = buffer[v]
                                    /\ left'[v] = left[v] /\ num_hashes'[v] = num_hashes[v]
        /\ num_hashes'[w] = num_hashes[w] + 1 /\ pc[w] = "hash"
        /\ \/ pc'[w] = "found" /\ buffer'[w] = buffer[w]
           \/ pc'[w] = "look" /\ buffer'[w] = buffer[w] + 1 /\ left'[w] = left[w] - 1
        /\ User' = User /\ mainPc' = mainPc
    BY DEF Hash, CrackInv, Shape, Info, User
  <2>3. \A v \in Workers : Lo(v)' = Lo(v) /\ Hi(v)' = Hi(v)
    BY <2>2 DEF Lo, Hi
  <2>4. /\ Lo(w) \in Nat /\ Hi(w) \in Nat /\ buffer[w] \in Nat /\ left[w] \in Int /\ num_hashes[w] \in Nat
        /\ Lo(w) <= buffer[w] /\ num_hashes[w] = buffer[w] - Lo(w)
        /\ left[w] <= Hi(w) - buffer[w] /\ left[w] > 0
    BY <2>1, <2>2, LoHi DEF CrackInv, Shape, RangeOK
  <2>5. /\ Lo(w) <= buffer'[w] /\ num_hashes'[w] <= Hi(w) - Lo(w)
        /\ pc'[w] = "look" => num_hashes'[w] = buffer'[w] - Lo(w) /\ left'[w] <= Hi(w) - buffer'[w]
    BY ONLY <2>2, <2>4
  <2> QED BY <2>2, <2>3, <2>5 DEF CrackInv, RangeOK
<1>6. TallyOK'
  <2>1. /\ pc[w] # "meet3" /\ pc'[w] # "meet3" /\ mainPc' = mainPc
        /\ \A v \in Workers \ {w} : pc'[v] = pc[v] /\ num_hashes'[v] = num_hashes[v]
        /\ someinfo'.user = someinfo.user /\ someinfo'.hash_count = someinfo.hash_count
    BY DEF Hash, CrackInv, Shape, Info
  <2>2. Added' = Added
    BY <2>1, AddedUnchanged
  <2> QED BY <2>1, <2>2 DEF CrackInv, TallyOK, User
<1> QED BY <1>1, <1>2, <1>3, <1>4, <1>5, <1>6 DEF CrackInv

LEMMA FoundCrack ==
  ASSUME CrackInv, NEW w \in Workers, Found(w)
  PROVE  CrackInv'
<1>1. Shape'
  <2>1. pc' \in [Workers -> Meeting \cup {"check", "begin", "look", "hash", "found", "add", "exit"}]
    BY DEF CrackInv, Shape, Found
  <2>2. someinfo' \in Info
    BY DEF CrackInv, Shape, Info, Found
  <2>3. thread_status' \in [Workers -> 0 .. 2]
    BY DEF CrackInv, Shape, Found
  <2> QED BY <2>1, <2>2, <2>3 DEF CrackInv, Shape, Found
<1>2. InStep'
  BY DEF CrackInv, Shape, InStep, Found, locals, Meeting, Searching
<1>3. LineOK'
  BY Cracker2Assumption DEF CrackInv, Shape, InStep, LineOK, Found, locals, Meeting, Searching, User, EOF, Users, Info
<1>4. FlagOK'
  BY DEF CrackInv, Shape, InStep, LineOK, FlagOK, Found, locals, Meeting, Searching, User, Info
<1>5. RangeOK'
  BY DEF CrackInv, Shape, InStep, RangeOK, Found, locals, Meeting, Searching, User, Lo, Hi
<1>6. TallyOK'
  <2>1. /\ pc[w] # "meet3" /\ pc'[w] # "meet3" /\ mainPc' = mainPc
        /\ \A v \in Workers \ {w} : pc'[v] = pc[v] /\ num_hashes'[v] = num_hashes[v]
        /\ someinfo'.user = someinfo.user /\ someinfo'.hash_count = someinfo.hash_count
    BY DEF Found, CrackInv, Shape, Info
  <2>2. Added' = Added
    BY <2>1, AddedUnchanged
  <2> QED BY <2>1, <2>2 DEF CrackInv, TallyOK, User
<1> QED BY <1>1, <1>2, <1>3, <1>4, <1>5, <1>6 DEF CrackInv

LEMMA AddCrack ==
  ASSUME CrackInv, NEW w \in Workers, Add(w)
  PROVE  CrackInv'
<1>1. Shape'
  <2>1. pc' \in [Workers -> Meeting \cup {"check", "begin", "look", "hash", "found", "add", "exit"}]
    BY DEF CrackInv, Shape, Add, Meeting
  <2>2. someinfo' \in Info
    <3>1. PICK sum : sum = int(someinfo.hash_count + num_hashes[w])
      OBVIOUS
    <3>2. mainPc = "meet3"
      BY DEF CrackInv, InStep, Meeting, Searching, Add
    <3>3. PICK added : added = Cardinality(Added)
      OBVIOUS
    <3>4. added \in Nat /\ num_hashes[w] \in Nat /\ someinfo.hash_count = int(added)
      BY <3>2, <3>3, AddedBound DEF CrackInv, Shape, TallyOK
    <3>5. sum = int(added + num_hashes[w]) /\ added + num_hashes[w] \in Nat
      BY <3>1, <3>4, IntSum
    <3>6. sum \in IntRange
      BY <3>5, IntOf
    <3>7. someinfo' = [someinfo EXCEPT !.hash_count = sum] /\ someinfo \in Info
      BY <3>1 DEF Add, CrackInv, Shape
    <3> QED BY ONLY <3>6, <3>7 DEF Info
  <2> QED BY <2>1, <2>2 DEF CrackInv, Shape, Add, locals
<1>2. InStep'
  BY DEF CrackInv, Shape, InStep, Add, locals, Meeting, Searching
<1>3. LineOK'
  BY Cracker2Assumption DEF CrackInv, Shape, InStep, LineOK, Add, locals, Meeting, Searching, User, EOF, Users, Info
<1>4. FlagOK'
  BY DEF CrackInv, Shape, InStep, LineOK, FlagOK, Add, locals, Meeting, Searching, User, Info
<1>5. RangeOK'
  BY DEF CrackInv, Shape, InStep, RangeOK, Add, locals, Meeting, Searching, User, Lo, Hi
<1>6. TallyOK'
  <2>1. mainPc = "meet3"
    BY DEF CrackInv, InStep, Meeting, Searching, Add
  <2>2. /\ pc[w] = "add" /\ pc'[w] = "meet3" /\ mainPc' = mainPc
        /\ \A v \in Workers \ {w} : pc'[v] = pc[v]
        /\ someinfo'.user = someinfo.user /\ num_hashes' = num_hashes
        /\ someinfo'.hash_count = int(someinfo.hash_count + num_hashes[w])
    BY DEF Add, CrackInv, Shape, Info, Meeting, locals
  <2>3. Added' = Added \cup Counted(w)
    <3>1. \A v \in Workers : Counted(v)' = Counted(v)
      BY <2>2 DEF Counted, Lo, User
    <3> QED BY <2>2, <3>1 DEF Added
  <2>4. Added \cap Counted(w) = {}
    <3>1. ASSUME NEW v \in Workers, pc[v] = "meet3" PROVE Counted(v) \cap Counted(w) = {}
      <4>1. v # w /\ (v > w \/ w > v)
        BY <2>2, <3>1 DEF Workers
      <4>2. /\ num_hashes[v] \in Nat /\ num_hashes[v] <= Hi(v) - Lo(v)
            /\ num_hashes[w] \in Nat /\ num_hashes[w] <= Hi(w) - Lo(w)
        BY <2>1, <2>2, <3>1 DEF CrackInv, Shape, RangeOK
      <4>3. /\ Lo(v) \in Nat /\ Hi(v) \in Nat /\ Lo(w) \in Nat /\ Hi(w) \in Nat
            /\ Hi(v) <= Lo(w) \/ Hi(w) <= Lo(v)
        BY <2>1, <4>1, LoHi DEF CrackInv
      <4> QED BY ONLY <4>2, <4>3 DEF Counted
    <3> QED BY <3>1 DEF Added
  <2>5. IsFiniteSet(Counted(w)) /\ Cardinality(Counted(w)) = num_hashes[w]
    <3>1. num_hashes[w] \in Nat /\ Lo(w) \in Nat
      BY <2>1, LoHi DEF CrackInv, Shape
    <3> DEFINE a == Lo(w)
               b == Lo(w) + num_hashes[w] - 1
    <3>2. a \in Int /\ b \in Int /\ Counted(w) = a .. b /\ num_hashes[w] = b - a + 1 /\ num_hashes[w] \in Nat
      BY <3>1 DEF Counted
    <3> HIDE DEF a, b
    <3>3. IsFiniteSet(a .. b) /\ Cardinality(a .. b) = IF a > b THEN 0 ELSE b - a + 1
      BY ONLY <3>2, FS_Interval
    <3> QED BY ONLY <3>2, <3>3
  <2>6. IsFiniteSet(Added) /\ int(Cardinality(Added)) = someinfo.hash_count /\ Cardinality(Added) \in Nat
    BY <2>1, AddedBound DEF CrackInv, TallyOK
  <2>7. Cardinality(Added \cup Counted(w)) = Cardinality(Added) + num_hashes[w]
    <3>1. Cardinality(Added \cap Counted(w)) = 0
      BY <2>4, FS_EmptySet
    <3>2. Cardinality(Added \cup Counted(w))
            = Cardinality(Added) + Cardinality(Counted(w)) - Cardinality(Added \cap Counted(w))
      BY <2>5, <2>6, FS_Union
    <3>3. num_hashes[w] \in Nat
      BY DEF CrackInv, Shape
    <3> QED BY ONLY <2>5, <2>6, <3>1, <3>2, <3>3
  <2>8. someinfo'.hash_count = int(Cardinality(Added'))
    <3>1. num_hashes[w] \in Nat
      BY DEF CrackInv, Shape
    <3>2. PICK added : added = Cardinality(Added)
      OBVIOUS
    <3>3. someinfo'.hash_count = int(added + num_hashes[w])
      BY <2>2, <2>6, <3>1, <3>2, IntSum
    <3>4. Cardinality(Added') = added + num_hashes[w]
      BY <2>3, <2>7, <3>2
    <3> QED BY <3>3, <3>4
  <2> QED BY <2>8 DEF TallyOK
<1> QED BY <1>1, <1>2, <1>3, <1>4, <1>5, <1>6 DEF CrackInv

LEMMA CrackNext == CrackInv /\ [Next]_vars => CrackInv'
<1> SUFFICES ASSUME CrackInv, [Next]_vars PROVE CrackInv'
  OBVIOUS
<1>1. CASE BarrierTrips
  BY <1>1, BarrierTripsCrack
<1>2. CASE Main
  BY <1>2, ReadCrack, PublishCrack, SummaryCrack, JoinCrack DEF Main
<1>3. ASSUME NEW w \in Workers, Worker(w) PROVE CrackInv'
  BY <1>3, CheckEofCrack, BeginCrack, LookCrack, HashCrack, FoundCrack, AddCrack DEF Worker
<1>4. CASE UNCHANGED vars
  <2>1. UNCHANGED <<mainPc, line, someinfo, pc, buffer, left, num_hashes, thread_status, printed>>
    BY <1>4 DEF vars, locals
  <2>2. Shape' /\ InStep' /\ LineOK' /\ FlagOK'
    BY <2>1 DEF CrackInv, Shape, InStep, LineOK, FlagOK, Searching, User
  <2>3. RangeOK' /\ TallyOK'
    BY <2>1 DEF CrackInv, RangeOK, TallyOK, User, Lo, Hi, Added, Counted
  <2> QED BY <2>2, <2>3 DEF CrackInv
<1> QED BY <1>1, <1>2, <1>3, <1>4 DEF Next, Terminated

LEMMA CrackInvariant == SafeSpec => []CrackInv
BY CrackInit, CrackNext, PTL DEF SafeSpec

LEMMA CrackSuffices == CrackInv => Consistent
<1> SUFFICES ASSUME CrackInv PROVE Consistent
  OBVIOUS
<1>1. TypeOK
  <2>1. /\ User \in 0 .. NumUsers /\ someinfo.found \in {-1, 0, 1}
        /\ someinfo.password \in Nat \cup {NoSecret} /\ someinfo.hash_count \in -IntLimit .. IntLimit - 1
    BY DEF CrackInv, Shape, Info, IntRange, User
  <2> QED BY <2>1 DEF CrackInv, Shape, InStep, TypeOK, User
<1>2. \A w \in Workers : Searching(w) => mainPc = "meet3"
  BY DEF CrackInv, InStep, Searching, Meeting
<1>3. OneUserAtATime
  BY <1>2 DEF CrackInv, LineOK, OneUserAtATime, User
<1>4. OwnSubrange
  <2> SUFFICES ASSUME NEW w \in Workers, pc[w] = "hash"
               PROVE  /\ Lo(w) <= buffer[w] /\ buffer[w] < Candidates[User]
                      /\ \A v \in Workers : v > w => buffer[w] < Lo(v)
    BY DEF OwnSubrange, Lo, User
  <2>1. mainPc = "meet3"
    BY <1>2 DEF Searching
  <2>2. /\ Lo(w) \in Nat /\ Hi(w) \in Nat /\ Hi(w) <= Candidates[User] /\ Candidates[User] \in Nat
        /\ \A v \in Workers : v > w => Hi(w) <= Lo(v)
    BY <2>1, LoHi, UserAtHand DEF CrackInv
  <2>3. /\ buffer[w] \in Nat /\ left[w] \in Int /\ Lo(w) <= buffer[w]
        /\ left[w] > 0 /\ left[w] <= Hi(w) - buffer[w]
    BY DEF CrackInv, Shape, RangeOK
  <2>4. buffer[w] < Hi(w)
    BY ONLY <2>2, <2>3
  <2>5. \A v \in Workers : Lo(v) \in Nat
    BY <2>1, LoHi DEF CrackInv
  <2> QED BY ONLY <2>2, <2>3, <2>4, <2>5
<1>5. CancelledForAReason
  BY <1>2 DEF CrackInv, FlagOK, CancelledForAReason, User, Searching
<1> QED BY <1>1, <1>3, <1>4, <1>5 DEF Consistent

\* Whatever the number of workers, users and unknown letters, and also when a
\* count overflows the int of the loop (cracker2.c:178): one user at a time, no
\* candidate is tried by two workers, no more hashes are counted than there are
\* candidates, and none breaks off without a reason (cracker2.c:86-107, 158-223).
THEOREM CrackersConsistent == SafeSpec => []Consistent
BY CrackInvariant, CrackSuffices, PTL

---------------------------------------------------------------------------
\* What each user is told, when the counts fit.
LEMMA RightInit == Init => RightInv
<1> SUFFICES ASSUME Init PROVE RightInv
  OBVIOUS
<1>1. TriedOK /\ SummaryOK /\ SummaryRight
  BY DEF Init, TriedOK, SummaryOK, SummaryRight
<1> QED BY <1>1, CrackInit DEF RightInv

\* Outside the search nothing is claimed of a worker.
LEMMA TriedOutside ==
  ASSUME CrackInv, mainPc # "meet3"
  PROVE  TriedOK
<1>1. \A w \in Workers : pc[w] \notin {"look", "hash"}
  BY DEF CrackInv, InStep, Meeting
<1> QED BY <1>1 DEF TriedOK

LEMMA TripRight ==
  ASSUME RightInv, BarrierTrips
  PROVE  TriedOK' /\ SummaryOK' /\ SummaryRight'
<1>1. CrackInv /\ CrackInv' /\ TriedOK
  BY BarrierTripsCrack DEF RightInv
<1>2. SummaryRight'
  BY DEF RightInv, BarrierTrips, SummaryRight
<1>3. /\ mainPc \in Meeting /\ \A w \in Workers : pc'[w] = Past[pc[w]] /\ pc[w] \in Meeting
      /\ mainPc' = MainPast[mainPc] /\ UNCHANGED <<someinfo, num_hashes>>
  BY DEF BarrierTrips, locals
<1>4. TriedOK'
  <2>1. \A w \in Workers : pc'[w] \notin {"look", "hash", "add", "meet3"}
    BY <1>3 DEF Meeting, Past
  <2> QED BY <2>1 DEF TriedOK
<1>5. ASSUME mainPc' = "summary" PROVE SummaryOK'
  <2>1. mainPc = "meet3"
    BY <1>3, <1>5 DEF MainPast, Meeting
  <2>2. \A w \in Workers : pc[w] = "meet3"
    BY <1>1, <1>3, <2>1 DEF CrackInv, InStep, Searching, Meeting
  <2>3. /\ Candidates[User] \in Nat \ {0}
        /\ Secret[User] \in 0 .. Candidates[User] - 1 \cup {NoSecret}
    BY <1>1, <2>1, UserAtHand DEF CrackInv
  <2>4. someinfo.found = 0 => Secret[User] # NoSecret
    BY <1>1, <2>1 DEF CrackInv, FlagOK
  <2>5. \A c \in 0 .. Candidates[User] - 1 : \E w \in Workers : Lo(w) <= c /\ c < Hi(w)
    BY <2>3, SubrangesCover DEF Lo, Hi
  <2>6. ASSUME someinfo.found # 0 PROVE Secret[User] = NoSecret /\ someinfo.hash_count = int(Candidates[User])
    <3>1. \A w \in Workers : /\ num_hashes[w] = Hi(w) - Lo(w)
                             /\ \A c \in Lo(w) .. Hi(w) - 1 : c # Secret[User]
      BY <1>1, <2>1, <2>2, <2>6 DEF TriedOK
    <3>2. \A w \in Workers : Lo(w) \in Nat /\ Hi(w) \in Nat
      BY <1>1, <2>1, LoHi DEF CrackInv
    <3>3. ASSUME NEW c \in 0 .. Candidates[User] - 1
          PROVE  \E w \in Workers : c \in Counted(w) /\ c \in Lo(w) .. Hi(w) - 1
      <4>1. PICK w \in Workers : Lo(w) <= c /\ c < Hi(w)
        BY <2>5
      <4>2. c \in Int /\ Lo(w) \in Nat /\ Hi(w) \in Nat /\ num_hashes[w] = Hi(w) - Lo(w)
        BY <2>3, <3>1, <3>2
      <4> QED BY ONLY <4>1, <4>2, w \in Workers DEF Counted
    <3>4. Secret[User] = NoSecret
      BY <2>3, <3>1, <3>3
    <3>5. 0 .. Candidates[User] - 1 \subseteq Added
      BY <2>2, <3>3 DEF Added
    <3>6. /\ Added \subseteq 0 .. Candidates[User] - 1
          /\ Cardinality(0 .. Candidates[User] - 1) = Candidates[User]
      BY <1>1, <2>1, AddedBound DEF CrackInv
    <3>7. Added = 0 .. Candidates[User] - 1
      BY ONLY <3>5, <3>6
    <3>8. someinfo.hash_count = int(Cardinality(Added))
      BY <1>1, <2>1 DEF CrackInv, TallyOK
    <3> QED BY ONLY <3>4, <3>6, <3>7, <3>8
  <2> QED BY <1>3, <2>4, <2>6 DEF SummaryOK, User
<1> QED BY <1>2, <1>4, <1>5 DEF SummaryOK

LEMMA MainRight ==
  ASSUME RightInv, Main
  PROVE  TriedOK' /\ SummaryOK' /\ SummaryRight'
<1>1. CrackInv /\ CrackInv'
  BY CrackNext DEF RightInv, Next
<1>2. mainPc' \in {"meet1", "meet2", "join", "read", "done"}
  BY DEF Main, Read, Publish, Summary, Join
<1>3. SummaryOK'
  BY <1>2 DEF SummaryOK
<1>4. TriedOK'
  <2>1. \A w \in Workers : pc'[w] \notin {"look", "hash"}
    BY <1>1, <1>2 DEF CrackInv, InStep, Meeting
  <2> QED BY <1>2, <2>1 DEF TriedOK
<1>5. SummaryRight'
  <2>1. CASE Summary
    <3>1. /\ printed \in Seq(Info) /\ someinfo \in Info /\ printed' = Append(printed, someinfo)
          /\ mainPc = "summary" /\ line \in Users
      BY <1>1, <2>1 DEF CrackInv, Shape, Summary, LineOK
    <3>2. Len(printed) = line - 1 /\ User = line
      BY <1>1, <3>1 DEF CrackInv, LineOK
    <3>3. /\ DOMAIN printed' = 1 .. Len(printed) + 1
          /\ printed'[Len(printed) + 1] = someinfo
          /\ \A u \in 1 .. Len(printed) : printed'[u] = printed[u]
      BY ONLY <3>1
    <3>4. \A u \in 1 .. Len(printed) + 1 : u \in 1 .. Len(printed) \/ u = line
      BY ONLY <3>1, <3>2, Cracker2Assumption DEF Users
    <3>5. printed'[line] = someinfo
      BY ONLY <3>1, <3>2, <3>3, Cracker2Assumption DEF Users
    <3>6. /\ someinfo.user = line /\ (someinfo.found = 0 <=> Secret[line] # NoSecret)
          /\ someinfo.found = 0 => someinfo.password = Secret[line]
          /\ someinfo.found # 0 => someinfo.hash_count = int(Candidates[line])
      BY <1>1, <3>1, <3>2 DEF RightInv, SummaryOK, CrackInv, FlagOK, User
    <3>7. \A u \in 1 .. Len(printed) : u \in DOMAIN printed
      BY <3>1
    <3> QED BY <3>3, <3>4, <3>5, <3>6, <3>7 DEF RightInv, SummaryRight
  <2>2. CASE ~Summary
    <3>1. printed' = printed
      BY <2>2 DEF Main, Read, Publish, Join
    <3> QED BY <3>1 DEF RightInv, SummaryRight
  <2> QED BY <2>1, <2>2
<1> QED BY <1>3, <1>4, <1>5

\* Where the workers are searching.
LEMMA WorkerRight ==
  ASSUME CountsFit, RightInv, NEW w \in Workers, Worker(w)
  PROVE  TriedOK' /\ SummaryOK' /\ SummaryRight'
<1>1. CrackInv /\ CrackInv' /\ TriedOK /\ SummaryRight
  BY CrackNext DEF RightInv, Next
<1>2. printed' = printed /\ mainPc' = mainPc /\ User' = User
  BY <1>1 DEF Worker, CheckEof, Begin, Look, Hash, Found, Add, locals, CrackInv, Shape, Info, User
<1>3. pc[w] # "meet1"
  BY DEF Worker, CheckEof, Begin, Look, Hash, Found, Add
<1>4. SummaryOK' /\ SummaryRight'
  BY <1>1, <1>2, <1>3 DEF SummaryOK, SummaryRight, CrackInv, InStep
<1>5. \A v \in Workers : Lo(v)' = Lo(v) /\ Hi(v)' = Hi(v)
  BY <1>2 DEF Lo, Hi
<1>6. \A v \in Workers \ {w} : /\ pc'[v] = pc[v] /\ buffer'[v] = buffer[v]
                               /\ left'[v] = left[v] /\ num_hashes'[v] = num_hashes[v]
  <2>1. CASE CheckEof(w) \/ Look(w) \/ Found(w) \/ Add(w)
    BY <1>1, <2>1 DEF CheckEof, Look, Found, Add, locals, CrackInv, Shape
  <2>2. CASE Begin(w)
    BY <1>1, <2>2 DEF Begin, CrackInv, Shape
  <2>3. CASE Hash(w)
    BY <1>1, <2>3 DEF Hash, CrackInv, Shape
  <2> QED BY <2>1, <2>2, <2>3 DEF Worker
<1>7. CASE mainPc # "meet3"
  <2>1. \A v \in Workers : pc'[v] \notin {"look", "hash"}
    BY <1>1, <1>2, <1>7 DEF CrackInv, InStep, Meeting
  <2>2. TriedOK'
    BY <1>2, <1>7, <2>1 DEF TriedOK
  <2> QED BY <1>4, <2>2
<1>8. CASE mainPc = "meet3"
  <2>1. /\ User \in Users /\ Candidates[User] \in Nat \ {0} /\ Lo(w) \in Nat /\ Hi(w) \in Nat
        /\ buffer[w] \in Nat /\ left[w] \in Int /\ num_hashes[w] \in Nat
    BY <1>1, <1>8, UserAtHand, LoHi DEF CrackInv, Shape
  <2>2. someinfo'.found # 0 => someinfo.found # 0
    BY <1>1 DEF Worker, CheckEof, Begin, Look, Hash, Found, Add, CrackInv, Shape, Info
  <2> DEFINE Here(v) == /\ pc[v] \in {"look", "hash"} =>
                            /\ left[v] = Hi(v) - buffer[v]
                            /\ \A c \in Lo(v) .. buffer[v] - 1 : c # Secret[User]
                        /\ pc[v] \in {"add", "meet3"} /\ someinfo.found # 0 =>
                            /\ num_hashes[v] = Hi(v) - Lo(v)
                            /\ \A c \in Lo(v) .. Hi(v) - 1 : c # Secret[User]
  <2>3. \A v \in Workers : Here(v)
    BY <1>1, <1>8 DEF TriedOK
  <2>4. \A v \in Workers \ {w} : Here(v)'
    BY <1>2, <1>5, <1>6, <2>2, <2>3
  <2>5. Here(w)'
    <3>1. CASE Begin(w)
      <4>1. count(w, Candidates[User]) \in Nat /\ count(w, Candidates[User]) = Hi(w) - Lo(w)
        BY <2>1, SubrangeBounds DEF Lo, Hi
      <4>2. int(count(w, Candidates[User])) = Hi(w) - Lo(w)
        BY <2>1, <4>1, IntOf DEF CountsFit
      <4>3. pc'[w] = "look" /\ buffer'[w] = Lo(w) /\ left'[w] = Hi(w) - Lo(w)
        BY <1>1, <3>1, <4>2 DEF Begin, CrackInv, Shape, Lo, User
      <4>4. \A c \in Lo(w) .. Lo(w) - 1 : FALSE
        BY <2>1
      <4> QED BY <1>2, <1>5, <4>3, <4>4
    <3>2. CASE Look(w)
      <4>1. /\ pc[w] = "look" /\ UNCHANGED <<someinfo, buffer, left, num_hashes>>
            /\ num_hashes[w] = buffer[w] - Lo(w) /\ num_hashes[w] <= Hi(w) - Lo(w)
        BY <1>1, <1>8, <3>2 DEF Look, CrackInv, RangeOK
      <4>2. left[w] = Hi(w) - buffer[w] /\ \A c \in Lo(w) .. buffer[w] - 1 : c # Secret[User]
        BY <2>3, <4>1
      <4>3. \/ pc'[w] = "hash"
            \/ pc'[w] = "add" /\ (left[w] <= 0 \/ someinfo.found = 0)
        BY <1>1, <3>2 DEF Look, CrackInv, Shape
      <4>4. left[w] <= 0 => buffer[w] = Hi(w)
        BY ONLY <2>1, <4>1, <4>2
      <4> QED BY <1>2, <1>5, <4>1, <4>2, <4>3, <4>4
    <3>3. CASE Hash(w)
      <4>1. pc[w] = "hash" /\ Lo(w) <= buffer[w]
        BY <1>1, <3>3 DEF Hash, CrackInv, RangeOK
      <4>2. left[w] = Hi(w) - buffer[w] /\ \A c \in Lo(w) .. buffer[w] - 1 : c # Secret[User]
        BY <2>3, <4>1
      <4>3. \/ pc'[w] = "found"
            \/ /\ pc'[w] = "look" /\ buffer[w] # Secret[User]
               /\ buffer'[w] = buffer[w] + 1 /\ left'[w] = left[w] - 1
        BY <1>1, <3>3 DEF Hash, Matches, CrackInv, Shape, User
      <4>4. \A c \in Lo(w) .. (buffer[w] + 1) - 1 : c \in Lo(w) .. buffer[w] - 1 \/ c = buffer[w]
        BY ONLY <2>1
      <4>5. left[w] - 1 = Hi(w) - (buffer[w] + 1)
        BY ONLY <2>1, <4>2
      <4>6. CASE pc'[w] = "found"
        BY <4>6
      <4>7. CASE pc'[w] = "look"
        <5>1. buffer[w] # Secret[User] /\ buffer'[w] = buffer[w] + 1 /\ left'[w] = left[w] - 1
          BY <4>3, <4>7
        <5>2. \A c \in Lo(w) .. (buffer[w] + 1) - 1 : c # Secret[User]
          BY ONLY <4>2, <4>4, <5>1
        <5> QED BY <1>2, <1>5, <4>5, <4>7, <5>1, <5>2
      <4> QED BY <4>3, <4>6, <4>7
    <3>4. CASE Found(w)
      <4>1. pc'[w] = "add" /\ someinfo'.found = 0
        BY <1>1, <3>4 DEF Found, CrackInv, Shape, Info
      <4> QED BY <4>1
    <3>5. CASE Add(w)
      <4>1. pc[w] = "add" /\ pc'[w] = "meet3" /\ num_hashes' = num_hashes
        BY <1>1, <3>5 DEF Add, CrackInv, Shape, locals
      <4> QED BY <1>2, <1>5, <2>2, <2>3, <4>1
    <3>6. CASE CheckEof(w)
      <4>1. pc[w] = "check"
        BY <3>6 DEF CheckEof
      <4> QED BY <1>1, <1>8, <4>1 DEF CrackInv, InStep, Searching
    <3> QED BY <3>1, <3>2, <3>3, <3>4, <3>5, <3>6 DEF Worker
  <2>6. TriedOK'
    BY <2>4, <2>5 DEF TriedOK
  <2> QED BY <1>4, <2>6
<1> QED BY <1>7, <1>8

LEMMA RightNext ==
  ASSUME CountsFit
  PROVE  RightInv /\ [Next]_vars => RightInv'
<1> SUFFICES ASSUME RightInv, [Next]_vars PROVE RightInv'
  OBVIOUS
<1>1. CrackInv'
  BY CrackNext DEF RightInv
<1>2. CASE BarrierTrips
  BY <1>1, <1>2, TripRight DEF RightInv
<1>3. CASE Main
  BY <1>1, <1>3, MainRight DEF RightInv
<1>4. ASSUME NEW w \in Workers, Worker(w) PROVE RightInv'
  BY <1>1, <1>4, WorkerRight DEF RightInv
<1>5. CASE UNCHANGED vars
  <2>1. UNCHANGED <<mainPc, someinfo, pc, buffer, left, num_hashes, printed>>
    BY <1>5 DEF vars, locals
  <2>2. TriedOK' /\ SummaryOK' /\ SummaryRight'
    BY <2>1 DEF RightInv, TriedOK, SummaryOK, SummaryRight, User, Lo, Hi
  <2> QED BY <1>1, <2>2 DEF RightInv
<1> QED BY <1>2, <1>3, <1>4, <1>5 DEF Next, Terminated

\* When the count of each worker fits an int, whatever the number of workers and
\* users, and however their steps interleave: the summary of a user has the
\* password if there is one; otherwise every candidate has been tried, and the
\* count of hashes is the number of candidates, as an int: the sum over the
\* workers may wrap, and on the way, too (cracker2.c:24, 114, 158-223).
THEOREM SummariesRight ==
  ASSUME CountsFit
  PROVE  SafeSpec => []SummaryRight
<1>1. RightInv => SummaryRight
  BY DEF RightInv
<1>2. RightInv /\ [Next]_vars => RightInv'
  BY RightNext
<1> QED BY <1>1, <1>2, RightInit, PTL DEF SafeSpec

---------------------------------------------------------------------------
(* The first cracker.                                                      *)

\* A task is known by its number: what main has pushed, and the NULLs behind it.
Pushed == IF start_pc = "push" THEN tasks_read - 1 ELSE tasks_read
Nulls == Cardinality(Threads) - sentinels

StartOK ==
  /\ start_pc \in {"read", "push"} => sentinels = Cardinality(Threads)
  /\ start_pc = "push" => tasks_read # 0 /\ job["main"] = tasks_read
  /\ start_pc \notin {"read", "push"} => tasks_read = NumTasks
  /\ start_pc \in {"read", "push"} \/ sentinels # 0 => \A w \in Threads : worker_pc[w] = "none"
  /\ \A w \in joined : worker_pc[w] = "exit"
  /\ start_pc = "done" => joined = Threads

\* After p pulls the pool holds the tasks behind p, then the NULLs; and a worker
\* has left only if p has passed the last task.
PoolHolds(p) ==
  /\ p <= Pushed + Nulls /\ Len(items) = Pushed + Nulls - p
  /\ \A n \in 1 .. Len(items) : items[n] = IF p + n <= Pushed THEN p + n ELSE One!NULL
  /\ \A w \in Threads : worker_pc[w] = "exit" => p > NumTasks

\* by[k] is the worker that cracked task k.  A task pulled is in one worker's
\* hands, or has been cracked, and freed.
Nobody == CHOOSE x : x \notin Threads
InHands(by, p) ==
  /\ \A k \in One!Tasks : freed[k] = IF by[k] = Nobody THEN 0 ELSE 1
  /\ \A k \in One!Tasks : by[k] # Nobody => k <= p
  /\ \A k \in One!Tasks : k <= p => \/ by[k] # Nobody
                                    \/ \E w \in Threads : worker_pc[w] = "crack" /\ job[w] = k
  /\ \A w \in Threads : worker_pc[w] = "crack" =>
       job[w] \in One!Tasks /\ job[w] <= p /\ by[job[w]] = Nobody
  /\ \A v, w \in Threads : worker_pc[v] = "crack" /\ worker_pc[w] = "crack" /\ job[v] = job[w] => v = w

\* The counters are the sizes of the sets of tasks they stand for.
By(by, S, W) == {k \in S : by[k] \in W}
Uncrackable == One!Tasks \ Crackable
CountersOK(by) ==
  /\ \A w \in Threads : recovered[w] = Cardinality(By(by, Crackable, {w}))
  /\ \A w \in Threads : failed[w] = Cardinality(By(by, Uncrackable, {w}))
  /\ numre = Cardinality(By(by, Crackable, joined))
  /\ numf = Cardinality(By(by, Uncrackable, joined))

TasksOK == \E by \in [One!Tasks -> Threads \cup {Nobody}], p \in Nat :
             PoolHolds(p) /\ InHands(by, p) /\ CountersOK(by)

TaskInv == One!TypeOK /\ StartOK /\ TasksOK

LEMMA NobodyIsNoThread == Nobody \notin Threads
BY NoSetContainsEverything DEF Nobody

\* An instance of FiniteSets defines the same again.
LEMMA SameSize ==
  ASSUME NEW S
  PROVE  (One!IsFiniteSet(S) <=> IsFiniteSet(S)) /\ One!Cardinality(S) = Cardinality(S)
<1>1. One!IsFiniteSet(S) <=> IsFiniteSet(S)
  BY DEF One!IsFiniteSet, IsFiniteSet
<1>2. One!Cardinality(S) = Cardinality(S)
  BY DEF One!Cardinality, Cardinality
<1> QED BY <1>1, <1>2

LEMMA TaskSets ==
  /\ NumTasks \in Nat /\ Cardinality(Threads) \in Nat /\ One!Cardinality(Threads) = Cardinality(Threads)
  /\ IsFiniteSet(Threads) /\ Threads # {}
  /\ IsFiniteSet(Crackable) /\ IsFiniteSet(Uncrackable)
  /\ Crackable \subseteq One!Tasks /\ Uncrackable \subseteq One!Tasks
  /\ Cardinality(Crackable) \in Nat /\ Cardinality(Crackable) + Cardinality(Uncrackable) = NumTasks
<1>1. NumTasks \in Nat /\ IsFiniteSet(Threads) /\ Threads # {} /\ Crackable \subseteq One!Tasks
  BY OneOK, SameSize DEF One!Cracker1Assumption, One!Tasks
<1>2. IsFiniteSet(One!Tasks) /\ Cardinality(One!Tasks) = NumTasks
  <2>1. 1 \in Int /\ NumTasks \in Int /\ (IF 1 > NumTasks THEN 0 ELSE (NumTasks - 1) + 1) = NumTasks
    BY <1>1
  <2>2. IsFiniteSet(1 .. NumTasks) /\ Cardinality(1 .. NumTasks) = NumTasks
    BY ONLY <2>1, FS_Interval
  <2> QED BY <2>2 DEF One!Tasks
<1>3. One!Tasks \cap Crackable = Crackable
  BY <1>1
<1>4. IsFiniteSet(Crackable)
  BY <1>1, <1>2, FS_Subset
<1>5. /\ IsFiniteSet(Uncrackable)
      /\ Cardinality(Uncrackable) = Cardinality(One!Tasks) - Cardinality(Crackable)
  BY <1>2, <1>3, FS_Difference DEF Uncrackable
<1>6. Cardinality(Crackable) \in Nat /\ Cardinality(Threads) \in Nat
  BY <1>1, <1>4, FS_CardinalityType
<1>7. Cardinality(Crackable) + Cardinality(Uncrackable) = NumTasks
  BY <1>1, <1>2, <1>5, <1>6
<1> QED BY <1>1, <1>4, <1>5, <1>6, <1>7, SameSize DEF Uncrackable

LEMMA PoolNumbers ==
  ASSUME One!TypeOK
  PROVE  Pushed \in Int /\ Pushed <= NumTasks /\ Nulls \in Nat /\ Len(items) \in Nat
BY TaskSets DEF One!TypeOK, Pushed, Nulls

LEMMA TaskInit == One!Init => TaskInv
<1> SUFFICES ASSUME One!Init PROVE TaskInv
  OBVIOUS
<1>1. One!TypeOK
  <2>1. items \in Seq(One!Tasks \cup {One!NULL})
    BY EmptySeq DEF One!Init
  <2>2. /\ tasks_read \in 0 .. NumTasks /\ sentinels \in 0 .. Cardinality(Threads)
        /\ start_pc \in {"read", "push", "sentinels", "join", "done"}
        /\ numre \in Nat /\ numf \in Nat /\ joined \subseteq Threads
        /\ jobpool \in {"open", "destroyed"}
    BY TaskSets DEF One!Init
  <2>3. /\ job \in [Threads \cup {"main"} -> One!Tasks \cup {One!NULL}]
        /\ worker_pc \in [Threads -> {"none", "pull", "crack", "exit"}]
        /\ recovered \in [Threads -> Nat] /\ failed \in [Threads -> Nat]
        /\ freed \in [One!Tasks -> Nat]
    BY DEF One!Init
  <2> QED BY <2>1, <2>2, <2>3, TaskSets DEF One!TypeOK
<1>2. StartOK
  BY TaskSets DEF One!Init, StartOK
<1>3. TasksOK
  <2> DEFINE by == [k \in One!Tasks |-> Nobody]
  <2>1. by \in [One!Tasks -> Threads \cup {Nobody}] /\ 0 \in Nat
    OBVIOUS
  <2>2. PoolHolds(0)
    <3>1. Len(items) = 0 /\ Pushed = 0 /\ Nulls = 0
      BY TaskSets DEF One!Init, Pushed, Nulls
    <3>2. \A w \in Threads : worker_pc[w] # "exit"
      BY DEF One!Init
    <3> QED BY <3>1, <3>2 DEF PoolHolds
  <2>3. InHands(by, 0)
    BY TaskSets DEF One!Init, InHands, One!Tasks
  <2>4. \A S, W : W \subseteq Threads /\ S \subseteq One!Tasks => By(by, S, W) = {}
    BY NobodyIsNoThread DEF By
  <2>5. CountersOK(by)
    BY <2>4, TaskSets, FS_EmptySet DEF One!Init, CountersOK
  <2> HIDE DEF by
  <2> QED BY <2>1, <2>2, <2>3, <2>5 DEF TasksOK
<1> QED BY <1>1, <1>2, <1>3 DEF TaskInv

\* What the pool holds and who is at which task stays the same.
LEMMA TasksKept ==
  ASSUME TasksOK, Pushed' = Pushed, Nulls' = Nulls,
         UNCHANGED <<items, freed, recovered, failed, numre, numf, joined>>,
         \A w \in Threads : /\ worker_pc'[w] = "crack" <=> worker_pc[w] = "crack"
                            /\ worker_pc'[w] = "exit" <=> worker_pc[w] = "exit"
                            /\ worker_pc[w] = "crack" => job'[w] = job[w]
  PROVE  TasksOK'
<1>1. PICK by \in [One!Tasks -> Threads \cup {Nobody}], p \in Nat :
             PoolHolds(p) /\ InHands(by, p) /\ CountersOK(by)
  BY DEF TasksOK
<1>2. PoolHolds(p)'
  BY <1>1 DEF PoolHolds
<1>3. InHands(by, p)'
  BY <1>1 DEF InHands
<1>4. CountersOK(by)'
  BY <1>1 DEF CountersOK
<1> QED BY <1>2, <1>3, <1>4 DEF TasksOK

LEMMA ReadTaskInv ==
  ASSUME TaskInv, One!ReadTask
  PROVE  TaskInv'
<1>1. One!TypeOK'
  BY TaskSets DEF TaskInv, One!TypeOK, One!ReadTask, One!Tasks, One!results
<1>2. StartOK'
  BY TaskSets DEF TaskInv, One!TypeOK, StartOK, One!ReadTask
<1>3. Pushed' = Pushed
  BY TaskSets DEF TaskInv, One!TypeOK, One!ReadTask, Pushed
<1>4. TasksOK'
  BY <1>3, TasksKept DEF TaskInv, StartOK, One!ReadTask, Nulls, One!results
<1> QED BY <1>1, <1>2, <1>4 DEF TaskInv

LEMMA CreateWorkerInv ==
  ASSUME TaskInv, NEW w \in Threads, One!CreateWorker(w)
  PROVE  TaskInv'
<1>1. One!TypeOK'
  BY DEF TaskInv, One!TypeOK, One!CreateWorker, One!locals, One!results
<1>2. StartOK'
  BY DEF TaskInv, One!TypeOK, StartOK, One!CreateWorker, One!locals
<1>3. TasksOK'
  BY TasksKept DEF TaskInv, One!TypeOK, One!CreateWorker, Pushed, Nulls, One!locals, One!results
<1> QED BY <1>1, <1>2, <1>3 DEF TaskInv

LEMMA MainGoesOnInv ==
  ASSUME TaskInv, One!BeginJoin \/ One!Summary
  PROVE  TaskInv'
<1>1. One!TypeOK'
  BY DEF TaskInv, One!TypeOK, One!BeginJoin, One!Summary, One!locals, One!results
<1>2. StartOK'
  BY DEF TaskInv, One!TypeOK, StartOK, One!BeginJoin, One!Summary, One!locals
<1>3. TasksOK'
  BY TasksKept DEF TaskInv, One!BeginJoin, One!Summary, Pushed, Nulls, One!locals, One!results
<1> QED BY <1>1, <1>2, <1>3 DEF TaskInv

LEMMA PushTaskInv ==
  ASSUME TaskInv, One!PushTask
  PROVE  TaskInv'
<1>1. /\ items' = Append(items, tasks_read) /\ start_pc = "push" /\ start_pc' = "read"
      /\ UNCHANGED <<job, worker_pc, tasks_read, sentinels, numre, numf, joined, jobpool,
                     recovered, failed, freed>>
  BY DEF One!PushTask, One!Enqueue, TaskInv, StartOK, One!locals, One!results
<1>2. tasks_read \in 1 .. NumTasks /\ tasks_read \in One!Tasks /\ sentinels = Cardinality(Threads)
  BY <1>1, TaskSets DEF TaskInv, One!TypeOK, StartOK, One!Tasks
<1>3. /\ items' \in Seq(One!Tasks \cup {One!NULL}) /\ Len(items') = Len(items) + 1
      /\ \A n \in 1 .. Len(items) : items'[n] = items[n]
      /\ items'[Len(items) + 1] = tasks_read
  <2>1. items \in Seq(One!Tasks \cup {One!NULL}) /\ tasks_read \in One!Tasks \cup {One!NULL}
    BY <1>2 DEF TaskInv, One!TypeOK
  <2> QED BY <1>1, <2>1, AppendProperties
<1>4. One!TypeOK'
  BY <1>1, <1>3 DEF TaskInv, One!TypeOK
<1>5. StartOK'
  BY <1>1 DEF TaskInv, StartOK
<1>6. TasksOK'
  <2>1. PICK by \in [One!Tasks -> Threads \cup {Nobody}], p \in Nat :
               PoolHolds(p) /\ InHands(by, p) /\ CountersOK(by)
    BY DEF TaskInv, TasksOK
  <2>2. Pushed = tasks_read - 1 /\ Pushed' = tasks_read /\ Nulls = 0 /\ Nulls' = 0
    BY <1>1, <1>2, TaskSets DEF Pushed, Nulls
  <2>3. PoolHolds(p)'
    <3>1. Len(items) = Pushed - p /\ Len(items) \in Nat
      BY <1>2, <2>1, <2>2, PoolNumbers DEF PoolHolds, TaskInv
    <3>2. p <= tasks_read /\ Len(items') = tasks_read - p
      BY <1>2, <1>3, <2>2, <3>1
    <3>3. \A n \in 1 .. Len(items') : items'[n] = p + n /\ p + n <= tasks_read
      <4> TAKE n \in 1 .. Len(items')
      <4>1. CASE n = Len(items) + 1
        BY <1>2, <1>3, <2>2, <3>1, <4>1
      <4>2. CASE n # Len(items) + 1
        <5>1. n \in 1 .. Len(items) /\ p + n <= Pushed
          BY <1>2, <1>3, <2>2, <3>1, <4>2
        <5> QED BY <1>2, <1>3, <2>1, <2>2, <5>1 DEF PoolHolds
      <4> QED BY <4>1, <4>2
    <3>4. \A v \in Threads : worker_pc'[v] = "exit" => p > NumTasks
      BY <1>1, <2>1 DEF PoolHolds
    <3> QED BY <1>2, <2>2, <3>2, <3>3, <3>4 DEF PoolHolds
  <2>4. InHands(by, p)' /\ CountersOK(by)'
    BY <1>1, <2>1 DEF InHands, CountersOK
  <2> QED BY <2>3, <2>4 DEF TasksOK
<1> QED BY <1>4, <1>5, <1>6 DEF TaskInv

LEMMA PushSentinelInv ==
  ASSUME TaskInv, One!PushSentinel
  PROVE  TaskInv'
<1>1. /\ items' = Append(items, One!NULL) /\ start_pc = "sentinels" /\ sentinels # 0
      /\ sentinels' = sentinels - 1
      /\ UNCHANGED <<start_pc, job, worker_pc, tasks_read, numre, numf, joined, jobpool,
                     recovered, failed, freed>>
  BY DEF One!PushSentinel, One!Enqueue, One!results, TaskInv, One!TypeOK
<1>2. tasks_read = NumTasks /\ sentinels \in 1 .. Cardinality(Threads)
  BY <1>1, TaskSets DEF TaskInv, One!TypeOK, StartOK
<1>3. /\ items' \in Seq(One!Tasks \cup {One!NULL}) /\ Len(items') = Len(items) + 1
      /\ \A n \in 1 .. Len(items) : items'[n] = items[n]
      /\ items'[Len(items) + 1] = One!NULL
  <2>1. items \in Seq(One!Tasks \cup {One!NULL}) /\ One!NULL \in One!Tasks \cup {One!NULL}
    BY DEF TaskInv, One!TypeOK
  <2> QED BY <1>1, <2>1, AppendProperties
<1>4. One!TypeOK'
  BY <1>1, <1>2, <1>3, TaskSets DEF TaskInv, One!TypeOK
<1>5. StartOK'
  BY <1>1 DEF TaskInv, StartOK
<1>6. TasksOK'
  <2>1. PICK by \in [One!Tasks -> Threads \cup {Nobody}], p \in Nat :
               PoolHolds(p) /\ InHands(by, p) /\ CountersOK(by)
    BY DEF TaskInv, TasksOK
  <2>2. Pushed' = Pushed /\ Nulls' = Nulls + 1
    BY <1>1, <1>2, TaskSets DEF Pushed, Nulls
  <2>3. PoolHolds(p)'
    <3>1. /\ Len(items) = Pushed + Nulls - p /\ Len(items) \in Nat /\ p <= Pushed + Nulls
          /\ Pushed \in Int /\ Nulls \in Nat
      BY <2>1, PoolNumbers DEF PoolHolds, TaskInv
    <3>2. p <= Pushed + (Nulls + 1) /\ Len(items') = Pushed + (Nulls + 1) - p
      BY ONLY <1>3, <3>1, p \in Nat
    <3>3. \A n \in 1 .. Len(items') : items'[n] = IF p + n <= Pushed THEN p + n ELSE One!NULL
      <4> TAKE n \in 1 .. Len(items')
      <4>1. CASE n = Len(items) + 1
        <5>1. ~(p + n <= Pushed)
          BY ONLY <3>1, <4>1, p \in Nat
        <5> QED BY <1>3, <4>1, <5>1
      <4>2. CASE n # Len(items) + 1
        <5>1. n \in 1 .. Len(items)
          BY <1>3, <3>1, <4>2
        <5> QED BY <1>3, <2>1, <5>1 DEF PoolHolds
      <4> QED BY <4>1, <4>2
    <3>4. \A v \in Threads : worker_pc'[v] = "exit" => p > NumTasks
      BY <1>1, <2>1 DEF PoolHolds
    <3> QED BY <2>2, <3>2, <3>3, <3>4 DEF PoolHolds
  <2>4. InHands(by, p)' /\ CountersOK(by)'
    BY <1>1, <2>1 DEF InHands, CountersOK
  <2> QED BY <2>3, <2>4 DEF TasksOK
<1> QED BY <1>4, <1>5, <1>6 DEF TaskInv

\* The head of the pool is the next task, or a NULL when there is none left.
LEMMA PullTaskInv ==
  ASSUME TaskInv, NEW w \in Threads, One!PullTask(w)
  PROVE  TaskInv'
<1>1. /\ worker_pc[w] = "pull" /\ items # <<>> /\ items' = Tail(items)
      /\ job' = [job EXCEPT ![w] = Head(items)]
      /\ worker_pc' = [worker_pc EXCEPT ![w] = IF Head(items) = One!NULL THEN "exit" ELSE "crack"]
      /\ UNCHANGED <<start_pc, tasks_read, sentinels, numre, numf, joined, jobpool,
                     recovered, failed, freed>>
  BY DEF One!PullTask, One!Dequeue, One!CanPull, One!locals, One!results
<1>2. /\ items \in Seq(One!Tasks \cup {One!NULL}) /\ Len(items) \in Nat /\ Len(items) > 0
      /\ Head(items) = items[1] /\ Head(items) \in One!Tasks \cup {One!NULL}
  BY <1>1, HeadTailProperties DEF TaskInv, One!TypeOK
<1>3. /\ items' \in Seq(One!Tasks \cup {One!NULL}) /\ Len(items') = Len(items) - 1
      /\ \A n \in 1 .. Len(items') : items'[n] = items[n + 1]
  BY <1>1, <1>2, HeadTailProperties
<1>4. /\ job'[w] = Head(items) /\ \A v \in Threads \ {w} : job'[v] = job[v]
      /\ worker_pc'[w] = IF Head(items) = One!NULL THEN "exit" ELSE "crack"
      /\ \A v \in Threads \ {w} : worker_pc'[v] = worker_pc[v]
  BY <1>1 DEF TaskInv, One!TypeOK
<1>5. One!TypeOK'
  BY <1>1, <1>2, <1>3 DEF TaskInv, One!TypeOK
<1>6. start_pc \notin {"read", "push"} /\ sentinels = 0 /\ tasks_read = NumTasks /\ w \notin joined
  BY <1>1 DEF TaskInv, StartOK
<1>7. StartOK'
  BY <1>1, <1>4, <1>6 DEF TaskInv, StartOK
<1>8. TasksOK'
  <2>1. PICK by \in [One!Tasks -> Threads \cup {Nobody}], p \in Nat :
               PoolHolds(p) /\ InHands(by, p) /\ CountersOK(by)
    BY DEF TaskInv, TasksOK
  <2> DEFINE q == p + 1
  <2>2. q \in Nat /\ q = p + 1
    OBVIOUS
  <2> HIDE DEF q
  <2>3. /\ Pushed = NumTasks /\ Pushed' = Pushed /\ Nulls' = Nulls
        /\ Pushed \in Nat /\ Nulls \in Nat /\ NumTasks \in Nat
    BY <1>1, <1>6, TaskSets DEF Pushed, Nulls
  <2>4. /\ p <= Pushed + Nulls /\ Len(items) = Pushed + Nulls - p
        /\ \A n \in 1 .. Len(items) : items[n] = IF p + n <= Pushed THEN p + n ELSE One!NULL
    BY <2>1 DEF PoolHolds
  <2>5. Head(items) = IF q <= NumTasks THEN q ELSE One!NULL
    <3>1. 1 \in 1 .. Len(items)
      BY <1>2
    <3> QED BY <1>2, <2>2, <2>3, <2>4, <3>1
  <2>6. q \in 1 .. NumTasks => q # One!NULL
    BY DEF One!NULL
  <2>8. ASSUME q <= NumTasks
        PROVE  InHands(by, q)' /\ \A v \in Threads : worker_pc'[v] = "exit" => q > NumTasks
    <3>1. Head(items) = q /\ q \in One!Tasks /\ worker_pc'[w] = "crack" /\ job'[w] = q
      BY <1>4, <2>2, <2>3, <2>5, <2>6, <2>8 DEF One!Tasks
    <3>2. \A v \in Threads : worker_pc'[v] = "exit" => q > NumTasks
      <4>1. \A v \in Threads : worker_pc'[v] = "exit" => v # w /\ worker_pc[v] = "exit"
        BY <1>4, <3>1
      <4> QED BY <2>1, <2>2, <2>3, <4>1 DEF PoolHolds
    <3>3. InHands(by, q)'
      <4>1. \A k \in One!Tasks : k <= q => k <= p \/ k = q
        BY <2>2 DEF One!Tasks
      <4>2. \A k \in One!Tasks : k <= p => k <= q
        BY <2>2 DEF One!Tasks
      <4>3. by[q] = Nobody /\ (\A v \in Threads : worker_pc[v] = "crack" => job[v] # q) /\ q <= q
        <5>1. ~(q <= p)
          BY <2>2
        <5> QED BY <2>1, <2>2, <3>1, <5>1 DEF InHands
      <4>4. \A v \in Threads : worker_pc'[v] = "crack" <=> v = w \/ worker_pc[v] = "crack"
        BY <1>4, <3>1
      <4>5. \A v \in Threads : v # w => job'[v] = job[v]
        BY <1>4
      <4>6. \A k \in One!Tasks : k <= q =>
              by[k] # Nobody \/ \E v \in Threads : worker_pc'[v] = "crack" /\ job'[v] = k
        <5> SUFFICES ASSUME NEW k \in One!Tasks, k <= q, by[k] = Nobody
                     PROVE  \E v \in Threads : worker_pc'[v] = "crack" /\ job'[v] = k
          OBVIOUS
        <5>1. CASE k = q
          BY <3>1, <5>1
        <5>2. CASE k <= p
          <6>1. PICK v \in Threads : worker_pc[v] = "crack" /\ job[v] = k
            BY <2>1, <5>2 DEF InHands
          <6>2. v # w
            BY <1>1, <6>1
          <6> QED BY <4>4, <4>5, <6>1, <6>2
        <5> QED BY <4>1, <5>1, <5>2
      <4>7. \A v \in Threads : worker_pc'[v] = "crack" =>
              job'[v] \in One!Tasks /\ job'[v] <= q /\ by[job'[v]] = Nobody
        BY <2>1, <3>1, <4>2, <4>3, <4>4, <4>5 DEF InHands
      <4>8. \A u, v \in Threads : worker_pc'[u] = "crack" /\ worker_pc'[v] = "crack" /\ job'[u] = job'[v]
              => u = v
        BY <2>1, <3>1, <4>3, <4>4, <4>5 DEF InHands
      <4>9. /\ \A k \in One!Tasks : freed'[k] = IF by[k] = Nobody THEN 0 ELSE 1
            /\ \A k \in One!Tasks : by[k] # Nobody => k <= q
        BY <1>1, <2>1, <4>2 DEF InHands
      <4> QED BY <4>6, <4>7, <4>8, <4>9 DEF InHands
    <3> QED BY <3>2, <3>3
  <2>9. ASSUME ~(q <= NumTasks)
        PROVE  InHands(by, q)' /\ \A v \in Threads : worker_pc'[v] = "exit" => q > NumTasks
    <3>1. Head(items) = One!NULL /\ worker_pc'[w] = "exit"
      BY <1>4, <2>5, <2>9
    <3>2. \A v \in Threads : worker_pc'[v] = "exit" => q > NumTasks
      BY <2>2, <2>3, <2>9
    <3>3. InHands(by, q)'
      <4>1. \A k \in One!Tasks : k <= q <=> k <= p
        BY <2>2, <2>3, <2>9 DEF One!Tasks
      <4>2. \A v \in Threads : worker_pc'[v] = "crack" <=> worker_pc[v] = "crack"
        BY <1>1, <1>4, <3>1
      <4>3. \A v \in Threads : worker_pc[v] = "crack" => job'[v] = job[v]
        BY <1>1, <1>4
      <4>4. \A k \in One!Tasks : k <= q =>
              by[k] # Nobody \/ \E v \in Threads : worker_pc'[v] = "crack" /\ job'[v] = k
        BY <2>1, <4>1, <4>2, <4>3 DEF InHands
      <4>5. \A v \in Threads : worker_pc'[v] = "crack" =>
              job'[v] \in One!Tasks /\ job'[v] <= q /\ by[job'[v]] = Nobody
        BY <2>1, <4>1, <4>2, <4>3 DEF InHands
      <4>6. \A u, v \in Threads : worker_pc'[u] = "crack" /\ worker_pc'[v] = "crack" /\ job'[u] = job'[v]
              => u = v
        BY <2>1, <4>2, <4>3 DEF InHands
      <4>7. /\ \A k \in One!Tasks : freed'[k] = IF by[k] = Nobody THEN 0 ELSE 1
            /\ \A k \in One!Tasks : by[k] # Nobody => k <= q
        BY <1>1, <2>1, <4>1 DEF InHands
      <4> QED BY <4>4, <4>5, <4>6, <4>7 DEF InHands
    <3> QED BY <3>2, <3>3
  <2>10. PoolHolds(q)'
    <3>1. q <= Pushed + Nulls /\ Len(items') = Pushed + Nulls - q
      BY <1>2, <1>3, <2>2, <2>3, <2>4
    <3>2. \A n \in 1 .. Len(items') : items'[n] = IF q + n <= Pushed THEN q + n ELSE One!NULL
      <4> TAKE n \in 1 .. Len(items')
      <4>1. n + 1 \in 1 .. Len(items) /\ p + (n + 1) = q + n
        BY <1>2, <1>3, <2>2
      <4> QED BY <1>3, <2>4, <4>1
    <3> QED BY <2>3, <2>8, <2>9, <3>1, <3>2 DEF PoolHolds
  <2>11. CountersOK(by)'
    BY <1>1, <2>1 DEF CountersOK
  <2> QED BY <2>2, <2>8, <2>9, <2>10, <2>11 DEF TasksOK
<1> QED BY <1>5, <1>7, <1>8 DEF TaskInv

\* Who cracks a task of S counts one more, and nobody else does.
LEMMA ByGains ==
  ASSUME NEW S \in SUBSET One!Tasks, IsFiniteSet(S), NEW W \in SUBSET Threads, NEW w \in Threads,
         NEW by, NEW now, NEW k \in One!Tasks, by[k] = Nobody,
         now[k] = w, \A l \in One!Tasks \ {k} : now[l] = by[l]
  PROVE  Cardinality(By(now, S, W)) =
           IF k \in S /\ w \in W THEN Cardinality(By(by, S, W)) + 1 ELSE Cardinality(By(by, S, W))
<1>1. now[k] = w /\ \A l \in S \ {k} : now[l] = by[l]
  OBVIOUS
<1>2. k \notin By(by, S, W) /\ By(by, S, W) \subseteq S
  BY NobodyIsNoThread DEF By
<1>3. CASE k \in S /\ w \in W
  <2>1. By(now, S, W) = By(by, S, W) \cup {k}
    BY <1>1, <1>3 DEF By
  <2>2. Cardinality(By(by, S, W) \cup {k}) = Cardinality(By(by, S, W)) + 1
    BY <1>2, FS_Subset, FS_AddElement
  <2> QED BY <1>3, <2>1, <2>2
<1>4. CASE ~(k \in S /\ w \in W)
  <2>1. By(now, S, W) = By(by, S, W)
    BY <1>1, <1>2, <1>4 DEF By
  <2> QED BY <1>4, <2>1
<1> QED BY <1>3, <1>4

\* Two groups that share nobody count apart.
LEMMA ByJoins ==
  ASSUME NEW S, IsFiniteSet(S), NEW by, NEW W, NEW w, w \notin W
  PROVE  /\ Cardinality(By(by, S, W \cup {w})) = Cardinality(By(by, S, W)) + Cardinality(By(by, S, {w}))
         /\ Cardinality(By(by, S, W)) \in Nat /\ Cardinality(By(by, S, {w})) \in Nat
<1>1. By(by, S, W \cup {w}) = By(by, S, W) \cup By(by, S, {w})
  BY DEF By
<1>2. By(by, S, W) \cap By(by, S, {w}) = {}
  BY DEF By
<1>3. By(by, S, W) \subseteq S /\ By(by, S, {w}) \subseteq S
  BY DEF By
<1>4. IsFiniteSet(By(by, S, W)) /\ IsFiniteSet(By(by, S, {w}))
  BY <1>3, FS_Subset
<1>5. Cardinality(By(by, S, W)) \in Nat /\ Cardinality(By(by, S, {w})) \in Nat
  BY <1>4, FS_CardinalityType
<1>6. Cardinality(By(by, S, W) \cap By(by, S, {w})) = 0
  <2>1. Cardinality({}) = 0
    BY FS_EmptySet
  <2> QED BY ONLY <1>2, <2>1
<1>7. Cardinality(By(by, S, W \cup {w})) =
        Cardinality(By(by, S, W)) + Cardinality(By(by, S, {w})) - 0
  <2>1. Cardinality(By(by, S, W) \cup By(by, S, {w})) =
          Cardinality(By(by, S, W)) + Cardinality(By(by, S, {w})) - 0
    BY <1>4, <1>6, FS_Union
  <2> QED BY ONLY <1>1, <2>1
<1>8. \A x, y \in Nat : x + y - 0 = x + y
  OBVIOUS
<1> QED BY <1>5, <1>7, <1>8

LEMMA CrackTaskInv ==
  ASSUME TaskInv, NEW w \in Threads, One!Crack(w)
  PROVE  TaskInv'
<1>0. PICK k : k = job[w]
  OBVIOUS
<1>1. /\ worker_pc[w] = "crack" /\ worker_pc' = [worker_pc EXCEPT ![w] = "pull"]
      /\ freed' = [freed EXCEPT ![k] = @ + 1]
      /\ recovered' = IF k \in Crackable THEN [recovered EXCEPT ![w] = @ + 1] ELSE recovered
      /\ failed' = IF k \in Crackable THEN failed ELSE [failed EXCEPT ![w] = @ + 1]
      /\ UNCHANGED <<items, start_pc, job, tasks_read, sentinels, numre, numf, joined, jobpool>>
  BY <1>0 DEF One!Crack, One!locals
<1>2. PICK by \in [One!Tasks -> Threads \cup {Nobody}], p \in Nat :
             PoolHolds(p) /\ InHands(by, p) /\ CountersOK(by)
  BY DEF TaskInv, TasksOK
<1>3. k \in One!Tasks /\ k <= p /\ by[k] = Nobody
  BY <1>0, <1>1, <1>2 DEF InHands
<1>4. job' = job /\ \A v \in Threads : worker_pc[v] = "crack" /\ job[v] = k => v = w
  BY <1>0, <1>1, <1>2 DEF InHands
<1>5. One!TypeOK'
  BY <1>1, <1>3 DEF TaskInv, One!TypeOK
<1>6. /\ worker_pc'[w] = "pull" /\ \A v \in Threads \ {w} : worker_pc'[v] = worker_pc[v]
      /\ freed'[k] = freed[k] + 1 /\ \A l \in One!Tasks \ {k} : freed'[l] = freed[l]
  BY <1>1, <1>3 DEF TaskInv, One!TypeOK
<1>7. StartOK'
  BY <1>1, <1>6 DEF TaskInv, StartOK
<1>8. w \notin joined
  BY <1>1 DEF TaskInv, StartOK
<1> DEFINE now == [by EXCEPT ![k] = w]
<1>9. /\ now \in [One!Tasks -> Threads \cup {Nobody}]
      /\ now[k] = w /\ \A l \in One!Tasks \ {k} : now[l] = by[l]
  BY <1>3
<1> HIDE DEF now
<1>10. \A S \in SUBSET One!Tasks, W \in SUBSET Threads : IsFiniteSet(S) =>
         Cardinality(By(now, S, W)) =
           IF k \in S /\ w \in W THEN Cardinality(By(by, S, W)) + 1 ELSE Cardinality(By(by, S, W))
  BY <1>3, <1>9, ByGains
<1>11. InHands(now, p)'
  <2>1. \A l \in One!Tasks : freed'[l] = IF now[l] = Nobody THEN 0 ELSE 1
    <3>1. freed[k] = 0 /\ \A l \in One!Tasks : freed[l] = IF by[l] = Nobody THEN 0 ELSE 1
      BY <1>2, <1>3 DEF InHands
    <3> QED BY <1>3, <1>6, <1>9, <3>1, NobodyIsNoThread
  <2>2. \A l \in One!Tasks : now[l] # Nobody => l <= p
    BY <1>2, <1>3, <1>9 DEF InHands
  <2>3. \A l \in One!Tasks : l <= p =>
          now[l] # Nobody \/ \E v \in Threads : worker_pc'[v] = "crack" /\ job'[v] = l
    <3> SUFFICES ASSUME NEW l \in One!Tasks, l <= p, now[l] = Nobody
                 PROVE  \E v \in Threads : worker_pc'[v] = "crack" /\ job'[v] = l
      OBVIOUS
    <3>1. l # k /\ by[l] = Nobody
      BY <1>9, NobodyIsNoThread
    <3>2. PICK v \in Threads : worker_pc[v] = "crack" /\ job[v] = l
      BY <1>2, <3>1 DEF InHands
    <3> QED BY <1>0, <1>4, <1>6, <3>1, <3>2
  <2>4. \A v \in Threads : worker_pc'[v] = "crack" =>
          worker_pc[v] = "crack" /\ job'[v] = job[v] /\ job[v] # k
    BY <1>4, <1>6
  <2>5. \A v \in Threads : worker_pc'[v] = "crack" =>
          job'[v] \in One!Tasks /\ job'[v] <= p /\ now[job'[v]] = Nobody
    BY <1>2, <1>9, <2>4 DEF InHands
  <2>6. ASSUME NEW u \in Threads, NEW v \in Threads,
               worker_pc'[u] = "crack", worker_pc'[v] = "crack", job'[u] = job'[v]
        PROVE  u = v
    <3>1. worker_pc[u] = "crack" /\ worker_pc[v] = "crack" /\ job[u] = job[v]
      BY <2>4, <2>6
    <3> QED BY <1>2, <3>1 DEF InHands
  <2> QED BY <2>1, <2>2, <2>3, <2>5, <2>6 DEF InHands
<1>12. CountersOK(now)'
  <2>1. \A v \in Threads : recovered[v] = Cardinality(By(by, Crackable, {v}))
    BY <1>2 DEF CountersOK
  <2>2. \A v \in Threads : failed[v] = Cardinality(By(by, Uncrackable, {v}))
    BY <1>2 DEF CountersOK
  <2>3. \A v \in Threads : recovered'[v] = IF k \in Crackable /\ w \in {v} THEN recovered[v] + 1 ELSE recovered[v]
    BY <1>1 DEF TaskInv, One!TypeOK
  <2>4. \A v \in Threads : failed'[v] = IF k \in Uncrackable /\ w \in {v} THEN failed[v] + 1 ELSE failed[v]
    BY <1>1, <1>3 DEF TaskInv, One!TypeOK, Uncrackable
  <2>5. \A v \in Threads : recovered'[v] = Cardinality(By(now, Crackable, {v}))
    <3> TAKE v \in Threads
    <3>1. {v} \in SUBSET Threads
      OBVIOUS
    <3> QED BY <1>10, <2>1, <2>3, <3>1, TaskSets
  <2>6. \A v \in Threads : failed'[v] = Cardinality(By(now, Uncrackable, {v}))
    <3> TAKE v \in Threads
    <3>1. {v} \in SUBSET Threads
      OBVIOUS
    <3> QED BY <1>10, <2>2, <2>4, <3>1, TaskSets
  <2>7. /\ numre' = Cardinality(By(now, Crackable, joined))
        /\ numf' = Cardinality(By(now, Uncrackable, joined))
    <3>1. joined \in SUBSET Threads
      BY DEF TaskInv, One!TypeOK
    <3>2. /\ Cardinality(By(now, Crackable, joined)) = Cardinality(By(by, Crackable, joined))
          /\ Cardinality(By(now, Uncrackable, joined)) = Cardinality(By(by, Uncrackable, joined))
      BY <1>8, <1>10, <3>1, TaskSets
    <3>3. UNCHANGED <<numre, numf>>
      BY <1>1
    <3> QED BY <1>2, <3>2, <3>3 DEF CountersOK
  <2> QED BY <1>1, <2>5, <2>6, <2>7 DEF CountersOK
<1>13. PoolHolds(p)'
  <2>1. Pushed' = Pushed /\ Nulls' = Nulls /\ items' = items
    BY <1>1 DEF Pushed, Nulls
  <2>2. \A v \in Threads : worker_pc'[v] = "exit" => worker_pc[v] = "exit"
    BY <1>6
  <2> QED BY <1>2, <2>1, <2>2 DEF PoolHolds
<1> QED BY <1>5, <1>7, <1>9, <1>11, <1>12, <1>13 DEF TaskInv, TasksOK

LEMMA JoinInv ==
  ASSUME TaskInv, NEW w \in Threads, One!Join(w)
  PROVE  TaskInv'
<1>1. /\ start_pc = "join" /\ w \notin joined /\ worker_pc[w] = "exit" /\ joined' = joined \cup {w}
      /\ numre' = numre + recovered[w] /\ numf' = numf + failed[w]
      /\ UNCHANGED <<items, start_pc, job, worker_pc, tasks_read, sentinels, jobpool, freed,
                     recovered, failed>>
  BY DEF One!Join, One!results
<1>2. One!TypeOK'
  BY <1>1 DEF TaskInv, One!TypeOK
<1>3. StartOK'
  BY <1>1 DEF TaskInv, StartOK
<1>4. TasksOK'
  <2>1. PICK by \in [One!Tasks -> Threads \cup {Nobody}], p \in Nat :
               PoolHolds(p) /\ InHands(by, p) /\ CountersOK(by)
    BY DEF TaskInv, TasksOK
  <2>2. CountersOK(by)'
    <3>1. /\ Cardinality(By(by, Crackable, joined \cup {w})) =
               Cardinality(By(by, Crackable, joined)) + Cardinality(By(by, Crackable, {w}))
          /\ Cardinality(By(by, Uncrackable, joined \cup {w})) =
               Cardinality(By(by, Uncrackable, joined)) + Cardinality(By(by, Uncrackable, {w}))
      BY <1>1, TaskSets, ByJoins
    <3> QED BY <1>1, <2>1, <3>1 DEF CountersOK
  <2>3. PoolHolds(p)' /\ InHands(by, p)'
    BY <1>1, <2>1 DEF PoolHolds, InHands, Pushed, Nulls
  <2> QED BY <2>2, <2>3 DEF TasksOK
<1> QED BY <1>2, <1>3, <1>4 DEF TaskInv

LEMMA TaskNext ==
  ASSUME TaskInv, [One!Next]_One!vars
  PROVE  TaskInv'
<1>1. CASE One!Main
  BY <1>1, ReadTaskInv, PushTaskInv, PushSentinelInv, MainGoesOnInv, CreateWorkerInv, JoinInv DEF One!Main
<1>2. CASE \E w \in Threads : One!Worker(w)
  BY <1>2, PullTaskInv, CrackTaskInv DEF One!Worker
<1>3. CASE UNCHANGED One!vars
  <2>1. UNCHANGED <<items, start_pc, tasks_read, job, sentinels, worker_pc, recovered, failed, freed,
                    numre, numf, joined, jobpool>>
    BY <1>3 DEF One!vars, One!locals, One!results
  <2>2. TasksOK'
    BY <2>1, TasksKept DEF TaskInv, Pushed, Nulls
  <2> QED BY <2>1, <2>2 DEF TaskInv, One!TypeOK, StartOK
<1> QED BY <1>1, <1>2, <1>3 DEF One!Next, One!Terminated

LEMMA TaskSuffices ==
  ASSUME TaskInv
  PROVE  EveryTaskOnce
<1>1. PICK by \in [One!Tasks -> Threads \cup {Nobody}], p \in Nat :
             PoolHolds(p) /\ InHands(by, p) /\ CountersOK(by)
  BY DEF TaskInv, TasksOK
<1>2. /\ Pushed \in Int /\ Pushed <= NumTasks /\ NumTasks \in Nat
      /\ Len(items) \in Nat /\ items \in Seq(One!Tasks \cup {One!NULL})
  BY PoolNumbers, TaskSets DEF TaskInv, One!TypeOK
<1>3. One!NoTaskLeftBehind
  <2> SUFFICES ASSUME NEW w \in Threads, worker_pc[w] = "exit", NEW n \in 1 .. Len(items)
               PROVE  items[n] = One!NULL
    BY DEF One!NoTaskLeftBehind
  <2>1. p > NumTasks
    BY <1>1 DEF PoolHolds
  <2>2. ~(p + n <= Pushed)
    BY <1>2, <2>1
  <2> QED BY <1>1, <2>2 DEF PoolHolds
<1>4. One!FreedOnce
  BY <1>1 DEF One!FreedOnce, InHands
<1>5. ASSUME start_pc = "done"
      PROVE  numre = Cardinality(Crackable) /\ numre + numf = NumTasks
  <2>1. joined = Threads /\ \A w \in Threads : worker_pc[w] = "exit"
    BY <1>5 DEF TaskInv, StartOK
  <2>2. p > NumTasks
    BY <1>1, <2>1, TaskSets DEF PoolHolds
  <2>3. \A k \in One!Tasks : by[k] \in Threads
    <3>1. \A k \in One!Tasks : k <= p
      BY <1>2, <2>2 DEF One!Tasks
    <3>2. \A k \in One!Tasks : by[k] # Nobody
      BY <1>1, <2>1, <3>1 DEF InHands
    <3> QED BY <3>2
  <2>4. By(by, Crackable, Threads) = Crackable /\ By(by, Uncrackable, Threads) = Uncrackable
    BY <2>3, TaskSets DEF By
  <2> QED BY <1>1, <2>1, <2>4, TaskSets DEF CountersOK
<1>6. One!SummaryComplete
  BY <1>5, SameSize DEF One!SummaryComplete
<1> QED BY <1>3, <1>4, <1>6 DEF EveryTaskOnce, One!Consistent, TaskInv

\* cracker1.c:38-82, 137-180: for any number of tasks and workers, each task is
\* cracked and freed by one worker, none is left in the pool behind a NULL, and
\* the summary counts each once under the right heading.
THEOREM TasksCrackedOnce == One!SafeSpec => []EveryTaskOnce
<1>1. TaskInv /\ [One!Next]_One!vars => TaskInv'
  BY TaskNext
<1>2. TaskInv => EveryTaskOnce
  BY TaskSuffices
<1> QED BY TaskInit, <1>1, <1>2, PTL DEF One!SafeSpec

---------------------------------------------------------------------------
(* mapreduce.                                                              *)

SplitterOf(i) == <<"splitter", i>>
MapperOf(i) == <<"mapper", i>>

\* When main forks and reaps a child.
Turn(c) == IF c = MR!Reducer THEN 2 * mapper_count + 1
           ELSE IF c[1] = "splitter" THEN c[2] + 1 ELSE mapper_count + c[2] + 1

AllEnds == MR!Pipes \X {"r", "w"}
Lives == {"unborn", "forked", "running", "exited", "killed", "reaped"}
Fresh(c) == life[c] \in {"unborn", "forked"}
Over(c) == life[c] \in {"exited", "killed", "reaped"}

MRShape ==
  /\ length \in 0 .. MaxLength /\ newlines \in SUBSET (0 .. length - 1)
  /\ missing \in {{}, {"splitter"}, {"mapper"}, {"reducer"}}
  /\ step \in 0 .. 2 * MR!Forked + 1
  /\ life \in [MR!Children -> Lives]
  /\ ends_of \in [MR!Children \cup {MR!Main} -> SUBSET AllEnds]
  /\ stdin \in [MR!Children -> AllEnds \cup {MR!NoEnd}]
  /\ stdout \in [MR!Children -> AllEnds \cup {MR!NoEnd}]
  /\ todo \in [MR!Children -> Seq(MR!Lines)]
  /\ pipe \in [MR!Pipes -> Seq(MR!Lines)]
  /\ output \in [0 .. MaxLength - 1 -> {0, 1}]

\* Main forks and reaps the children in order; who is missing never runs.
LivesOK ==
  /\ \A c \in MR!Children :
       /\ life[c] = "unborn" <=> step < Turn(c)
       /\ life[c] = "reaped" <=> MR!Forked + Turn(c) < step
       /\ c[1] \in missing => life[c] \notin {"running", "killed"}
  /\ reported = {c \in MR!Children : c[1] \in missing /\ life[c] = "reaped"}

\* Who holds which ends.
EndsOK ==
  /\ ends_of[MR!Main] = IF step <= MR!Forked THEN AllEnds ELSE {}
  /\ \A c \in MR!Children :
       /\ ends_of[c] = IF life[c] = "forked" THEN AllEnds ELSE {}
       /\ stdin[c] = IF life[c] = "running" THEN MR!Setup(c).in ELSE MR!NoEnd
       /\ stdout[c] = IF life[c] = "running" THEN MR!Setup(c).out ELSE MR!NoEnd

Items(s) == {s[j] : j \in 1 .. Len(s)}
Distinct(s) == \A j, k \in 1 .. Len(s) : s[j] = s[k] => j = k
ReadLines(o) == {l \in DOMAIN o : o[l] = 1}

\* Where the lines of a portion are: with the splitter (a), in its pipe (b), with
\* the mapper (d), in the reducer's pipe (e), or read (f).
Stage(i, fresh, a, b, d, e, f) ==
  /\ a \cup b \cup d \subseteq MR!portion(i)
  /\ a \cap b = {} /\ a \cap d = {} /\ b \cap d = {}
  /\ (a \cup b \cup d) \cap (e \cup f) = {}
  /\ fresh => a \cup b \cup d = {} /\ MR!portion(i) \cap (e \cup f) = {}
  /\ missing = {} /\ ~fresh => MR!portion(i) \subseteq a \cup b \cup d \cup e \cup f

StageOK(i) == Stage(i, Fresh(SplitterOf(i)), Items(todo[SplitterOf(i)]), Items(pipe[i]),
                    Items(todo[MapperOf(i)]), Items(pipe[mapper_count]), ReadLines(output))

FlowOK ==
  /\ \A c \in MR!Children : Distinct(todo[c]) /\ (Fresh(c) => todo[c] = <<>>)
  /\ todo[MR!Reducer] = <<>>
  /\ \A k \in MR!Pipes : Distinct(pipe[k])
  /\ Items(pipe[mapper_count]) \cap ReadLines(output) = {}
  /\ ReadLines(output) \subseteq MR!Lines
  /\ \A i \in MR!Indices : StageOK(i)

\* With all programs there nobody is killed, and who is over has left nothing.
EndOfInputOK == missing = {} =>
  /\ \A c \in MR!Children : life[c] # "killed" /\ (Over(c) => todo[c] = <<>>)
  /\ \A i \in MR!Indices : Over(MapperOf(i)) => Over(SplitterOf(i)) /\ pipe[i] = <<>>
  /\ Over(MR!Reducer) => /\ \A i \in MR!Indices : Over(MapperOf(i))
                         /\ pipe[mapper_count] = <<>>

MRInv == MRShape /\ LivesOK /\ EndsOK /\ FlowOK /\ EndOfInputOK

---------------------------------------------------------------------------

LEMMA MRNumbers == mapper_count \in Nat \ {0} /\ MaxLength \in Nat
BY ReduceOK DEF MR!MapReduceAssumption

\* Who the children are, and that no name is used twice.
LEMMA Kinds ==
  ASSUME NEW c \in MR!Children
  PROVE  \/ \E i \in MR!Indices : c = SplitterOf(i)
         \/ \E i \in MR!Indices : c = MapperOf(i)
         \/ c = MR!Reducer
BY DEF MR!Children, MR!Splitters, MR!Mappers, SplitterOf, MapperOf

LEMMA Names ==
  /\ \A i \in MR!Indices :
       /\ SplitterOf(i) \in MR!Children /\ SplitterOf(i) \in MR!Splitters
       /\ SplitterOf(i) \notin MR!Mappers /\ SplitterOf(i) # MR!Reducer
       /\ SplitterOf(i)[1] = "splitter" /\ SplitterOf(i)[2] = i
       /\ MapperOf(i) \in MR!Children /\ MapperOf(i) \in MR!Mappers
       /\ MapperOf(i) \notin MR!Splitters /\ MapperOf(i) # MR!Reducer
       /\ MapperOf(i)[1] = "mapper" /\ MapperOf(i)[2] = i
  /\ \A i, j \in MR!Indices : SplitterOf(i) # MapperOf(j)
  /\ MR!Reducer \in MR!Children /\ MR!Reducer \notin MR!Splitters
  /\ MR!Reducer \notin MR!Mappers /\ MR!Reducer[1] = "reducer"
  /\ MR!Main \notin MR!Children
BY DEF MR!Children, MR!Splitters, MR!Mappers, MR!Reducer, MR!Main, SplitterOf, MapperOf

\* The order in which main forks.
LEMMA OrderFacts ==
  /\ MR!Forked = 2 * mapper_count + 1
  /\ \A c \in MR!Children : Turn(c) \in 1 .. MR!Forked /\ MR!Order[Turn(c)] = c
  /\ \A n \in 1 .. MR!Forked : MR!Order[n] \in MR!Children /\ Turn(MR!Order[n]) = n
<1> DEFINE m == mapper_count
           s1 == [n \in 1 .. m |-> <<"splitter", n - 1>>]
           s2 == [n \in 1 .. m |-> <<"mapper", n - 1>>]
           s3 == <<MR!Reducer>>
<1>1. m \in Nat \ {0}
  BY MRNumbers
<1>2. s1 \in Seq(MR!Children) /\ s2 \in Seq(MR!Children) /\ s3 \in Seq(MR!Children)
  <2>1. \A n \in 1 .. m : n - 1 \in MR!Indices
    BY <1>1 DEF MR!Indices
  <2>2. \A n \in 1 .. m : s1[n] \in MR!Children /\ s2[n] \in MR!Children
    BY <2>1, Names DEF SplitterOf, MapperOf
  <2>3. s1 \in [1 .. m -> MR!Children] /\ s2 \in [1 .. m -> MR!Children]
    BY <2>2
  <2> QED BY <1>1, <2>3, Names
<1>3. Len(s1) = m /\ Len(s2) = m /\ Len(s3) = 1 /\ s3[1] = MR!Reducer
  BY <1>1
<1>4. PICK t1, t2, t3 : t1 = s1 /\ t2 = s2 /\ t3 = s3
  OBVIOUS
<1>5. /\ t1 \in Seq(MR!Children) /\ t2 \in Seq(MR!Children) /\ t3 \in Seq(MR!Children)
      /\ Len(t1) = m /\ Len(t2) = m /\ Len(t3) = 1 /\ t3[1] = MR!Reducer
      /\ \A n \in 1 .. m : t1[n] = SplitterOf(n - 1) /\ t2[n] = MapperOf(n - 1)
  BY <1>2, <1>3, <1>4 DEF SplitterOf, MapperOf
<1>6. MR!Order = (t1 \o t2) \o t3
  BY <1>4 DEF MR!Order
<1> HIDE DEF s1, s2, s3
<1>7. PICK t : t = t1 \o t2
  OBVIOUS
<1>8. /\ t \in Seq(MR!Children) /\ Len(t) = m + m
      /\ \A n \in 1 .. m + m : t[n] = IF n <= m THEN t1[n] ELSE t2[n - m]
  <2>1. /\ t \in Seq(MR!Children) /\ Len(t) = Len(t1) + Len(t2)
        /\ \A n \in 1 .. Len(t1) + Len(t2) : t[n] = IF n <= Len(t1) THEN t1[n] ELSE t2[n - Len(t1)]
    BY ONLY <1>5, <1>7, ConcatProperties
  <2> QED BY <1>5, <2>1
<1>9. PICK o : o = t \o t3
  OBVIOUS
<1>10. /\ Len(o) = m + m + 1
       /\ \A n \in 1 .. m + m + 1 : o[n] = IF n <= m + m THEN t[n] ELSE t3[n - (m + m)]
  <2>1. /\ Len(o) = Len(t) + Len(t3)
        /\ \A n \in 1 .. Len(t) + Len(t3) : o[n] = IF n <= Len(t) THEN t[n] ELSE t3[n - Len(t)]
    BY ONLY <1>5, <1>8, <1>9, ConcatProperties
  <2> QED BY <1>5, <1>8, <2>1
<1>11. MR!Order = o
  BY <1>6, <1>7, <1>9
<1>12. MR!Forked = 2 * m + 1
  BY <1>1, <1>10, <1>11 DEF MR!Forked
<1>13. \A n \in 1 .. m : o[n] = SplitterOf(n - 1)
  BY <1>1, <1>5, <1>8, <1>10
<1>14. \A n \in m + 1 .. m + m : o[n] = MapperOf(n - m - 1)
  <2> TAKE n \in m + 1 .. m + m
  <2>1. n \in 1 .. m + m + 1 /\ n <= m + m /\ ~(n <= m) /\ n - m \in 1 .. m /\ n \in 1 .. m + m
    BY <1>1
  <2>2. o[n] = t[n] /\ t[n] = t2[n - m]
    BY <1>8, <1>10, <2>1
  <2> QED BY <1>5, <2>1, <2>2
<1>15. o[2 * m + 1] = MR!Reducer
  BY <1>1, <1>5, <1>10
<1>16. \A i \in MR!Indices : Turn(SplitterOf(i)) = i + 1 /\ Turn(MapperOf(i)) = m + i + 1
  BY Names DEF Turn
<1>17. Turn(MR!Reducer) = 2 * m + 1
  BY DEF Turn
<1>18. \A i \in MR!Indices : i \in Nat /\ i < m
  BY <1>1 DEF MR!Indices
<1>19. ASSUME NEW c \in MR!Children PROVE Turn(c) \in 1 .. MR!Forked /\ MR!Order[Turn(c)] = c
  <2>1. CASE \E i \in MR!Indices : c = SplitterOf(i)
    <3>1. PICK i \in MR!Indices : c = SplitterOf(i)
      BY <2>1
    <3>2. PICK n : n = i + 1
      OBVIOUS
    <3>3. n \in 1 .. m /\ n - 1 = i /\ n \in 1 .. 2 * m + 1
      BY <1>1, <1>18, <3>2
    <3>4. Turn(c) = n /\ o[n] = c
      BY <1>13, <1>16, <3>1, <3>2, <3>3
    <3> QED BY <1>11, <1>12, <3>3, <3>4
  <2>2. CASE \E i \in MR!Indices : c = MapperOf(i)
    <3>1. PICK i \in MR!Indices : c = MapperOf(i)
      BY <2>2
    <3>2. PICK n : n = m + i + 1
      OBVIOUS
    <3>3. n \in m + 1 .. m + m /\ n - m - 1 = i /\ n \in 1 .. 2 * m + 1
      BY <1>1, <1>18, <3>2
    <3>4. Turn(c) = n /\ o[n] = c
      BY <1>14, <1>16, <3>1, <3>2, <3>3
    <3> QED BY <1>11, <1>12, <3>3, <3>4
  <2>3. CASE c = MR!Reducer
    BY <1>1, <1>11, <1>12, <1>15, <1>17, <2>3
  <2> QED BY <2>1, <2>2, <2>3, Kinds
<1>20. ASSUME NEW n \in 1 .. MR!Forked PROVE MR!Order[n] \in MR!Children /\ Turn(MR!Order[n]) = n
  <2>1. CASE n <= m
    <3>1. n - 1 \in MR!Indices /\ n - 1 + 1 = n /\ n \in 1 .. m
      BY <1>1, <1>12, <2>1 DEF MR!Indices
    <3> QED BY <1>11, <1>13, <1>16, <3>1, Names
  <2>2. CASE ~(n <= m) /\ n <= m + m
    <3>1. n - m - 1 \in MR!Indices /\ m + (n - m - 1) + 1 = n /\ n \in m + 1 .. m + m
      BY <1>1, <1>12, <2>2 DEF MR!Indices
    <3> QED BY <1>11, <1>14, <1>16, <3>1, Names
  <2>3. CASE ~(n <= m + m)
    <3>1. n = 2 * m + 1
      BY <1>1, <1>12, <2>3
    <3> QED BY <1>11, <1>15, <1>17, <3>1, Names
  <2> QED BY <1>1, <2>1, <2>2, <2>3
<1> QED BY <1>12, <1>19, <1>20

---------------------------------------------------------------------------
(* The portions: disjoint, and together all the lines.                     *)

LEMMA NextLine ==
  ASSUME length \in Nat, newlines \in SUBSET (0 .. length - 1),
         NEW p \in Nat, NEW q \in Nat, p <= q
  PROVE  MR!nextLine(p) \in Nat /\ MR!nextLine(p) <= MR!nextLine(q)
<1> DEFINE ends(r) == {e \in r + 1 .. length : e = length \/ e - 1 \in newlines}
           n(r) == IF ends(r) = {} THEN length
                   ELSE CHOOSE e \in ends(r) : \A f \in ends(r) : e <= f
<1>1. \A r \in Nat : ends(r) \in SUBSET Nat /\ \A e \in ends(r) : e <= length
  OBVIOUS
<1>2. ends(q) \subseteq ends(p)
  OBVIOUS
<1>3. MR!nextLine(p) = n(p) /\ MR!nextLine(q) = n(q)
  BY DEF MR!nextLine
<1> HIDE DEF ends
<1>4. ASSUME NEW r \in Nat, ends(r) # {}
      PROVE  n(r) \in ends(r) /\ \A f \in ends(r) : n(r) <= f
  <2>1. \E e \in ends(r) : \A f \in ends(r) : e <= f
    BY <1>1, <1>4, LeastNumber
  <2> QED BY <1>4, <2>1
<1>5. CASE ends(q) = {}
  <2>1. n(q) = length
    BY <1>5
  <2>2. n(p) \in Nat /\ n(p) <= length
    BY <1>1, <1>4
  <2> QED BY <1>3, <2>1, <2>2
<1>6. CASE ends(q) # {}
  <2>1. n(q) \in ends(q) /\ n(p) \in ends(p) /\ \A f \in ends(p) : n(p) <= f
    BY <1>2, <1>4, <1>6
  <2> QED BY <1>1, <1>2, <1>3, <2>1
<1> QED BY <1>5, <1>6

LEMMA StartOffset ==
  ASSUME length \in Nat, NEW i \in Nat, NEW j \in Nat, i <= j
  PROVE  /\ MR!start_offset(i) \in Nat /\ MR!start_offset(j) \in Nat
         /\ MR!start_offset(i) <= MR!start_offset(j)
<1>1. PICK a, b : a = length * i /\ b = length * j
  OBVIOUS
<1>2. a \in Nat /\ b \in Nat /\ a <= b
  <2>1. j - i \in Nat /\ length * (j - i) \in Nat
    OBVIOUS
  <2>2. b = a + length * (j - i)
    BY <1>1
  <2>3. a \in Nat
    BY <1>1
  <2> QED BY <2>1, <2>2, <2>3
<1> QED BY <1>1, <1>2, MRNumbers, DivMonotonic DEF MR!start_offset

LEMMA StartPtr ==
  ASSUME length \in Nat, newlines \in SUBSET (0 .. length - 1),
         NEW i \in Nat, NEW j \in Nat, i <= j
  PROVE  MR!start_ptr(i) \in Nat /\ MR!start_ptr(j) \in Nat /\ MR!start_ptr(i) <= MR!start_ptr(j)
<1>1. /\ MR!start_offset(i) \in Nat /\ MR!start_offset(j) \in Nat
      /\ MR!start_offset(i) <= MR!start_offset(j)
  BY StartOffset
<1>2. /\ MR!nextLine(MR!start_offset(i)) \in Nat /\ MR!nextLine(MR!start_offset(j)) \in Nat
      /\ MR!nextLine(MR!start_offset(i)) <= MR!nextLine(MR!start_offset(j))
  BY <1>1, NextLine
<1>3. CASE i = 0
  BY <1>2, <1>3 DEF MR!start_ptr
<1>4. CASE i # 0
  <2>1. j # 0
    BY <1>4
  <2> QED BY <1>2, <1>4, <2>1 DEF MR!start_ptr
<1> QED BY <1>3, <1>4

\* A portion ends where the next one starts.
LEMMA EndPtr ==
  ASSUME NEW i \in MR!Indices
  PROVE  /\ i = mapper_count - 1 => MR!end_ptr(i) = length
         /\ i # mapper_count - 1 => i + 1 \in MR!Indices /\ MR!end_ptr(i) = MR!start_ptr(i + 1)
<1>1. i \in Nat /\ i < mapper_count
  BY MRNumbers DEF MR!Indices
<1>2. i # mapper_count - 1 => i + 1 \in MR!Indices /\ i + 1 # 0
  BY <1>1, MRNumbers DEF MR!Indices
<1> QED BY <1>1, <1>2 DEF MR!end_ptr, MR!start_ptr

LEMMA PortionsApart ==
  ASSUME length \in Nat, newlines \in SUBSET (0 .. length - 1),
         NEW i \in MR!Indices, NEW j \in MR!Indices, i # j
  PROVE  MR!portion(i) \cap MR!portion(j) = {}
<1>1. ASSUME NEW a \in MR!Indices, NEW b \in MR!Indices, a < b, NEW l \in MR!portion(a),
             l \in MR!portion(b)
      PROVE  FALSE
  <2>1. a \in Nat /\ b \in Nat /\ b < mapper_count
    BY MRNumbers DEF MR!Indices
  <2>2. a # mapper_count - 1 /\ a + 1 <= b /\ a + 1 \in Nat
    BY <1>1, <2>1, MRNumbers
  <2>3. MR!start_ptr(a + 1) \in Nat /\ MR!start_ptr(b) \in Nat /\ MR!start_ptr(a + 1) <= MR!start_ptr(b)
    BY <2>1, <2>2, StartPtr
  <2>4. l \in Nat
    BY <1>1 DEF MR!portion, MR!Lines
  <2>5. l < MR!start_ptr(a + 1) /\ MR!start_ptr(b) <= l
    BY <1>1, <2>2, EndPtr DEF MR!portion
  <2> QED BY <2>3, <2>4, <2>5
<1>2. i < j \/ j < i
  BY MRNumbers DEF MR!Indices
<1> QED BY <1>1, <1>2

LEMMA PortionsCover ==
  ASSUME length \in Nat, newlines \in SUBSET (0 .. length - 1), NEW l \in MR!Lines
  PROVE  \E i \in MR!Indices : l \in MR!portion(i)
<1> DEFINE behind == {k \in Nat : k >= mapper_count \/ MR!start_ptr(k) > l}
<1>1. l \in Nat /\ l < length
  BY DEF MR!Lines
<1>2. mapper_count \in behind /\ behind \in SUBSET Nat
  BY MRNumbers
<1>3. PICK k \in behind : \A n \in behind : k <= n
  BY <1>2, LeastNumber
<1>4. k # 0
  BY <1>1, MRNumbers DEF MR!start_ptr
<1>5. k \in Nat /\ k <= mapper_count
  BY <1>2, <1>3
<1>6. k - 1 \in MR!Indices /\ k - 1 \in Nat
  BY <1>4, <1>5, MRNumbers DEF MR!Indices
<1>7. k - 1 \notin behind
  BY <1>3, <1>5, <1>6
<1>8. MR!start_ptr(k - 1) <= l
  <2>1. MR!start_ptr(k - 1) \in Nat
    BY <1>6, StartPtr
  <2> QED BY <1>1, <1>6, <1>7, <2>1
<1>9. l < MR!end_ptr(k - 1)
  <2>1. CASE k = mapper_count
    BY <1>1, <1>6, <2>1, EndPtr
  <2>2. CASE k # mapper_count
    <3>1. MR!start_ptr(k) > l
      BY <1>3, <1>5, <2>2, MRNumbers
    <3>2. MR!end_ptr(k - 1) = MR!start_ptr(k)
      <4>1. k - 1 # mapper_count - 1 /\ k - 1 + 1 = k
        BY <1>5, <2>2, MRNumbers
      <4> QED BY <1>6, <4>1, EndPtr
    <3> QED BY <3>1, <3>2
  <2> QED BY <2>1, <2>2
<1> QED BY <1>6, <1>8, <1>9 DEF MR!portion

\* A finite set of numbers can be put in order: a smallest one that cannot has a
\* least number, and the rest of it can.
LEMMA CanBeSorted ==
  ASSUME NEW S \in SUBSET Nat, IsFiniteSet(S)
  PROVE  \E s \in [1 .. Cardinality(S) -> S] :
            {s[k] : k \in 1 .. Cardinality(S)} = S /\ \A j, k \in 1 .. Cardinality(S) : j < k => s[j] < s[k]
<1> DEFINE sorts(s, T) == /\ s \in [1 .. Cardinality(T) -> T]
                          /\ {s[k] : k \in 1 .. Cardinality(T)} = T
                          /\ \A j, k \in 1 .. Cardinality(T) : j < k => s[j] < s[k]
           bad == {T \in FiniteSubsetsOf(Nat) : ~\E s : sorts(s, T)}
<1>1. SUFFICES ASSUME bad # {} PROVE FALSE
  BY DEF FiniteSubsetsOf
<1>2. IsWellFoundedOn(StrictSubsetOrdering(Nat), FiniteSubsetsOf(Nat))
  BY FS_StrictSubsetOrderingWellFounded
<1>3. bad \subseteq FiniteSubsetsOf(Nat)
  OBVIOUS
<1>4. PICK T \in bad : \A U \in bad : <<U, T>> \notin StrictSubsetOrdering(Nat)
  <2> HIDE DEF bad
  <2> QED BY <1>1, <1>2, <1>3, WFMin
<1>5. T \in SUBSET Nat /\ IsFiniteSet(T) /\ ~\E s : sorts(s, T)
  BY <1>4 DEF FiniteSubsetsOf
<1>6. T # {}
  <2>1. Cardinality({}) = 0
    BY FS_EmptySet
  <2>2. sorts([k \in 1 .. 0 |-> 0], {})
    BY <2>1
  <2> QED BY <1>5, <2>2
<1>7. PICK x \in T : \A y \in T : x <= y
  BY <1>5, <1>6, LeastNumber
<1>8. PICK U : U = T \ {x}
  OBVIOUS
<1>9. IsFiniteSet(U) /\ Cardinality(U) = Cardinality(T) - 1 /\ Cardinality(U) \in Nat /\ Cardinality(T) \in Nat
  BY <1>5, <1>7, <1>8, FS_RemoveElement, FS_CardinalityType
<1>10. U \in FiniteSubsetsOf(Nat) /\ <<U, T>> \in StrictSubsetOrdering(Nat)
  BY <1>5, <1>7, <1>8, <1>9 DEF FiniteSubsetsOf, StrictSubsetOrdering
<1>11. \E s : sorts(s, U)
  <2> HIDE DEF sorts
  <2> QED BY <1>4, <1>10
<1>12. PICK s : sorts(s, U)
  BY <1>11
<1>13. PICK n \in Nat : n = Cardinality(U)
  BY <1>9
<1>14. Cardinality(T) = n + 1
  BY <1>9, <1>13
<1>15. /\ s \in [1 .. n -> U] /\ {s[k] : k \in 1 .. n} = U
       /\ \A j, k \in 1 .. n : j < k => s[j] < s[k]
  BY <1>12, <1>13
<1> HIDE DEF sorts, bad
<1>16. PICK t : t = [k \in 1 .. n + 1 |-> IF k = 1 THEN x ELSE s[k - 1]]
  OBVIOUS
<1>17. t \in [1 .. n + 1 -> T]
  BY <1>7, <1>8, <1>15, <1>16
<1>18. \A y \in T : \E k \in 1 .. n + 1 : t[k] = y
  <2> TAKE y \in T
  <2>1. CASE y = x
    BY <1>16, <2>1
  <2>2. CASE y # x
    <3>1. PICK k \in 1 .. n : s[k] = y
      BY <1>8, <1>15, <2>2
    <3>2. PICK p : p = k + 1
      OBVIOUS
    <3>3. p \in 1 .. n + 1 /\ p # 1 /\ p - 1 = k
      BY <3>2
    <3> QED BY <1>16, <3>1, <3>3
  <2> QED BY <2>1, <2>2
<1>19. ASSUME NEW j \in 1 .. n + 1, NEW k \in 1 .. n + 1, j < k PROVE t[j] < t[k]
  <2>1. k # 1 /\ k - 1 \in 1 .. n
    BY <1>19
  <2>2. t[k] = s[k - 1] /\ s[k - 1] \in T /\ s[k - 1] # x
    BY <1>8, <1>15, <1>16, <2>1
  <2>3. CASE j = 1
    <3>1. x <= s[k - 1] /\ x \in Nat /\ s[k - 1] \in Nat
      BY <1>5, <1>7, <2>2
    <3> QED BY <1>16, <2>2, <2>3, <3>1
  <2>4. CASE j # 1
    <3>1. j - 1 \in 1 .. n /\ j - 1 < k - 1
      BY <1>19, <2>4
    <3> QED BY <1>15, <1>16, <2>1, <2>2, <2>4, <3>1
  <2> QED BY <2>3, <2>4
<1>20. {t[k] : k \in 1 .. n + 1} = T
  BY <1>17, <1>18
<1>21. sorts(t, T)
  BY <1>14, <1>17, <1>19, <1>20 DEF sorts
<1> QED BY <1>5, <1>21

\* What a splitter writes.
LEMMA WritePortion ==
  ASSUME length \in Nat, NEW i \in MR!Indices
  PROVE  /\ MR!write_portion(i) \in Seq(MR!Lines) /\ Distinct(MR!write_portion(i))
         /\ Items(MR!write_portion(i)) = MR!portion(i)
<1> DEFINE P == MR!portion(i)
           N == Cardinality(P)
           ordered(s) == MR!Range(s) = P /\ \A j, k \in DOMAIN s : j < k => s[j] < s[k]
<1>1. P \in SUBSET Nat /\ P \in SUBSET MR!Lines /\ P \in SUBSET (0 .. length - 1)
  BY DEF MR!portion, MR!Lines
<1>2. IsFiniteSet(0 .. length - 1)
  <2>1. 0 \in Int /\ length - 1 \in Int
    OBVIOUS
  <2> QED BY ONLY <2>1, FS_Interval
<1>3. IsFiniteSet(P)
  BY <1>1, <1>2, FS_Subset
<1>4. N \in Nat
  BY <1>3, FS_CardinalityType
<1>5. MR!write_portion(i) = CHOOSE s \in [1 .. N -> P] : ordered(s)
  <2>1. MR!Cardinality(P) = Cardinality(P)
    BY DEF MR!Cardinality, Cardinality
  <2> QED BY <2>1, Zenon DEF MR!write_portion
<1>6. PICK r \in [1 .. N -> P] :
         {r[k] : k \in 1 .. N} = P /\ \A j, k \in 1 .. N : j < k => r[j] < r[k]
  <2>1. PICK Q : Q = P
    OBVIOUS
  <2>2. \E s \in [1 .. Cardinality(Q) -> Q] :
           /\ {s[k] : k \in 1 .. Cardinality(Q)} = Q
           /\ \A j, k \in 1 .. Cardinality(Q) : j < k => s[j] < s[k]
    BY <1>1, <1>3, <2>1, CanBeSorted
  <2> QED BY <2>1, <2>2
<1>7. ordered(r)
  BY <1>6 DEF MR!Range
<1>8. PICK w : w = MR!write_portion(i)
  OBVIOUS
<1>9. w \in [1 .. N -> P] /\ ordered(w)
  <2> HIDE DEF ordered, P, N
  <2> QED BY <1>5, <1>6, <1>7, <1>8
<1>10. /\ w \in [1 .. N -> P] /\ {w[k] : k \in 1 .. N} = P
       /\ \A j, k \in 1 .. N : j < k => w[j] < w[k]
  BY <1>9 DEF MR!Range
<1> HIDE DEF P, N, ordered
<1>11. w \in Seq(MR!Lines) /\ Len(w) = N
  <2>1. w \in Seq(P) /\ Len(w) = N
    BY <1>4, <1>10
  <2> QED BY <1>1, <2>1, SeqMonotonic
<1>12. Distinct(w)
  <2>1. ASSUME NEW j \in 1 .. N, NEW k \in 1 .. N, w[j] = w[k], j # k PROVE FALSE
    <3>1. j \in Nat /\ k \in Nat /\ (j < k \/ k < j)
      BY <1>4, <2>1
    <3>2. w[j] \in Nat /\ w[k] \in Nat
      BY <1>1, <1>10, <2>1
    <3>3. w[j] < w[k] \/ w[k] < w[j]
      BY <1>10, <2>1, <3>1
    <3> QED BY <2>1, <3>2, <3>3
  <2> QED BY <1>11, <2>1 DEF Distinct
<1>13. Items(w) = P
  BY <1>10, <1>11 DEF Items
<1> QED BY <1>8, <1>11, <1>12, <1>13 DEF P

---------------------------------------------------------------------------
(* Lines move from the head of one sequence to the end of another.         *)

LEMMA NoItems ==
  /\ Items(<<>>) = {} /\ Distinct(<<>>)
  /\ \A s : s \in Seq(MR!Lines) /\ Items(s) = {} => s = <<>>
  /\ \A x : Items(<<x>>) = {x} /\ Distinct(<<x>>)
<1>1. Items(<<>>) = {} /\ Distinct(<<>>)
  BY DEF Items, Distinct
<1>2. ASSUME NEW s \in Seq(MR!Lines), Items(s) = {} PROVE s = <<>>
  <2>1. Len(s) \in Nat /\ ~(1 \in 1 .. Len(s))
    BY <1>2 DEF Items
  <2> QED BY <2>1, EmptySeq
<1>3. ASSUME NEW x PROVE Items(<<x>>) = {x} /\ Distinct(<<x>>)
  BY DEF Items, Distinct
<1> QED BY <1>1, <1>2, <1>3

LEMMA TakeHead ==
  ASSUME NEW s \in Seq(MR!Lines), s # <<>>, Distinct(s)
  PROVE  /\ Head(s) \in MR!Lines /\ Head(s) \in Items(s)
         /\ Tail(s) \in Seq(MR!Lines) /\ Distinct(Tail(s))
         /\ Items(Tail(s)) = Items(s) \ {Head(s)}
<1>1. /\ Head(s) \in MR!Lines /\ Tail(s) \in Seq(MR!Lines)
      /\ Len(Tail(s)) = Len(s) - 1
      /\ \A i \in 1 .. Len(Tail(s)) : Tail(s)[i] = s[i+1]
  BY HeadTailProperties
<1>2. PICK t, n : t = Tail(s) /\ n = Len(s)
  OBVIOUS
<1>3. n \in Nat /\ n # 0 /\ Head(s) = s[1] /\ Len(t) = n - 1
  BY <1>1, <1>2, EmptySeq
<1>4. \A i \in 1 .. n - 1 : t[i] = s[i+1] /\ i + 1 \in 1 .. n
  BY <1>1, <1>2, <1>3
<1>5. \A j, k \in 1 .. n : s[j] = s[k] => j = k
  BY <1>2 DEF Distinct
<1>6. Distinct(t)
  <2>1. ASSUME NEW j \in 1 .. n - 1, NEW k \in 1 .. n - 1, t[j] = t[k] PROVE j = k
    BY <1>3, <1>4, <1>5, <2>1
  <2> QED BY <1>3, <2>1 DEF Distinct
<1>7. Items(s) = {s[j] : j \in 1 .. n} /\ Items(t) = {t[j] : j \in 1 .. n - 1}
  BY <1>2, <1>3 DEF Items
<1>8. s[1] \in Items(s) /\ 1 \in 1 .. n
  BY <1>3, <1>7
<1>9. ASSUME NEW x PROVE x \in Items(t) <=> x \in Items(s) /\ x # s[1]
  <2>1. ASSUME x \in Items(t) PROVE x \in Items(s) /\ x # s[1]
    <3>1. PICK j \in 1 .. n - 1 : x = t[j]
      BY <1>7, <2>1
    <3>2. x = s[j + 1] /\ j + 1 \in 1 .. n /\ j + 1 # 1
      BY <1>4, <3>1
    <3> QED BY <1>5, <1>7, <1>8, <3>2
  <2>2. ASSUME x \in Items(s), x # s[1] PROVE x \in Items(t)
    <3>1. PICK j \in 1 .. n : x = s[j]
      BY <1>7, <2>2
    <3>2. j - 1 \in 1 .. n - 1 /\ j - 1 + 1 = j
      BY <1>3, <2>2, <3>1
    <3>3. t[j - 1] = x
      BY <1>4, <3>1, <3>2
    <3> QED BY <1>7, <3>2, <3>3
  <2> QED BY <2>1, <2>2
<1> QED BY <1>1, <1>2, <1>3, <1>6, <1>8, <1>9

LEMMA PutLast ==
  ASSUME NEW s \in Seq(MR!Lines), NEW x \in MR!Lines, x \notin Items(s), Distinct(s)
  PROVE  /\ Append(s, x) \in Seq(MR!Lines) /\ Distinct(Append(s, x))
         /\ Items(Append(s, x)) = Items(s) \cup {x}
<1>1. PICK t, n : t = Append(s, x) /\ n = Len(s)
  OBVIOUS
<1>2. /\ t \in Seq(MR!Lines) /\ Len(t) = n + 1 /\ n \in Nat
      /\ (\A i \in 1 .. n : t[i] = s[i]) /\ t[n + 1] = x
  BY <1>1, AppendProperties
<1>3. Items(s) = {s[j] : j \in 1 .. n} /\ Items(t) = {t[j] : j \in 1 .. n + 1}
  BY <1>1, <1>2 DEF Items
<1>4. \A j, k \in 1 .. n : s[j] = s[k] => j = k
  BY <1>1 DEF Distinct
<1>5. \A j \in 1 .. n : s[j] # x
  BY <1>3
<1>6. ASSUME NEW j \in 1 .. n + 1, NEW k \in 1 .. n + 1, t[j] = t[k] PROVE j = k
  <2>1. (j \in 1 .. n \/ j = n + 1) /\ (k \in 1 .. n \/ k = n + 1)
    BY <1>2
  <2> QED BY <1>2, <1>4, <1>5, <1>6, <2>1
<1>7. Distinct(t)
  BY <1>2, <1>6 DEF Distinct
<1>8. Items(t) = Items(s) \cup {x}
  <2>1. \A j \in 1 .. n + 1 : j \in 1 .. n \/ j = n + 1
    BY <1>2
  <2>2. n + 1 \in 1 .. n + 1 /\ \A j \in 1 .. n : j \in 1 .. n + 1
    BY <1>2
  <2> QED BY <1>2, <1>3, <2>1, <2>2
<1> QED BY <1>1, <1>2, <1>7, <1>8

LEMMA StageSend ==
  ASSUME NEW i, NEW fr, NEW a, NEW b, NEW d, NEW e, NEW f, Stage(i, fr, a, b, d, e, f), NEW h \in a
  PROVE  Stage(i, fr, a \ {h}, b \cup {h}, d, e, f)
BY DEF Stage

LEMMA StageMap ==
  ASSUME NEW i, NEW fr, NEW a, NEW b, NEW e, NEW f, Stage(i, fr, a, b, {}, e, f), NEW h \in b
  PROVE  Stage(i, fr, a, b \ {h}, {h}, e, f)
BY DEF Stage

LEMMA StageEmit ==
  ASSUME NEW i, NEW fr, NEW a, NEW b, NEW d, NEW e, NEW f, Stage(i, fr, a, b, d, e, f), NEW h \in d
  PROVE  Stage(i, fr, a, b, d \ {h}, e \cup {h}, f)
BY DEF Stage

\* A line of another portion comes out.
LEMMA StageOther ==
  ASSUME NEW i, NEW fr, NEW a, NEW b, NEW d, NEW e, NEW f, Stage(i, fr, a, b, d, e, f),
         NEW h, h \notin MR!portion(i)
  PROVE  Stage(i, fr, a, b, d, e \cup {h}, f)
BY DEF Stage

LEMMA StageRead ==
  ASSUME NEW i, NEW fr, NEW a, NEW b, NEW d, NEW e, NEW f, Stage(i, fr, a, b, d, e, f), NEW h \in e
  PROVE  Stage(i, fr, a, b, d, e \ {h}, f \cup {h})
BY DEF Stage

---------------------------------------------------------------------------
(* What a step leaves alone.                                               *)

LEMMA SameFile ==
  ASSUME UNCHANGED <<newlines, length>>
  PROVE  MR!Lines' = MR!Lines /\ \A i : MR!portion(i)' = MR!portion(i)
<1>1. newlines' = newlines /\ length' = length
  OBVIOUS
<1>2. MR!Lines' = MR!Lines
  BY <1>1 DEF MR!Lines
<1>3. \A p : MR!nextLine(p)' = MR!nextLine(p)
  BY <1>1 DEF MR!nextLine
<1>4. \A i : MR!start_ptr(i)' = MR!start_ptr(i) /\ MR!end_ptr(i)' = MR!end_ptr(i)
  BY <1>1 DEF MR!start_ptr, MR!end_ptr, MR!start_offset, MR!nextLine
<1> QED BY <1>2, <1>4 DEF MR!portion

\* Where the lines of a portion are after a step.
LEMMA StageNext ==
  ASSUME UNCHANGED <<newlines, length, missing>>, NEW i,
         NEW fr, NEW a, NEW b, NEW d, NEW e, NEW f, Stage(i, fr, a, b, d, e, f),
         Fresh(SplitterOf(i))' <=> fr,
         a = Items(todo'[SplitterOf(i)]), b = Items(pipe'[i]), d = Items(todo'[MapperOf(i)]),
         e = Items(pipe'[mapper_count]), f = ReadLines(output')
  PROVE  StageOK(i)'
<1>1. MR!portion(i)' = MR!portion(i) /\ missing' = missing
  BY SameFile
<1>2. /\ a = Items(todo[SplitterOf(i)])' /\ b = Items(pipe[i])' /\ d = Items(todo[MapperOf(i)])'
      /\ e = Items(pipe[mapper_count])' /\ f = ReadLines(output)'
  BY DEF Items, ReadLines
<1>3. Stage(i, Fresh(SplitterOf(i))', a, b, d, e, f)
  BY DEF Stage
<1> QED BY <1>1, <1>2, <1>3 DEF StageOK, Stage

LEMMA SameFlow ==
  ASSUME MRInv, UNCHANGED <<newlines, length, missing, todo, pipe, output>>,
         \A c \in MR!Children : /\ Fresh(c)' => Fresh(c)
                                /\ missing = {} => (Fresh(c)' <=> Fresh(c))
  PROVE  FlowOK'
<1>1. FlowOK
  BY DEF MRInv
<1>2. MR!Lines' = MR!Lines /\ \A i : MR!portion(i)' = MR!portion(i)
  BY SameFile
<1>3. MR!Indices' = MR!Indices /\ MR!Children' = MR!Children /\ MR!Pipes' = MR!Pipes
  OBVIOUS
<1>4. todo' = todo /\ pipe' = pipe /\ output' = output /\ missing' = missing
  OBVIOUS
<1>5. ASSUME NEW i \in MR!Indices PROVE StageOK(i)'
  <2>1. StageOK(i)
    BY <1>1 DEF FlowOK
  <2>2. SplitterOf(i) \in MR!Children
    BY Names
  <2> QED BY <1>2, <1>4, <2>1, <2>2 DEF StageOK, Stage
<1>6. \A c \in MR!Children : Distinct(todo[c]) /\ (Fresh(c)' => todo[c] = <<>>)
  BY <1>1 DEF FlowOK
<1>7. \A c \in MR!Children : Distinct(todo[c])' /\ (Fresh(c)' => todo'[c] = <<>>)
  BY <1>4, <1>6 DEF Distinct
<1> QED BY <1>1, <1>2, <1>4, <1>5, <1>7 DEF FlowOK, Distinct, Items, ReadLines

LEMMA SomeTypes ==
  ASSUME MRInv
  PROVE  /\ length \in Nat /\ newlines \in SUBSET (0 .. length - 1) /\ step \in Nat
         /\ MR!Lines \in SUBSET (0 .. MaxLength - 1)
         /\ MR!Indices \subseteq MR!Pipes /\ mapper_count \in MR!Pipes
         /\ \A i \in MR!Indices : i # mapper_count
         /\ \A c \in MR!Children : todo[c] \in Seq(MR!Lines) /\ life[c] \in Lives
         /\ \A k \in MR!Pipes : pipe[k] \in Seq(MR!Lines)
<1>1. MRShape
  BY DEF MRInv
<1>2. length \in Nat /\ length <= MaxLength /\ newlines \in SUBSET (0 .. length - 1)
  BY <1>1, MRNumbers DEF MRShape
<1>3. step \in Nat
  BY <1>1, MRNumbers, OrderFacts DEF MRShape
<1>4. MR!Lines \in SUBSET (0 .. MaxLength - 1)
  BY <1>2, MRNumbers DEF MR!Lines
<1>5. /\ MR!Indices \subseteq MR!Pipes /\ mapper_count \in MR!Pipes
      /\ \A i \in MR!Indices : i # mapper_count
  BY MRNumbers DEF MR!Indices, MR!Pipes
<1> QED BY <1>1, <1>2, <1>3, <1>4, <1>5 DEF MRShape

LEMMA LivesGo ==
  ASSUME MRInv, UNCHANGED <<step, missing, reported>>, NEW c \in MR!Children, NEW v,
         life' = [life EXCEPT ![c] = v],
         life[c] \in {"forked", "running"}, v \in {"running", "exited", "killed"},
         c[1] \in missing => v = "exited"
  PROVE  LivesOK'
<1>1. LivesOK /\ life \in [MR!Children -> Lives]
  BY DEF MRInv, MRShape
<1>2. \A d \in MR!Children : life'[d] = IF d = c THEN v ELSE life[d]
  BY <1>1
<1>3. \A d \in MR!Children : /\ life'[d] = "unborn" <=> life[d] = "unborn"
                             /\ life'[d] = "reaped" <=> life[d] = "reaped"
                             /\ d[1] \in missing => life'[d] \notin {"running", "killed"}
  BY <1>1, <1>2 DEF LivesOK
<1>4. step' = step /\ missing' = missing /\ reported' = reported
  OBVIOUS
<1> QED BY <1>1, <1>3, <1>4 DEF LivesOK

LEMMA LivesSame ==
  ASSUME MRInv, UNCHANGED <<step, missing, reported, life>>
  PROVE  LivesOK'
BY DEF MRInv, LivesOK

LEMMA EndsSame ==
  ASSUME MRInv, UNCHANGED <<step, ends_of, stdin, stdout, life>>
  PROVE  EndsOK'
BY DEF MRInv, EndsOK

LEMMA EndsGone ==
  ASSUME MRInv, UNCHANGED step, NEW c \in MR!Children, NEW how, MR!Gone(c, how),
         how \in {"exited", "killed"}
  PROVE  EndsOK' /\ life' \in [MR!Children -> Lives]
         /\ ends_of' \in [MR!Children \cup {MR!Main} -> SUBSET AllEnds]
         /\ stdin' \in [MR!Children -> AllEnds \cup {MR!NoEnd}]
         /\ stdout' \in [MR!Children -> AllEnds \cup {MR!NoEnd}]
<1>1. EndsOK /\ MRShape
  BY DEF MRInv
<1>2. /\ life' = [life EXCEPT ![c] = how] /\ ends_of' = [ends_of EXCEPT ![c] = {}]
      /\ stdin' = [stdin EXCEPT ![c] = MR!NoEnd] /\ stdout' = [stdout EXCEPT ![c] = MR!NoEnd]
  BY DEF MR!Gone
<1>3. /\ life' \in [MR!Children -> Lives]
      /\ ends_of' \in [MR!Children \cup {MR!Main} -> SUBSET AllEnds]
      /\ stdin' \in [MR!Children -> AllEnds \cup {MR!NoEnd}]
      /\ stdout' \in [MR!Children -> AllEnds \cup {MR!NoEnd}]
  BY <1>1, <1>2 DEF MRShape, Lives
<1>4. ends_of'[MR!Main] = ends_of[MR!Main] /\ step' = step
  BY <1>1, <1>2, Names DEF MRShape
<1>5. \A d \in MR!Children : /\ life'[d] = IF d = c THEN how ELSE life[d]
                             /\ ends_of'[d] = IF d = c THEN {} ELSE ends_of[d]
                             /\ stdin'[d] = IF d = c THEN MR!NoEnd ELSE stdin[d]
                             /\ stdout'[d] = IF d = c THEN MR!NoEnd ELSE stdout[d]
  BY <1>1, <1>2 DEF MRShape
<1>6. \A d \in MR!Children :
        /\ ends_of'[d] = IF life'[d] = "forked" THEN AllEnds ELSE {}
        /\ stdin'[d] = IF life'[d] = "running" THEN MR!Setup(d).in ELSE MR!NoEnd
        /\ stdout'[d] = IF life'[d] = "running" THEN MR!Setup(d).out ELSE MR!NoEnd
  BY <1>1, <1>5 DEF EndsOK
<1> QED BY <1>1, <1>3, <1>4, <1>6 DEF EndsOK

\* The ends that a child will use are open until it is over.
LEMMA HeldUntilOver ==
  ASSUME MRInv, NEW c \in MR!Children, ~Over(c), NEW e \in AllEnds,
         e \in {MR!Setup(c).in, MR!Setup(c).out}
  PROVE  MR!Held(e)
<1>1. MRShape /\ EndsOK /\ LivesOK
  BY DEF MRInv
<1>2. life[c] \in {"unborn", "forked", "running"}
  BY <1>1 DEF MRShape, Lives, Over
<1>3. CASE life[c] = "unborn"
  <2>1. step <= MR!Forked
    <3>1. step < Turn(c) /\ Turn(c) \in 1 .. MR!Forked /\ MR!Forked \in Nat
      BY <1>1, <1>3, OrderFacts, MRNumbers DEF LivesOK
    <3> QED BY <3>1, SomeTypes
  <2>2. e \in ends_of[MR!Main]
    BY <1>1, <2>1 DEF EndsOK
  <2> QED BY <2>2 DEF MR!Held, MR!Holds
<1>4. CASE life[c] = "forked"
  <2>1. e \in ends_of[c]
    BY <1>1, <1>4 DEF EndsOK
  <2> QED BY <2>1 DEF MR!Held, MR!Holds
<1>5. CASE life[c] = "running"
  <2>1. e \in {stdin[c], stdout[c]} /\ c # MR!Main
    BY <1>1, <1>5, Names DEF EndsOK
  <2> QED BY <2>1 DEF MR!Held, MR!Holds
<1> QED BY <1>2, <1>3, <1>4, <1>5

LEMMA Setups ==
  /\ \A i \in MR!Indices :
       /\ MR!Setup(SplitterOf(i)).in = MR!NoEnd /\ MR!Setup(SplitterOf(i)).out = MR!W(i)
       /\ MR!Setup(MapperOf(i)).in = MR!R(i) /\ MR!Setup(MapperOf(i)).out = MR!W(mapper_count)
  /\ MR!Setup(MR!Reducer).in = MR!R(mapper_count) /\ MR!Setup(MR!Reducer).out = MR!NoEnd
  /\ \A k \in MR!Pipes : /\ MR!R(k) \in AllEnds /\ MR!W(k) \in AllEnds
                         /\ MR!R(k)[1] = k /\ MR!W(k)[1] = k
  /\ \A c \in MR!Children : /\ MR!Setup(c).in \in AllEnds \cup {MR!NoEnd}
                            /\ MR!Setup(c).out \in AllEnds \cup {MR!NoEnd}
<1>1. \A k \in MR!Pipes : /\ MR!R(k) \in AllEnds /\ MR!W(k) \in AllEnds
                          /\ MR!R(k)[1] = k /\ MR!W(k)[1] = k
  BY DEF MR!R, MR!W, AllEnds
<1>2. ASSUME NEW i \in MR!Indices
      PROVE  /\ MR!Setup(SplitterOf(i)).in = MR!NoEnd /\ MR!Setup(SplitterOf(i)).out = MR!W(i)
             /\ MR!Setup(MapperOf(i)).in = MR!R(i) /\ MR!Setup(MapperOf(i)).out = MR!W(mapper_count)
  <2>1. MR!Setup(SplitterOf(i)) = [in |-> MR!NoEnd, out |-> MR!W(i)]
    BY Names DEF MR!Setup
  <2>2. MR!Setup(MapperOf(i)) = [in |-> MR!R(i), out |-> MR!W(mapper_count)]
    BY Names DEF MR!Setup, MR!reducer_pipe
  <2> QED BY <2>1, <2>2
<1>3. MR!Setup(MR!Reducer).in = MR!R(mapper_count) /\ MR!Setup(MR!Reducer).out = MR!NoEnd
  <2>1. MR!Setup(MR!Reducer) = [in |-> MR!R(mapper_count), out |-> MR!NoEnd]
    BY Names DEF MR!Setup, MR!reducer_pipe
  <2> QED BY <2>1
<1>4. MR!Indices \subseteq MR!Pipes /\ mapper_count \in MR!Pipes
  BY DEF MR!Pipes
<1>5. ASSUME NEW c \in MR!Children
      PROVE  /\ MR!Setup(c).in \in AllEnds \cup {MR!NoEnd}
             /\ MR!Setup(c).out \in AllEnds \cup {MR!NoEnd}
  BY <1>1, <1>2, <1>3, <1>4, Kinds
<1> QED BY <1>1, <1>2, <1>3, <1>5

---------------------------------------------------------------------------
(* Each step.                                                              *)

LEMMA MRInit == MR!Init => MRInv
<1> SUFFICES ASSUME MR!Init PROVE MRInv
  OBVIOUS
<1>1. MRShape
  <2>1. length \in 0 .. MaxLength /\ newlines \in SUBSET (0 .. length - 1)
    BY DEF MR!Init
  <2>2. step = 0 /\ step \in 0 .. 2 * MR!Forked + 1
    BY OrderFacts, MRNumbers DEF MR!Init
  <2>3. /\ life \in [MR!Children -> Lives]
        /\ ends_of \in [MR!Children \cup {MR!Main} -> SUBSET AllEnds]
        /\ stdin \in [MR!Children -> AllEnds \cup {MR!NoEnd}] /\ stdout = stdin
    BY DEF MR!Init, Lives, AllEnds
  <2>4. /\ todo \in [MR!Children -> Seq(MR!Lines)] /\ pipe \in [MR!Pipes -> Seq(MR!Lines)]
    BY EmptySeq DEF MR!Init
  <2>5. output \in [0 .. MaxLength - 1 -> {0, 1}]
    BY DEF MR!Init
  <2> QED BY <2>1, <2>2, <2>3, <2>4, <2>5 DEF MRShape, MR!Init
<1>2. LivesOK
  <2>1. \A c \in MR!Children : life[c] = "unborn" /\ 0 < Turn(c) /\ ~(MR!Forked + Turn(c) < 0)
    BY OrderFacts, MRNumbers DEF MR!Init
  <2> QED BY <2>1 DEF LivesOK, MR!Init
<1>3. EndsOK
  <2>1. ends_of[MR!Main] = AllEnds /\ 0 <= MR!Forked
    BY OrderFacts, MRNumbers DEF MR!Init, AllEnds
  <2>2. \A c \in MR!Children : life[c] = "unborn" /\ ends_of[c] = {} /\ stdin[c] = MR!NoEnd /\ stdout[c] = MR!NoEnd
    BY Names DEF MR!Init
  <2> QED BY <2>1, <2>2 DEF EndsOK, MR!Init
<1>4. FlowOK
  <2>1. \A c \in MR!Children : todo[c] = <<>> /\ Fresh(c)
    BY DEF MR!Init, Fresh
  <2>2. \A k \in MR!Pipes : pipe[k] = <<>>
    BY DEF MR!Init
  <2>3. ReadLines(output) = {}
    BY DEF MR!Init, ReadLines
  <2>4. ASSUME NEW i \in MR!Indices PROVE StageOK(i)
    <3>1. SplitterOf(i) \in MR!Children /\ MapperOf(i) \in MR!Children
      BY Names
    <3>2. i \in MR!Pipes /\ mapper_count \in MR!Pipes
      BY DEF MR!Pipes
    <3> QED BY <2>1, <2>2, <2>3, <3>1, <3>2, NoItems DEF StageOK, Stage
  <2>5. mapper_count \in MR!Pipes
    BY DEF MR!Pipes
  <2> QED BY <2>1, <2>2, <2>3, <2>4, <2>5, NoItems, Names DEF FlowOK
<1>5. EndOfInputOK
  <2>1. \A c \in MR!Children : life[c] = "unborn"
    BY DEF MR!Init
  <2> QED BY <2>1, Names DEF EndOfInputOK, Over
<1> QED BY <1>1, <1>2, <1>3, <1>4, <1>5 DEF MRInv

LEMMA ForkKeeps == MRInv /\ MR!Fork => MRInv'
<1> SUFFICES ASSUME MRInv, MR!Fork PROVE MRInv'
  OBVIOUS
<1>1. MRShape /\ LivesOK /\ EndsOK /\ EndOfInputOK
  BY DEF MRInv
<1>2. PICK c : c = MR!Order[step + 1]
  OBVIOUS
<1>3. /\ step < MR!Forked /\ step' = step + 1
      /\ life' = [life EXCEPT ![c] = "forked"]
      /\ ends_of' = [ends_of EXCEPT ![c] = ends_of[MR!Main]]
      /\ UNCHANGED <<newlines, length, missing, stdin, stdout, todo, pipe, output, reported>>
  BY <1>2 DEF MR!Fork, MR!file
<1>4. step \in Nat /\ MR!Forked \in Nat
  BY SomeTypes, OrderFacts, MRNumbers
<1>5. c \in MR!Children /\ Turn(c) = step + 1
  <2>1. step + 1 \in 1 .. MR!Forked
    BY <1>3, <1>4
  <2> QED BY <1>2, <2>1, OrderFacts
<1>6. \A d \in MR!Children : /\ life'[d] = IF d = c THEN "forked" ELSE life[d]
                             /\ ends_of'[d] = IF d = c THEN AllEnds ELSE ends_of[d]
  BY <1>1, <1>3, <1>4, <1>5, Names DEF MRShape, EndsOK
<1>7. life[c] = "unborn"
  BY <1>1, <1>4, <1>5 DEF LivesOK
<1>8. MRShape'
  <2>1. life' \in [MR!Children -> Lives]
    BY <1>1, <1>3 DEF MRShape, Lives
  <2>2. ends_of' \in [MR!Children \cup {MR!Main} -> SUBSET AllEnds]
    BY <1>1, <1>3 DEF MRShape
  <2>3. step' \in 0 .. 2 * MR!Forked + 1
    BY <1>3, <1>4
  <2>4. MR!Lines' = MR!Lines
    BY <1>3, SameFile
  <2> QED BY <1>1, <1>3, <2>1, <2>2, <2>3, <2>4 DEF MRShape
<1>9. LivesOK'
  <2>1. ASSUME NEW d \in MR!Children
        PROVE  /\ life'[d] = "unborn" <=> step + 1 < Turn(d)
               /\ life'[d] = "reaped" <=> MR!Forked + Turn(d) < step + 1
               /\ d[1] \in missing => life'[d] \notin {"running", "killed"}
    <3>1. Turn(d) \in Nat /\ 1 <= Turn(d) /\ (Turn(d) = step + 1 => d = c)
      BY <1>4, <1>2, OrderFacts
    <3>2. /\ life[d] = "unborn" <=> step < Turn(d)
          /\ life[d] = "reaped" <=> MR!Forked + Turn(d) < step
          /\ d[1] \in missing => life[d] \notin {"running", "killed"}
      BY <1>1 DEF LivesOK
    <3>3. ~(MR!Forked + Turn(d) < step + 1) /\ ~(MR!Forked + Turn(d) < step)
      BY <1>3, <1>4, <3>1
    <3>4. d # c => (step < Turn(d) <=> step + 1 < Turn(d))
      BY <1>4, <3>1
    <3>5. d = c => ~(step + 1 < Turn(d))
      BY <1>4, <1>5
    <3> QED BY <1>6, <3>2, <3>3, <3>4, <3>5
  <2>2. \A d \in MR!Children : life'[d] = "reaped" <=> life[d] = "reaped"
    BY <1>6, <1>7
  <2> QED BY <1>1, <1>3, <2>1, <2>2 DEF LivesOK
<1>10. EndsOK'
  <2>1. ends_of'[MR!Main] = ends_of[MR!Main] /\ step <= MR!Forked /\ step + 1 <= MR!Forked
    BY <1>1, <1>3, <1>4, <1>5, Names DEF MRShape
  <2> QED BY <1>1, <1>3, <1>6, <1>7, <2>1 DEF EndsOK
<1>11. FlowOK'
  <2>1. \A d \in MR!Children : Fresh(d)' <=> Fresh(d)
    BY <1>6, <1>7 DEF Fresh
  <2> QED BY <1>3, <2>1, SameFlow
<1>12. EndOfInputOK'
  <2>1. \A d \in MR!Children : /\ Over(d)' <=> Over(d)
                               /\ life'[d] = "killed" <=> life[d] = "killed"
    BY <1>6, <1>7 DEF Over
  <2> QED BY <1>1, <1>3, <2>1, Names DEF EndOfInputOK
<1> QED BY <1>8, <1>9, <1>10, <1>11, <1>12 DEF MRInv

LEMMA CloseKeeps == MRInv /\ MR!Close => MRInv'
<1> SUFFICES ASSUME MRInv, MR!Close PROVE MRInv'
  OBVIOUS
<1>1. MRShape /\ LivesOK /\ EndsOK /\ EndOfInputOK
  BY DEF MRInv
<1>2. /\ step = MR!Forked /\ step' = step + 1
      /\ ends_of' = [ends_of EXCEPT ![MR!Main] = {}]
      /\ UNCHANGED <<newlines, length, missing, life, stdin, stdout, todo, pipe, output, reported>>
  BY DEF MR!Close, MR!file
<1>3. step \in Nat /\ MR!Forked \in Nat
  BY SomeTypes, OrderFacts, MRNumbers
<1>4. \A d \in MR!Children : ends_of'[d] = ends_of[d]
  BY <1>1, <1>2, Names DEF MRShape
<1>5. MRShape'
  <2>1. ends_of' \in [MR!Children \cup {MR!Main} -> SUBSET AllEnds]
    BY <1>1, <1>2 DEF MRShape
  <2>2. step' \in 0 .. 2 * MR!Forked + 1
    BY <1>2, <1>3
  <2>3. MR!Lines' = MR!Lines
    BY <1>2, SameFile
  <2> QED BY <1>1, <1>2, <2>1, <2>2, <2>3 DEF MRShape
<1>6. LivesOK'
  <2>1. \A d \in MR!Children : /\ step < Turn(d) <=> step + 1 < Turn(d)
                               /\ MR!Forked + Turn(d) < step <=> MR!Forked + Turn(d) < step + 1
    BY <1>2, <1>3, OrderFacts
  <2> QED BY <1>1, <1>2, <2>1 DEF LivesOK
<1>7. EndsOK'
  <2>1. ends_of'[MR!Main] = {} /\ ~(step + 1 <= MR!Forked)
    BY <1>1, <1>2, <1>3 DEF MRShape
  <2> QED BY <1>1, <1>2, <1>4, <2>1 DEF EndsOK
<1>8. FlowOK'
  <2>1. \A d \in MR!Children : Fresh(d)' <=> Fresh(d)
    BY <1>2 DEF Fresh
  <2> QED BY <1>2, <2>1, SameFlow
<1>9. EndOfInputOK'
  BY <1>1, <1>2 DEF EndOfInputOK, Over
<1> QED BY <1>5, <1>6, <1>7, <1>8, <1>9 DEF MRInv

LEMMA WaitKeeps == MRInv /\ MR!wait_finish => MRInv'
<1> SUFFICES ASSUME MRInv, MR!wait_finish PROVE MRInv'
  OBVIOUS
<1>1. MRShape /\ LivesOK /\ EndsOK /\ EndOfInputOK
  BY DEF MRInv
<1>2. PICK c : c = MR!Order[step - MR!Forked]
  OBVIOUS
<1>3. /\ step \in MR!Forked + 1 .. 2 * MR!Forked /\ step' = step + 1
      /\ life[c] \in {"exited", "killed"} /\ life' = [life EXCEPT ![c] = "reaped"]
      /\ reported' = IF life[c] = "exited" /\ c[1] \in missing THEN reported \cup {c} ELSE reported
      /\ UNCHANGED <<newlines, length, missing, ends_of, stdin, stdout, todo, pipe, output>>
  BY <1>2 DEF MR!wait_finish, MR!file
<1>4. step \in Nat /\ MR!Forked \in Nat
  BY SomeTypes, OrderFacts, MRNumbers
<1>5. c \in MR!Children /\ Turn(c) = step - MR!Forked
  <2>1. step - MR!Forked \in 1 .. MR!Forked
    BY <1>3, <1>4
  <2> QED BY <1>2, <2>1, OrderFacts
<1>6. \A d \in MR!Children : life'[d] = IF d = c THEN "reaped" ELSE life[d]
  BY <1>1, <1>3, <1>5 DEF MRShape
<1>7. MRShape'
  <2>1. life' \in [MR!Children -> Lives]
    BY <1>1, <1>3 DEF MRShape, Lives
  <2>2. step' \in 0 .. 2 * MR!Forked + 1
    BY <1>3, <1>4
  <2>3. MR!Lines' = MR!Lines
    BY <1>3, SameFile
  <2> QED BY <1>1, <1>3, <2>1, <2>2, <2>3 DEF MRShape
<1>8. LivesOK'
  <2>1. ASSUME NEW d \in MR!Children
        PROVE  /\ life'[d] = "unborn" <=> step + 1 < Turn(d)
               /\ life'[d] = "reaped" <=> MR!Forked + Turn(d) < step + 1
               /\ d[1] \in missing => life'[d] \notin {"running", "killed"}
    <3>1. Turn(d) \in 1 .. MR!Forked /\ (Turn(d) = step - MR!Forked => d = c)
      BY <1>2, OrderFacts
    <3>2. /\ life[d] = "unborn" <=> step < Turn(d)
          /\ life[d] = "reaped" <=> MR!Forked + Turn(d) < step
          /\ d[1] \in missing => life[d] \notin {"running", "killed"}
      BY <1>1 DEF LivesOK
    <3>3. ~(step < Turn(d)) /\ ~(step + 1 < Turn(d))
      BY <1>3, <1>4, <3>1
    <3>4. d # c => (MR!Forked + Turn(d) < step <=> MR!Forked + Turn(d) < step + 1)
      BY <1>4, <3>1
    <3>5. d = c => MR!Forked + Turn(d) < step + 1
      BY <1>4, <1>5
    <3> QED BY <1>6, <3>2, <3>3, <3>4, <3>5
  <2>2. c[1] \in missing => life[c] = "exited"
    BY <1>1, <1>3, <1>5 DEF LivesOK
  <2>3. reported' = {d \in MR!Children : d[1] \in missing /\ life'[d] = "reaped"}
    <3>1. reported = {d \in MR!Children : d[1] \in missing /\ life[d] = "reaped"}
      BY <1>1 DEF LivesOK
    <3>2. CASE c[1] \in missing
      <4>1. reported' = reported \cup {c}
        BY <1>3, <2>2, <3>2
      <4> QED BY <1>5, <1>6, <3>1, <3>2, <4>1
    <3>3. CASE c[1] \notin missing
      <4>1. reported' = reported
        BY <1>3, <3>3
      <4> QED BY <1>5, <1>6, <3>1, <3>3, <4>1
    <3> QED BY <3>2, <3>3
  <2> QED BY <1>3, <2>1, <2>3 DEF LivesOK
<1>9. EndsOK'
  <2>1. step <= MR!Forked <=> step + 1 <= MR!Forked
    BY <1>3, <1>4
  <2> QED BY <1>1, <1>3, <1>6, <2>1 DEF EndsOK
<1>10. FlowOK'
  <2>1. \A d \in MR!Children : Fresh(d)' <=> Fresh(d)
    BY <1>3, <1>6 DEF Fresh
  <2> QED BY <1>3, <2>1, SameFlow
<1>11. EndOfInputOK'
  <2>1. \A d \in MR!Children : /\ Over(d)' <=> Over(d)
                               /\ life'[d] = "killed" => life[d] = "killed"
    BY <1>3, <1>6 DEF Over
  <2> QED BY <1>1, <1>3, <2>1, Names DEF EndOfInputOK
<1> QED BY <1>7, <1>8, <1>9, <1>10, <1>11 DEF MRInv

LEMMA ExecFailsKeeps == ASSUME MRInv, NEW c \in MR!Children, MR!ExecFails(c) PROVE MRInv'
<1>1. MRShape /\ EndOfInputOK
  BY DEF MRInv
<1>2. /\ life[c] = "forked" /\ c[1] \in missing /\ MR!Gone(c, "exited")
      /\ UNCHANGED <<newlines, length, missing, step, todo, pipe, output, reported>>
  BY DEF MR!ExecFails, MR!file
<1>3. life' = [life EXCEPT ![c] = "exited"]
  BY <1>2 DEF MR!Gone
<1>4. LivesOK'
  BY <1>2, <1>3, LivesGo
<1>5. /\ EndsOK' /\ life' \in [MR!Children -> Lives]
      /\ ends_of' \in [MR!Children \cup {MR!Main} -> SUBSET AllEnds]
      /\ stdin' \in [MR!Children -> AllEnds \cup {MR!NoEnd}]
      /\ stdout' \in [MR!Children -> AllEnds \cup {MR!NoEnd}]
  BY <1>2, EndsGone
<1>6. MRShape'
  BY <1>1, <1>2, <1>5, SameFile DEF MRShape
<1>7. FlowOK'
  <2>1. \A d \in MR!Children : Fresh(d)' => Fresh(d)
    BY <1>1, <1>3 DEF Fresh, MRShape
  <2> QED BY <1>2, <2>1, SameFlow
<1>8. EndOfInputOK'
  BY <1>2 DEF EndOfInputOK
<1> QED BY <1>4, <1>5, <1>6, <1>7, <1>8 DEF MRInv

LEMMA ExitKeeps == ASSUME MRInv, NEW c \in MR!Children, MR!Exit(c) PROVE MRInv'
<1>1. MRShape /\ LivesOK /\ EndsOK /\ EndOfInputOK
  BY DEF MRInv
<1>2. /\ life[c] = "running" /\ todo[c] = <<>> /\ MR!Gone(c, "exited")
      /\ c \notin MR!Splitters => MR!AtEnd(c)
      /\ UNCHANGED <<newlines, length, missing, step, todo, pipe, output, reported>>
  BY DEF MR!Exit, MR!Running, MR!file
<1>3. life' = [life EXCEPT ![c] = "exited"]
  BY <1>2 DEF MR!Gone
<1>4. \A d \in MR!Children : life'[d] = IF d = c THEN "exited" ELSE life[d]
  BY <1>1, <1>3 DEF MRShape
<1>5. LivesOK'
  BY <1>2, <1>3, LivesGo
<1>6. /\ EndsOK' /\ life' \in [MR!Children -> Lives]
      /\ ends_of' \in [MR!Children \cup {MR!Main} -> SUBSET AllEnds]
      /\ stdin' \in [MR!Children -> AllEnds \cup {MR!NoEnd}]
      /\ stdout' \in [MR!Children -> AllEnds \cup {MR!NoEnd}]
  BY <1>2, EndsGone
<1>7. MRShape'
  BY <1>1, <1>2, <1>6, SameFile DEF MRShape
<1>8. FlowOK'
  <2>1. \A d \in MR!Children : Fresh(d)' <=> Fresh(d)
    BY <1>2, <1>4 DEF Fresh
  <2> QED BY <1>2, <2>1, SameFlow
<1>9. EndOfInputOK'
  <2>1. SUFFICES ASSUME missing = {} PROVE EndOfInputOK'
    BY <1>2 DEF EndOfInputOK
  <2>2. \A d \in MR!Children : Over(d)' <=> Over(d) \/ d = c
    BY <1>4 DEF Over
  <2>3. \A d \in MR!Children : life'[d] # "killed" /\ (Over(d)' => todo[d] = <<>>)
    BY <1>1, <1>2, <1>4, <2>1, <2>2 DEF EndOfInputOK
  <2>4. ASSUME NEW i \in MR!Indices, c = MapperOf(i)
        PROVE  Over(SplitterOf(i)) /\ pipe[i] = <<>>
    <3>1. stdin[c] = MR!R(i)
      BY <1>1, <1>2, <2>4, Names, Setups DEF EndsOK
    <3>2. i \in MR!Pipes /\ MR!R(i)[1] = i
      BY SomeTypes, Setups
    <3>3. MR!AtEnd(c)
      BY <1>2, <2>4, Names
    <3>4. pipe[i] = <<>> /\ ~MR!Held(MR!W(i))
      BY <3>1, <3>2, <3>3 DEF MR!AtEnd
    <3>5. Over(SplitterOf(i))
      BY <3>2, <3>4, HeldUntilOver, Names, Setups
    <3> QED BY <3>4, <3>5
  <2>5. ASSUME c = MR!Reducer
        PROVE  pipe[mapper_count] = <<>> /\ \A i \in MR!Indices : Over(MapperOf(i))
    <3>1. stdin[c] = MR!R(mapper_count)
      BY <1>1, <1>2, <2>5, Names, Setups DEF EndsOK
    <3>2. mapper_count \in MR!Pipes /\ MR!R(mapper_count)[1] = mapper_count
      BY SomeTypes, Setups
    <3>3. MR!AtEnd(c)
      BY <1>2, <2>5, Names
    <3>4. pipe[mapper_count] = <<>> /\ ~MR!Held(MR!W(mapper_count))
      BY <3>1, <3>2, <3>3 DEF MR!AtEnd
    <3>5. \A i \in MR!Indices : Over(MapperOf(i))
      BY <3>2, <3>4, HeldUntilOver, Names, Setups
    <3> QED BY <3>4, <3>5
  <2>6. ASSUME NEW i \in MR!Indices, Over(MapperOf(i))'
        PROVE  Over(SplitterOf(i))' /\ pipe[i] = <<>>
    <3>1. Over(SplitterOf(i)) /\ pipe[i] = <<>>
      <4>1. CASE c = MapperOf(i)
        BY <2>4, <4>1
      <4>2. CASE c # MapperOf(i)
        BY <1>1, <2>1, <2>2, <2>6, <4>2, Names DEF EndOfInputOK
      <4> QED BY <4>1, <4>2
    <3> QED BY <2>2, <3>1, Names
  <2>7. ASSUME Over(MR!Reducer)'
        PROVE  pipe[mapper_count] = <<>> /\ \A i \in MR!Indices : Over(MapperOf(i))'
    <3>1. pipe[mapper_count] = <<>> /\ \A i \in MR!Indices : Over(MapperOf(i))
      <4>1. CASE c = MR!Reducer
        BY <2>5, <4>1
      <4>2. CASE c # MR!Reducer
        BY <1>1, <2>1, <2>2, <2>7, <4>2, Names DEF EndOfInputOK
      <4> QED BY <4>1, <4>2
    <3> QED BY <2>2, <3>1, Names
  <2> QED BY <1>2, <2>3, <2>6, <2>7 DEF EndOfInputOK
<1> QED BY <1>5, <1>6, <1>7, <1>8, <1>9 DEF MRInv

LEMMA ExecKeeps == ASSUME MRInv, NEW c \in MR!Children, MR!Exec(c) PROVE MRInv'
<1>1. MRShape /\ LivesOK /\ EndsOK /\ FlowOK /\ EndOfInputOK
  BY DEF MRInv
<1>2. PICK lines : lines = IF c \in MR!Splitters THEN MR!write_portion(c[2]) ELSE <<>>
  OBVIOUS
<1>3. /\ life[c] = "forked" /\ c[1] \notin missing
      /\ life' = [life EXCEPT ![c] = "running"]
      /\ ends_of' = [ends_of EXCEPT ![c] = {}]
      /\ stdin' = [stdin EXCEPT ![c] = MR!Setup(c).in]
      /\ stdout' = [stdout EXCEPT ![c] = MR!Setup(c).out]
      /\ todo' = [todo EXCEPT ![c] = lines]
      /\ UNCHANGED <<newlines, length, missing, step, pipe, output, reported>>
  BY <1>2 DEF MR!Exec, MR!file
<1>4. \A d \in MR!Children : /\ life'[d] = IF d = c THEN "running" ELSE life[d]
                             /\ ends_of'[d] = IF d = c THEN {} ELSE ends_of[d]
                             /\ stdin'[d] = IF d = c THEN MR!Setup(c).in ELSE stdin[d]
                             /\ stdout'[d] = IF d = c THEN MR!Setup(c).out ELSE stdout[d]
                             /\ todo'[d] = IF d = c THEN lines ELSE todo[d]
  BY <1>1, <1>3 DEF MRShape
<1>5. LivesOK'
  BY <1>3, LivesGo
<1>6. EndsOK'
  <2>1. ends_of'[MR!Main] = ends_of[MR!Main]
    BY <1>1, <1>3, Names DEF MRShape
  <2> QED BY <1>1, <1>3, <1>4, <2>1 DEF EndsOK
<1>7. MR!Lines' = MR!Lines /\ \A i : MR!portion(i)' = MR!portion(i)
  BY <1>3, SameFile
<1>8. ASSUME NEW i \in MR!Indices, c = SplitterOf(i)
      PROVE  lines \in Seq(MR!Lines) /\ Distinct(lines) /\ Items(lines) = MR!portion(i)
  <2>1. lines = MR!write_portion(i)
    BY <1>2, <1>8, Names
  <2> QED BY <2>1, SomeTypes, WritePortion
<1>9. ASSUME \A i \in MR!Indices : c # SplitterOf(i) PROVE lines = <<>> /\ todo[c] = <<>>
  <2>1. c \notin MR!Splitters
    BY <1>9, Kinds, Names
  <2>2. Fresh(c)
    BY <1>3 DEF Fresh
  <2> QED BY <1>1, <1>2, <2>1, <2>2 DEF FlowOK
<1>10. lines \in Seq(MR!Lines) /\ Distinct(lines)
  BY <1>8, <1>9, NoItems, EmptySeq
<1>11. MRShape'
  <2>1. life' \in [MR!Children -> Lives]
    BY <1>1, <1>3 DEF MRShape, Lives
  <2>2. /\ ends_of' \in [MR!Children \cup {MR!Main} -> SUBSET AllEnds]
        /\ stdin' \in [MR!Children -> AllEnds \cup {MR!NoEnd}]
        /\ stdout' \in [MR!Children -> AllEnds \cup {MR!NoEnd}]
    BY <1>1, <1>3, Setups DEF MRShape
  <2>3. todo' \in [MR!Children -> Seq(MR!Lines)]
    BY <1>1, <1>3, <1>10 DEF MRShape
  <2> QED BY <1>1, <1>3, <1>7, <2>1, <2>2, <2>3 DEF MRShape
<1>12. \A d \in MR!Children : Fresh(d)' <=> Fresh(d) /\ d # c
  BY <1>3, <1>4 DEF Fresh
<1>13. Fresh(c) /\ todo[c] = <<>>
  BY <1>1, <1>3 DEF Fresh, FlowOK
<1>14. ASSUME NEW i \in MR!Indices PROVE StageOK(i)'
  <2>1. StageOK(i) /\ SplitterOf(i) \in MR!Children /\ MapperOf(i) \in MR!Children
    BY <1>1, Names DEF FlowOK
  <2>2. todo'[MapperOf(i)] = todo[MapperOf(i)]
    <3>1. CASE c = MapperOf(i)
      <4>1. lines = <<>>
        BY <1>9, <3>1, Names
      <4> QED BY <1>4, <1>13, <2>1, <3>1, <4>1
    <3>2. CASE c # MapperOf(i)
      BY <1>4, <2>1, <3>2
    <3> QED BY <3>1, <3>2
  <2>3. PICK a, b, d, e, f : /\ a = Items(todo[SplitterOf(i)]) /\ b = Items(pipe[i])
                             /\ d = Items(todo[MapperOf(i)]) /\ e = Items(pipe[mapper_count])
                             /\ f = ReadLines(output)
    OBVIOUS
  <2>4. Stage(i, Fresh(SplitterOf(i)), a, b, d, e, f)
    BY <2>1, <2>3 DEF StageOK
  <2>5. CASE c = SplitterOf(i)
    <3>1. Stage(i, FALSE, MR!portion(i), b, d, e, f)
      BY <1>13, <2>4, <2>5 DEF Stage
    <3>2. Items(todo'[SplitterOf(i)]) = MR!portion(i)
      BY <1>4, <1>8, <2>1, <2>5
    <3>3. ~Fresh(SplitterOf(i))'
      BY <1>12, <2>1, <2>5
    <3>4. pipe' = pipe /\ output' = output /\ UNCHANGED <<newlines, length, missing>>
      BY <1>3
    <3> QED BY <2>2, <2>3, <3>1, <3>2, <3>3, <3>4, StageNext
  <2>6. CASE c # SplitterOf(i)
    <3>1. todo'[SplitterOf(i)] = todo[SplitterOf(i)] /\ (Fresh(SplitterOf(i))' <=> Fresh(SplitterOf(i)))
      BY <1>4, <1>12, <2>1, <2>6
    <3>2. pipe' = pipe /\ output' = output /\ UNCHANGED <<newlines, length, missing>>
      BY <1>3
    <3> QED BY <2>2, <2>3, <2>4, <3>1, <3>2, StageNext
  <2> QED BY <2>5, <2>6
<1>15. FlowOK'
  <2>1. \A d \in MR!Children : Distinct(todo'[d]) /\ (Fresh(d)' => todo'[d] = <<>>)
    BY <1>1, <1>4, <1>10, <1>12 DEF FlowOK
  <2>2. todo'[MR!Reducer] = <<>>
    BY <1>1, <1>4, <1>9, Names DEF FlowOK
  <2>3. pipe' = pipe /\ output' = output
    BY <1>3
  <2> QED BY <1>1, <1>7, <1>14, <2>1, <2>2, <2>3 DEF FlowOK, Distinct, Items, ReadLines
<1>16. EndOfInputOK'
  <2>1. \A d \in MR!Children : Over(d)' <=> Over(d)
    BY <1>3, <1>4 DEF Over
  <2>2. ~Over(c)
    BY <1>3 DEF Over
  <2>3. \A d \in MR!Children : life'[d] = "killed" => life[d] = "killed"
    BY <1>4
  <2>4. \A d \in MR!Children : Over(d) => todo'[d] = todo[d]
    BY <1>4, <2>2
  <2> QED BY <1>1, <1>3, <2>1, <2>3, <2>4, Names DEF EndOfInputOK
<1> QED BY <1>5, <1>6, <1>11, <1>15, <1>16 DEF MRInv

\* Which pipe a child writes to, and who reads it.
LEMMA WritesTo ==
  ASSUME MRInv, NEW c \in MR!Children, life[c] = "running", c # MR!Reducer
  PROVE  \/ \E i \in MR!Indices : c = SplitterOf(i) /\ stdout[c][1] = i
         \/ \E i \in MR!Indices : c = MapperOf(i) /\ stdout[c][1] = mapper_count
<1>1. stdout[c] = MR!Setup(c).out
  BY DEF MRInv, EndsOK
<1>2. MR!Indices \subseteq MR!Pipes /\ mapper_count \in MR!Pipes
  BY SomeTypes
<1> QED BY <1>1, <1>2, Kinds, Setups

\* Its reader has not gone yet, if no program is missing.
LEMMA ReaderThere ==
  ASSUME MRInv, NEW c \in MR!Children, life[c] = "running", c # MR!Reducer, missing = {}
  PROVE  /\ MR!Held(MR!R(stdout[c][1]))
         /\ \A i \in MR!Indices : c = SplitterOf(i) => ~Over(MapperOf(i))
         /\ \A i \in MR!Indices : c = MapperOf(i) => ~Over(MR!Reducer)
<1>1. EndOfInputOK
  BY DEF MRInv
<1>2. ~Over(c)
  BY DEF Over
<1>3. ASSUME NEW i \in MR!Indices, c = SplitterOf(i) PROVE ~Over(MapperOf(i))
  BY <1>1, <1>2, <1>3 DEF EndOfInputOK
<1>4. ASSUME NEW i \in MR!Indices, c = MapperOf(i) PROVE ~Over(MR!Reducer)
  BY <1>1, <1>2, <1>4 DEF EndOfInputOK
<1>5. MR!Held(MR!R(stdout[c][1]))
  <2>1. CASE \E i \in MR!Indices : c = SplitterOf(i) /\ stdout[c][1] = i
    <3>1. PICK i \in MR!Indices : c = SplitterOf(i) /\ stdout[c][1] = i
      BY <2>1
    <3>2. /\ MapperOf(i) \in MR!Children /\ ~Over(MapperOf(i))
          /\ MR!R(i) = MR!Setup(MapperOf(i)).in /\ MR!R(i) \in AllEnds
      BY <1>3, <3>1, Names, Setups, SomeTypes
    <3> QED BY <3>1, <3>2, HeldUntilOver
  <2>2. CASE \E i \in MR!Indices : c = MapperOf(i) /\ stdout[c][1] = mapper_count
    <3>1. /\ MR!Reducer \in MR!Children /\ ~Over(MR!Reducer) /\ stdout[c][1] = mapper_count
          /\ MR!R(mapper_count) = MR!Setup(MR!Reducer).in /\ MR!R(mapper_count) \in AllEnds
      BY <1>4, <2>2, Names, Setups, SomeTypes
    <3> QED BY <3>1, HeldUntilOver
  <2> QED BY <2>1, <2>2, WritesTo
<1> QED BY <1>3, <1>4, <1>5

LEMMA KilledKeeps ==
  ASSUME MRInv, NEW c \in MR!Children, life[c] = "running", c # MR!Reducer,
         ~MR!Held(MR!R(stdout[c][1])), MR!Gone(c, "killed"),
         UNCHANGED <<newlines, length, missing, step, todo, pipe, output, reported>>
  PROVE  MRInv'
<1>1. MRShape /\ LivesOK /\ EndOfInputOK
  BY DEF MRInv
<1>2. life' = [life EXCEPT ![c] = "killed"]
  BY DEF MR!Gone
<1>3. c[1] \notin missing
  BY <1>1 DEF LivesOK
<1>4. LivesOK'
  BY <1>2, <1>3, LivesGo
<1>5. /\ EndsOK' /\ life' \in [MR!Children -> Lives]
      /\ ends_of' \in [MR!Children \cup {MR!Main} -> SUBSET AllEnds]
      /\ stdin' \in [MR!Children -> AllEnds \cup {MR!NoEnd}]
      /\ stdout' \in [MR!Children -> AllEnds \cup {MR!NoEnd}]
  BY EndsGone
<1>6. MRShape'
  BY <1>1, <1>5, SameFile DEF MRShape
<1>7. FlowOK'
  <2>1. \A d \in MR!Children : Fresh(d)' <=> Fresh(d)
    BY <1>1, <1>2 DEF Fresh, MRShape
  <2> QED BY <2>1, SameFlow
<1>8. EndOfInputOK'
  BY ReaderThere DEF EndOfInputOK
<1> QED BY <1>4, <1>5, <1>6, <1>7, <1>8 DEF MRInv

LEMMA WriteKeeps == ASSUME MRInv, NEW c \in MR!Children, MR!Write(c) PROVE MRInv'
<1>1. MRShape /\ LivesOK /\ EndsOK /\ FlowOK /\ EndOfInputOK
  BY DEF MRInv
<1>2. /\ life[c] = "running" /\ todo[c] # <<>> /\ c # MR!Reducer
      /\ MR!WriteTo(c, Head(todo[c]))
      /\ UNCHANGED <<newlines, length, missing, step, output, reported>>
  BY DEF MR!Write, MR!Running, MR!file
<1>3. PICK k, h : k = stdout[c][1] /\ h = Head(todo[c])
  OBVIOUS
<1>4. \/ /\ ~MR!Held(MR!R(k)) /\ MR!Gone(c, "killed") /\ UNCHANGED <<todo, pipe>>
      \/ /\ pipe' = [pipe EXCEPT ![k] = Append(@, h)]
         /\ todo' = [todo EXCEPT ![c] = Tail(@)]
         /\ UNCHANGED <<life, ends_of, stdin, stdout>>
  BY <1>2, <1>3 DEF MR!WriteTo
<1>5. ASSUME ~MR!Held(MR!R(k)), MR!Gone(c, "killed"), UNCHANGED <<todo, pipe>> PROVE MRInv'
  BY <1>2, <1>3, <1>5, KilledKeeps
<1>6. ASSUME pipe' = [pipe EXCEPT ![k] = Append(@, h)],
             todo' = [todo EXCEPT ![c] = Tail(@)],
             UNCHANGED <<life, ends_of, stdin, stdout>>
      PROVE  MRInv'
  <2>1. \/ \E i \in MR!Indices : c = SplitterOf(i) /\ k = i
        \/ \E i \in MR!Indices : c = MapperOf(i) /\ k = mapper_count
    BY <1>2, <1>3, WritesTo
  <2>2. k \in MR!Pipes /\ todo[c] \in Seq(MR!Lines) /\ pipe[k] \in Seq(MR!Lines)
    BY <2>1, SomeTypes
  <2>3. Distinct(todo[c]) /\ Distinct(pipe[k])
    BY <1>1, <2>2 DEF FlowOK
  <2>4. /\ h \in MR!Lines /\ h \in Items(todo[c])
        /\ Tail(todo[c]) \in Seq(MR!Lines) /\ Distinct(Tail(todo[c]))
        /\ Items(Tail(todo[c])) = Items(todo[c]) \ {h}
    BY <1>2, <1>3, <2>2, <2>3, TakeHead
  <2>5. h \notin Items(pipe[k]) /\ (k = mapper_count => h \notin ReadLines(output))
    <3>1. CASE \E i \in MR!Indices : c = SplitterOf(i) /\ k = i
      <4>1. PICK i \in MR!Indices : c = SplitterOf(i) /\ k = i
        BY <3>1
      <4>2. StageOK(i) /\ i # mapper_count
        BY <1>1, SomeTypes DEF FlowOK
      <4> QED BY <2>4, <4>1, <4>2 DEF StageOK, Stage
    <3>2. CASE \E i \in MR!Indices : c = MapperOf(i) /\ k = mapper_count
      <4>1. PICK i \in MR!Indices : c = MapperOf(i) /\ k = mapper_count
        BY <3>2
      <4>2. StageOK(i)
        BY <1>1 DEF FlowOK
      <4> QED BY <2>4, <4>1, <4>2 DEF StageOK, Stage
    <3> QED BY <2>1, <3>1, <3>2
  <2>6. /\ Append(pipe[k], h) \in Seq(MR!Lines) /\ Distinct(Append(pipe[k], h))
        /\ Items(Append(pipe[k], h)) = Items(pipe[k]) \cup {h}
    BY <2>2, <2>3, <2>4, <2>5, PutLast
  <2>7. /\ \A d \in MR!Children : todo'[d] = IF d = c THEN Tail(todo[c]) ELSE todo[d]
        /\ \A j \in MR!Pipes : pipe'[j] = IF j = k THEN Append(pipe[k], h) ELSE pipe[j]
    BY <1>1, <1>6, <2>2 DEF MRShape
  <2>8. MR!Lines' = MR!Lines /\ UNCHANGED <<newlines, length, missing>> /\ output' = output
    BY <1>2, SameFile
  <2>9. MRShape'
    <3>1. todo' \in [MR!Children -> Seq(MR!Lines)] /\ pipe' \in [MR!Pipes -> Seq(MR!Lines)]
      BY <1>1, <1>6, <2>2, <2>4, <2>6 DEF MRShape
    <3> QED BY <1>1, <1>2, <1>6, <2>8, <3>1 DEF MRShape
  <2>10. LivesOK' /\ EndsOK'
    BY <1>2, <1>6, LivesSame, EndsSame
  <2>11. ASSUME NEW i \in MR!Indices PROVE StageOK(i)'
    <3>1. PICK a, b, d, e, f : /\ a = Items(todo[SplitterOf(i)]) /\ b = Items(pipe[i])
                               /\ d = Items(todo[MapperOf(i)]) /\ e = Items(pipe[mapper_count])
                               /\ f = ReadLines(output)
      OBVIOUS
    <3>2. Stage(i, Fresh(SplitterOf(i)), a, b, d, e, f)
      BY <1>1, <3>1 DEF FlowOK, StageOK
    <3>3. f = ReadLines(output') /\ (Fresh(SplitterOf(i))' <=> Fresh(SplitterOf(i)))
      BY <1>6, <2>8, <3>1 DEF Fresh
    <3>4. /\ SplitterOf(i) \in MR!Children /\ MapperOf(i) \in MR!Children
          /\ i \in MR!Pipes /\ mapper_count \in MR!Pipes /\ i # mapper_count
      BY Names, SomeTypes
    <3>5. CASE c = SplitterOf(i)
      <4>1. k = i /\ c # MapperOf(i)
        BY <2>1, <3>5, Names
      <4>2. Stage(i, Fresh(SplitterOf(i)), a \ {h}, b \cup {h}, d, e, f)
        BY <2>4, <3>1, <3>2, <3>5, StageSend
      <4>3. /\ Items(todo'[SplitterOf(i)]) = a \ {h} /\ Items(pipe'[i]) = b \cup {h}
            /\ Items(todo'[MapperOf(i)]) = d /\ Items(pipe'[mapper_count]) = e
        BY <2>4, <2>6, <2>7, <3>1, <3>4, <3>5, <4>1
      <4> QED BY <2>8, <3>3, <4>2, <4>3, StageNext
    <3>6. CASE c = MapperOf(i)
      <4>1. k = mapper_count /\ c # SplitterOf(i)
        BY <2>1, <3>6, Names
      <4>2. Stage(i, Fresh(SplitterOf(i)), a, b, d \ {h}, e \cup {h}, f)
        BY <2>4, <3>1, <3>2, <3>6, StageEmit
      <4>3. /\ Items(todo'[SplitterOf(i)]) = a /\ Items(pipe'[i]) = b
            /\ Items(todo'[MapperOf(i)]) = d \ {h} /\ Items(pipe'[mapper_count]) = e \cup {h}
        BY <2>4, <2>6, <2>7, <3>1, <3>4, <3>6, <4>1
      <4>4. PICK d2, e2 : d2 = d \ {h} /\ e2 = e \cup {h}
        OBVIOUS
      <4>5. Stage(i, Fresh(SplitterOf(i)), a, b, d2, e2, f)
        BY <4>2, <4>4
      <4>6. /\ a = Items(todo'[SplitterOf(i)]) /\ b = Items(pipe'[i])
            /\ d2 = Items(todo'[MapperOf(i)]) /\ e2 = Items(pipe'[mapper_count])
        BY <4>3, <4>4
      <4>7. Fresh(SplitterOf(i))' <=> Fresh(SplitterOf(i))
        BY <3>3
      <4> QED BY ONLY <2>8, <3>3, <4>5, <4>6, <4>7, StageNext
    <3>7. CASE c # SplitterOf(i) /\ c # MapperOf(i)
      <4>1. k # i
        BY <2>1, <3>4, <3>7
      <4>2. /\ Items(todo'[SplitterOf(i)]) = a /\ Items(pipe'[i]) = b
            /\ Items(todo'[MapperOf(i)]) = d
        BY <2>7, <3>1, <3>4, <3>7, <4>1
      <4>3. CASE k # mapper_count
        <5>1. Items(pipe'[mapper_count]) = e
          BY <2>7, <3>1, <3>4, <4>3
        <5> QED BY <2>8, <3>2, <3>3, <4>2, <5>1, StageNext
      <4>4. CASE k = mapper_count
        <5>1. PICK j \in MR!Indices : c = MapperOf(j)
          BY <2>1, <4>4, SomeTypes
        <5>2. j # i /\ StageOK(j)
          BY <1>1, <3>7, <5>1 DEF FlowOK
        <5>3. h \in MR!portion(j)
          BY <2>4, <5>1, <5>2 DEF StageOK, Stage
        <5>4. h \notin MR!portion(i)
          BY <5>2, <5>3, PortionsApart, SomeTypes
        <5>5. Stage(i, Fresh(SplitterOf(i)), a, b, d, e \cup {h}, f)
          BY <3>2, <5>4, StageOther
        <5>6. Items(pipe'[mapper_count]) = e \cup {h}
          BY <2>6, <2>7, <3>1, <3>4, <4>4
        <5>7. PICK e2 : e2 = e \cup {h}
          OBVIOUS
        <5>8. Stage(i, Fresh(SplitterOf(i)), a, b, d, e2, f) /\ e2 = Items(pipe'[mapper_count])
          BY <5>5, <5>6, <5>7
        <5> QED BY <2>8, <3>3, <4>2, <5>8, StageNext
      <4> QED BY <4>3, <4>4
    <3> QED BY <3>5, <3>6, <3>7
  <2>12. FlowOK'
    <3>1. \A d \in MR!Children : Distinct(todo'[d]) /\ (Fresh(d)' => todo'[d] = <<>>)
      <4>1. \A d \in MR!Children : Fresh(d)' <=> Fresh(d)
        BY <1>6 DEF Fresh
      <4>2. ~Fresh(c)
        BY <1>2 DEF Fresh
      <4> QED BY <1>1, <2>4, <2>7, <4>1, <4>2 DEF FlowOK
    <3>2. todo'[MR!Reducer] = <<>>
      BY <1>1, <1>2, <2>7, Names DEF FlowOK
    <3>3. \A j \in MR!Pipes : Distinct(pipe'[j])
      BY <1>1, <2>6, <2>7 DEF FlowOK
    <3>4. Items(pipe'[mapper_count]) \cap ReadLines(output) = {}
      <4>1. mapper_count \in MR!Pipes
        BY SomeTypes
      <4> QED BY <1>1, <2>5, <2>6, <2>7, <4>1 DEF FlowOK
    <3> QED BY <1>1, <2>8, <2>11, <3>1, <3>2, <3>3, <3>4 DEF FlowOK, Distinct, Items, ReadLines
  <2>13. EndOfInputOK'
    <3>1. SUFFICES ASSUME missing = {} PROVE EndOfInputOK'
      BY <2>8 DEF EndOfInputOK
    <3>2. ~Over(c)
      BY <1>2 DEF Over
    <3>3. \A d \in MR!Children : Over(d)' <=> Over(d)
      BY <1>6 DEF Over
    <3>4. \A d \in MR!Children : life'[d] # "killed" /\ (Over(d)' => todo'[d] = <<>>)
      BY <1>1, <1>6, <2>7, <3>1, <3>2, <3>3 DEF EndOfInputOK
    <3>5. ASSUME NEW i \in MR!Indices, Over(MapperOf(i))
          PROVE  Over(SplitterOf(i)) /\ pipe'[i] = <<>>
      <4>1. Over(SplitterOf(i)) /\ pipe[i] = <<>>
        BY <1>1, <3>1, <3>5 DEF EndOfInputOK
      <4>2. k # i
        BY <2>1, <3>2, <4>1, SomeTypes
      <4> QED BY <2>7, <4>1, <4>2, SomeTypes
    <3>6. ASSUME Over(MR!Reducer)
          PROVE  pipe'[mapper_count] = <<>> /\ \A i \in MR!Indices : Over(MapperOf(i))
      <4>1. pipe[mapper_count] = <<>> /\ \A i \in MR!Indices : Over(MapperOf(i))
        BY <1>1, <3>1, <3>6 DEF EndOfInputOK
      <4>2. k # mapper_count
        BY <2>1, <3>2, <4>1, SomeTypes
      <4> QED BY <2>7, <4>1, <4>2, SomeTypes
    <3> QED BY <2>8, <3>3, <3>4, <3>5, <3>6, Names DEF EndOfInputOK
  <2> QED BY <2>9, <2>10, <2>12, <2>13 DEF MRInv
<1> QED BY <1>4, <1>5, <1>6

LEMMA MapKeeps == ASSUME MRInv, NEW c \in MR!Children, MR!Map(c) PROVE MRInv'
<1>1. MRShape /\ LivesOK /\ EndsOK /\ FlowOK /\ EndOfInputOK
  BY DEF MRInv
<1>2. PICK k : k = stdin[c][1]
  OBVIOUS
<1>3. PICK h : h = Head(pipe[k])
  OBVIOUS
<1>4. /\ life[c] = "running" /\ c \in MR!Mappers /\ todo[c] = <<>> /\ pipe[k] # <<>>
      /\ todo' = [todo EXCEPT ![c] = <<h>>]
      /\ pipe' = [pipe EXCEPT ![k] = Tail(@)]
      /\ UNCHANGED <<newlines, length, missing, step, life, ends_of, stdin, stdout, output, reported>>
  BY <1>2, <1>3 DEF MR!Map, MR!Running, MR!file
<1>5. PICK m \in MR!Indices : c = MapperOf(m)
  BY <1>4, Kinds, Names
<1>6. k = m /\ k \in MR!Pipes /\ k # mapper_count
  <2>1. stdin[c] = MR!R(m)
    BY <1>1, <1>4, <1>5, Setups DEF EndsOK
  <2> QED BY <1>2, <2>1, Setups, SomeTypes
<1>7. pipe[k] \in Seq(MR!Lines) /\ Distinct(pipe[k])
  BY <1>1, <1>6, SomeTypes DEF FlowOK
<1>8. /\ h \in MR!Lines /\ h \in Items(pipe[k])
      /\ Tail(pipe[k]) \in Seq(MR!Lines) /\ Distinct(Tail(pipe[k]))
      /\ Items(Tail(pipe[k])) = Items(pipe[k]) \ {h}
  BY <1>3, <1>4, <1>7, TakeHead
<1>9. <<h>> \in Seq(MR!Lines) /\ Items(<<h>>) = {h} /\ Distinct(<<h>>)
  BY <1>8, NoItems
<1>10. /\ \A d \in MR!Children : todo'[d] = IF d = c THEN <<h>> ELSE todo[d]
       /\ \A j \in MR!Pipes : pipe'[j] = IF j = k THEN Tail(pipe[k]) ELSE pipe[j]
  BY <1>1, <1>4, <1>6 DEF MRShape
<1>11. MR!Lines' = MR!Lines /\ UNCHANGED <<newlines, length, missing>> /\ output' = output
  BY <1>4, SameFile
<1>12. MRShape'
  <2>1. todo' \in [MR!Children -> Seq(MR!Lines)] /\ pipe' \in [MR!Pipes -> Seq(MR!Lines)]
    BY <1>1, <1>4, <1>6, <1>8, <1>9 DEF MRShape
  <2> QED BY <1>1, <1>4, <1>11, <2>1 DEF MRShape
<1>13. LivesOK' /\ EndsOK'
  BY <1>4, LivesSame, EndsSame
<1>14. ASSUME NEW i \in MR!Indices PROVE StageOK(i)'
  <2>1. PICK a, b, d, e, f : /\ a = Items(todo[SplitterOf(i)]) /\ b = Items(pipe[i])
                             /\ d = Items(todo[MapperOf(i)]) /\ e = Items(pipe[mapper_count])
                             /\ f = ReadLines(output)
    OBVIOUS
  <2>2. Stage(i, Fresh(SplitterOf(i)), a, b, d, e, f)
    BY <1>1, <2>1 DEF FlowOK, StageOK
  <2>3. f = ReadLines(output') /\ (Fresh(SplitterOf(i))' <=> Fresh(SplitterOf(i)))
    BY <1>4, <2>1 DEF Fresh
  <2>4. /\ SplitterOf(i) \in MR!Children /\ MapperOf(i) \in MR!Children /\ c # SplitterOf(i)
        /\ i \in MR!Pipes /\ mapper_count \in MR!Pipes
    BY <1>5, Names, SomeTypes
  <2>5. a = Items(todo'[SplitterOf(i)]) /\ e = Items(pipe'[mapper_count])
    BY <1>6, <1>10, <2>1, <2>4
  <2>6. CASE i = m
    <3>1. d = {}
      BY <1>4, <1>5, <2>1, <2>6, NoItems
    <3>2. Stage(i, Fresh(SplitterOf(i)), a, b \ {h}, {h}, e, f)
      BY <1>6, <1>8, <2>1, <2>2, <2>6, <3>1, StageMap
    <3>3. Items(pipe'[i]) = b \ {h} /\ Items(todo'[MapperOf(i)]) = {h}
      BY <1>5, <1>6, <1>8, <1>9, <1>10, <2>1, <2>4, <2>6
    <3>4. PICK b2, d2 : b2 = b \ {h} /\ d2 = {h}
      OBVIOUS
    <3>5. Stage(i, Fresh(SplitterOf(i)), a, b2, d2, e, f)
      BY <3>2, <3>4
    <3>6. b2 = Items(pipe'[i]) /\ d2 = Items(todo'[MapperOf(i)])
      BY <3>3, <3>4
    <3> QED BY <1>11, <2>3, <2>5, <3>5, <3>6, StageNext
  <2>7. CASE i # m
    <3>1. k # i /\ c # MapperOf(i)
      BY <1>5, <1>6, <2>7, Names
    <3>2. b = Items(pipe'[i]) /\ d = Items(todo'[MapperOf(i)])
      BY <1>10, <2>1, <2>4, <3>1
    <3> QED BY <1>11, <2>2, <2>3, <2>5, <3>2, StageNext
  <2> QED BY <2>6, <2>7
<1>15. ~Fresh(c) /\ ~Over(c) /\ \A d \in MR!Children : (Fresh(d)' <=> Fresh(d)) /\ (Over(d)' <=> Over(d))
  BY <1>4 DEF Fresh, Over
<1>16. FlowOK'
  <2>1. \A d \in MR!Children : Distinct(todo'[d]) /\ (Fresh(d)' => todo'[d] = <<>>)
    BY <1>1, <1>9, <1>10, <1>15 DEF FlowOK
  <2>2. todo'[MR!Reducer] = <<>>
    BY <1>1, <1>5, <1>10, Names DEF FlowOK
  <2>3. \A j \in MR!Pipes : Distinct(pipe'[j])
    BY <1>1, <1>8, <1>10 DEF FlowOK
  <2>4. pipe'[mapper_count] = pipe[mapper_count]
    BY <1>6, <1>10, SomeTypes
  <2> QED BY <1>1, <1>11, <1>14, <2>1, <2>2, <2>3, <2>4 DEF FlowOK, Distinct, Items, ReadLines
<1>17. EndOfInputOK'
  <2>1. SUFFICES ASSUME missing = {} PROVE EndOfInputOK'
    BY <1>11 DEF EndOfInputOK
  <2>2. \A d \in MR!Children : life'[d] # "killed" /\ (Over(d)' => todo'[d] = <<>>)
    BY <1>1, <1>4, <1>10, <1>15, <2>1 DEF EndOfInputOK
  <2>3. ASSUME NEW i \in MR!Indices, Over(MapperOf(i))
        PROVE  Over(SplitterOf(i)) /\ pipe'[i] = <<>>
    <3>1. Over(SplitterOf(i)) /\ pipe[i] = <<>>
      BY <1>1, <2>1, <2>3 DEF EndOfInputOK
    <3>2. i # k
      BY <1>5, <1>6, <1>15, <2>3
    <3> QED BY <1>10, <3>1, <3>2, SomeTypes
  <2>4. ASSUME Over(MR!Reducer)
        PROVE  pipe'[mapper_count] = <<>> /\ \A i \in MR!Indices : Over(MapperOf(i))
    BY <1>1, <1>5, <1>15, <2>1, <2>4 DEF EndOfInputOK
  <2> QED BY <1>11, <1>15, <2>2, <2>3, <2>4, Names DEF EndOfInputOK
<1> QED BY <1>12, <1>13, <1>16, <1>17 DEF MRInv

LEMMA ReduceKeeps == MRInv /\ MR!Reduce => MRInv'
<1> SUFFICES ASSUME MRInv, MR!Reduce PROVE MRInv'
  OBVIOUS
<1>1. MRShape /\ LivesOK /\ EndsOK /\ FlowOK /\ EndOfInputOK
  BY DEF MRInv
<1>2. PICK k, h : k = mapper_count /\ h = Head(pipe[k])
  OBVIOUS
<1>3. /\ life[MR!Reducer] = "running" /\ pipe[k] # <<>>
      /\ output' = [output EXCEPT ![h] = @ + 1]
      /\ pipe' = [pipe EXCEPT ![k] = Tail(@)]
      /\ UNCHANGED <<newlines, length, missing, step, life, ends_of, stdin, stdout, todo, reported>>
  BY <1>2 DEF MR!Reduce, MR!Running, MR!file, MR!reducer_pipe
<1>4. k \in MR!Pipes /\ pipe[k] \in Seq(MR!Lines) /\ Distinct(pipe[k])
  BY <1>1, <1>2, SomeTypes DEF FlowOK
<1>5. /\ h \in MR!Lines /\ h \in Items(pipe[k])
      /\ Tail(pipe[k]) \in Seq(MR!Lines) /\ Distinct(Tail(pipe[k]))
      /\ Items(Tail(pipe[k])) = Items(pipe[k]) \ {h}
  BY <1>2, <1>3, <1>4, TakeHead
<1>6. h \in 0 .. MaxLength - 1 /\ output[h] = 0
  <2>1. h \in 0 .. MaxLength - 1
    BY <1>5, SomeTypes
  <2>2. h \notin ReadLines(output)
    BY <1>1, <1>2, <1>5 DEF FlowOK
  <2> QED BY <1>1, <2>1, <2>2 DEF MRShape, ReadLines
<1>7. output' \in [0 .. MaxLength - 1 -> {0, 1}]
  BY <1>1, <1>3, <1>6 DEF MRShape
<1>8. ReadLines(output') = ReadLines(output) \cup {h}
  <2>1. \A l \in 0 .. MaxLength - 1 : output'[l] = IF l = h THEN 1 ELSE output[l]
    BY <1>1, <1>3, <1>6 DEF MRShape
  <2>2. DOMAIN output = 0 .. MaxLength - 1 /\ DOMAIN output' = 0 .. MaxLength - 1
    BY <1>1, <1>7 DEF MRShape
  <2> QED BY <1>6, <2>1, <2>2 DEF ReadLines
<1>9. \A j \in MR!Pipes : pipe'[j] = IF j = k THEN Tail(pipe[k]) ELSE pipe[j]
  BY <1>1, <1>3, <1>4 DEF MRShape
<1>10. MR!Lines' = MR!Lines /\ UNCHANGED <<newlines, length, missing>> /\ todo' = todo
  BY <1>3, SameFile
<1>11. MRShape'
  <2>1. pipe' \in [MR!Pipes -> Seq(MR!Lines)]
    BY <1>1, <1>3, <1>4, <1>5 DEF MRShape
  <2> QED BY <1>1, <1>3, <1>7, <1>10, <2>1 DEF MRShape
<1>12. LivesOK' /\ EndsOK'
  BY <1>3, LivesSame, EndsSame
<1>13. ASSUME NEW i \in MR!Indices PROVE StageOK(i)'
  <2>1. PICK a, b, d, e, f : /\ a = Items(todo[SplitterOf(i)]) /\ b = Items(pipe[i])
                             /\ d = Items(todo[MapperOf(i)]) /\ e = Items(pipe[mapper_count])
                             /\ f = ReadLines(output)
    OBVIOUS
  <2>2. Stage(i, Fresh(SplitterOf(i)), a, b, d, e, f)
    BY <1>1, <2>1 DEF FlowOK, StageOK
  <2>3. i \in MR!Pipes /\ i # k
    BY <1>2, SomeTypes
  <2>4. /\ a = Items(todo'[SplitterOf(i)]) /\ b = Items(pipe'[i]) /\ d = Items(todo'[MapperOf(i)])
        /\ (Fresh(SplitterOf(i))' <=> Fresh(SplitterOf(i)))
    BY <1>3, <1>9, <2>1, <2>3 DEF Fresh
  <2>5. PICK e2, f2 : e2 = e \ {h} /\ f2 = f \cup {h}
    OBVIOUS
  <2>6. Stage(i, Fresh(SplitterOf(i)), a, b, d, e \ {h}, f \cup {h})
    BY <1>2, <1>5, <2>1, <2>2, StageRead
  <2>7. Stage(i, Fresh(SplitterOf(i)), a, b, d, e2, f2)
    BY <2>5, <2>6
  <2>8. e2 = Items(pipe'[mapper_count]) /\ f2 = ReadLines(output')
    BY <1>2, <1>4, <1>5, <1>8, <1>9, <2>1, <2>5
  <2> QED BY <1>10, <2>4, <2>7, <2>8, StageNext
<1>14. FlowOK'
  <2>1. \A d \in MR!Children : Distinct(todo[d]) /\ (Fresh(d)' => todo[d] = <<>>)
    <3>1. \A d \in MR!Children : Fresh(d)' <=> Fresh(d)
      BY <1>3 DEF Fresh
    <3> QED BY <1>1, <3>1 DEF FlowOK
  <2>2. \A j \in MR!Pipes : Distinct(pipe'[j])
    BY <1>1, <1>5, <1>9 DEF FlowOK
  <2>3. Items(pipe'[mapper_count]) \cap ReadLines(output') = {}
    BY <1>1, <1>2, <1>4, <1>5, <1>8, <1>9 DEF FlowOK
  <2>4. ReadLines(output') \subseteq MR!Lines
    BY <1>1, <1>5, <1>8 DEF FlowOK
  <2> QED BY <1>1, <1>10, <1>13, <2>1, <2>2, <2>3, <2>4 DEF FlowOK, Distinct, Items, ReadLines
<1>15. EndOfInputOK'
  <2>1. SUFFICES ASSUME missing = {} PROVE EndOfInputOK'
    BY <1>10 DEF EndOfInputOK
  <2>2. ~Over(MR!Reducer)'
    BY <1>3 DEF Over
  <2>3. \A d \in MR!Children : Over(d)' <=> Over(d)
    BY <1>3 DEF Over
  <2>4. \A i \in MR!Indices : pipe'[i] = pipe[i]
    BY <1>2, <1>9, SomeTypes
  <2> QED BY <1>1, <1>3, <2>1, <2>2, <2>3, <2>4, Names DEF EndOfInputOK
<1> QED BY <1>11, <1>12, <1>14, <1>15 DEF MRInv

LEMMA MRNext == MRInv /\ [MR!Next]_MR!mrVars => MRInv'
<1> SUFFICES ASSUME MRInv, [MR!Next]_MR!mrVars PROVE MRInv'
  OBVIOUS
<1>1. ASSUME UNCHANGED MR!mrVars PROVE MRInv'
  <2>1. UNCHANGED <<newlines, length, missing, step, life, ends_of, stdin, stdout, todo, pipe, output, reported>>
    BY <1>1 DEF MR!mrVars, MR!file
  <2>2. MRShape'
    BY <2>1, SameFile DEF MRInv, MRShape
  <2>3. LivesOK' /\ EndsOK'
    BY <2>1, LivesSame, EndsSame
  <2>4. FlowOK'
    <3>1. \A d \in MR!Children : Fresh(d)' <=> Fresh(d)
      BY <2>1 DEF Fresh
    <3> QED BY <2>1, <3>1, SameFlow
  <2>5. EndOfInputOK'
    BY <2>1 DEF MRInv, EndOfInputOK, Over
  <2> QED BY <2>2, <2>3, <2>4, <2>5 DEF MRInv
<1>2. CASE MR!Parent
  BY <1>2, ForkKeeps, CloseKeeps, WaitKeeps DEF MR!Parent
<1>3. CASE MR!Reduce
  BY <1>3, ReduceKeeps
<1>4. CASE \E c \in MR!Children : MR!Child(c)
  <2>1. PICK c \in MR!Children : MR!Child(c)
    BY <1>4
  <2> QED BY <2>1, ExecKeeps, ExecFailsKeeps, WriteKeeps, MapKeeps, ExitKeeps DEF MR!Child
<1>5. CASE MR!Terminated
  BY <1>1, <1>5 DEF MR!Terminated
<1> QED BY <1>1, <1>2, <1>3, <1>4, <1>5 DEF MR!Next

LEMMA MRSuffices == MRInv => EveryLineOnce
<1> SUFFICES ASSUME MRInv PROVE EveryLineOnce
  OBVIOUS
<1>1. MRShape /\ LivesOK /\ FlowOK /\ EndOfInputOK
  BY DEF MRInv
<1>2. \A l \in DOMAIN output : output[l] <= 1 /\ (output[l] = 1 => l \in MR!Lines)
  <2>1. \A l \in DOMAIN output : output[l] \in {0, 1}
    BY <1>1 DEF MRShape
  <2>2. \A l \in DOMAIN output : output[l] = 1 => l \in MR!Lines
    BY <1>1 DEF FlowOK, ReadLines
  <2> QED BY <2>1, <2>2
<1>3. ASSUME MR!Done, NEW c \in MR!Children PROVE life[c] = "reaped"
  <2>1. MR!Forked + Turn(c) < step
    BY <1>3, OrderFacts, MRNumbers DEF MR!Done
  <2> QED BY <1>1, <2>1 DEF LivesOK
<1>4. ASSUME MR!Done, missing # {} PROVE reported = {c \in MR!Children : c[1] \in missing}
  BY <1>1, <1>3, <1>4 DEF LivesOK
<1>5. ASSUME MR!Done, missing = {}, NEW l \in MR!Lines PROVE output[l] = 1
  <2>1. PICK i \in MR!Indices : l \in MR!portion(i)
    BY PortionsCover, SomeTypes
  <2>2. /\ SplitterOf(i) \in MR!Children /\ MapperOf(i) \in MR!Children
        /\ MR!Reducer \in MR!Children
    BY Names
  <2>3. ~Fresh(SplitterOf(i)) /\ Over(SplitterOf(i)) /\ Over(MapperOf(i)) /\ Over(MR!Reducer)
    BY <1>3, <1>5, <2>2 DEF Fresh, Over
  <2>4. /\ todo[SplitterOf(i)] = <<>> /\ pipe[i] = <<>> /\ todo[MapperOf(i)] = <<>>
        /\ pipe[mapper_count] = <<>>
    BY <1>1, <1>5, <2>2, <2>3 DEF EndOfInputOK
  <2>5. StageOK(i)
    BY <1>1 DEF FlowOK
  <2>6. l \in ReadLines(output)
    BY <1>5, <2>1, <2>3, <2>4, <2>5, NoItems DEF StageOK, Stage
  <2> QED BY <2>6 DEF ReadLines
<1> QED BY <1>2, <1>4, <1>5 DEF EveryLineOnce, MR!EveryLineOnce

\* splitter.c, mapreduce.c:53-131: for any number of mappers, any file and any
\* size of the pipes, each line reaches the reducer once when all programs are
\* there, and the exits are reported when one is missing.
THEOREM LinesReducedOnce == MR!SafeSpec => []EveryLineOnce
<1> QED BY MRInit, MRNext, MRSuffices, PTL DEF MR!SafeSpec
===========================================================================

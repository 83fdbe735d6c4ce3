---------------------------- MODULE MonitorProofs ----------------------------
(* Proofs about the two monitors of critical_concurrency: barrier.c for      *)
(* every finite set of threads, every size of the barrier and every number   *)
(* of rounds, and semamore.c for every number of waiters and posters, every  *)
(* number of calls and every ceiling.                                        *)
EXTENDS MCMonitors, TLAPS, FiniteSetTheorems

\* A call is finished when the thread is out again.
CallsOK == \A t \in Threads :
  returned[t] = IF At(t, "out") THEN calls[t] ELSE calls[t] - 1

\* The rounds whose group has been completed with t in it.
Round(t) == IF \/ pc[t] \in {"lock", "gate", "gateWait"}
               \/ pc[t] \in {"turn", "turnWait"} /\ Gathering
            THEN calls[t] - 1 ELSE calls[t]

\* With one thread per place they all have completed the same rounds.
SameRound == Everybody => \A t, u \in Threads : Round(t) = Round(u)

\* The inductive invariant.
Safe == /\ TypeOK
        /\ MutualExclusion
        /\ CountIsChamber
        /\ NoLostWakeup
        /\ CallsOK
        /\ SameRound

---------------------------------------------------------------------------
\* The chamber is finite, and grows and shrinks by one thread.
LEMMA ChamberFinite == IsFiniteSet(Chamber) /\ Cardinality(Chamber) \in Nat
<1>1. Chamber \in SUBSET Threads
  BY DEF Chamber
<1>2. IsFiniteSet(Chamber)
  BY <1>1, FS_Subset, BarrierAssumption
<1> QED BY <1>2, FS_CardinalityType

\* A thread at the gate that completes the group completes it with everybody in
\* the chamber.
LEMMA GroupSize ==
  ASSUME CountIsChamber, NEW t \in Threads, t \notin Chamber
  PROVE  IsFiniteSet(Chamber \cup {t}) /\ Cardinality(Chamber \cup {t}) = count + 1
BY ChamberFinite, FS_AddElement DEF CountIsChamber

\* A set of threads as large as the barrier is everybody, when there is one
\* thread per place.
LEMMA FullGroup ==
  ASSUME CountIsChamber, Everybody, NEW t \in Threads, t \notin Chamber, count + 1 = n_threads
  PROVE  Chamber \cup {t} = Threads
<1>1. Chamber \cup {t} \in SUBSET Threads
  BY DEF Chamber
<1>2. Cardinality(Threads) = Cardinality(Chamber \cup {t})
  BY GroupSize DEF Everybody
<1> QED BY <1>1, <1>2, FS_Subset, BarrierAssumption

---------------------------------------------------------------------------
\* barrier_init establishes the invariant.
LEMMA InitSafe == Init => Safe
<1> SUFFICES ASSUME Init PROVE Safe
  OBVIOUS
<1> USE BarrierAssumption, MonitorAssumption DEF Init, MonitorInit
<1>1. TypeOK
  <2>1. pc \in [Threads -> Labels]
    BY DEF Labels
  <2>2. calls \in [Threads -> 0 .. Rounds] /\ returned \in [Threads -> 0 .. Rounds]
    OBVIOUS
  <2>3. n_threads \in Sizes /\ count \in 0 .. n_threads - 1
    OBVIOUS
  <2> QED BY <2>1, <2>2, <2>3 DEF TypeOK
<1>2. MutualExclusion
  BY DEF MutualExclusion, Inside
<1>3. CountIsChamber
  <2>1. Chamber = {}
    BY DEF Chamber
  <2> QED BY <2>1, FS_EmptySet DEF CountIsChamber, Gathering
<1>4. NoLostWakeup /\ CallsOK
  BY DEF NoLostWakeup, CallsOK, At
<1>5. SameRound
  BY DEF SameRound, Round
<1> QED BY <1>1, <1>2, <1>3, <1>4, <1>5 DEF Safe

\* A thread enters barrier_wait.
LEMMA CallSafe ==
  ASSUME Safe, NEW t \in Threads, Call(t)
  PROVE  Safe'
<1> USE DEF Call, Safe, At, Goto, barrier
<1>1. calls \in [Threads -> 0 .. Rounds] /\ calls[t] + 1 \in 0 .. Rounds
  BY BarrierAssumption DEF TypeOK
<1>2. TypeOK'
  <2>1. pc' \in [Threads -> Labels]
    BY DEF TypeOK, Labels
  <2>2. calls' \in [Threads -> 0 .. Rounds]
    BY <1>1
  <2> QED BY <2>1, <2>2 DEF TypeOK
<1>3. MutualExclusion'
  BY MonitorAssumption DEF TypeOK, MutualExclusion, Inside
<1>4. CountIsChamber'
  <2>1. Chamber' = Chamber
    BY DEF Chamber, TypeOK
  <2> QED BY <2>1 DEF CountIsChamber, Gathering
<1>5. NoLostWakeup'
  BY DEF TypeOK, NoLostWakeup, Gathering
<1>6. CallsOK'
  BY <1>1 DEF TypeOK, CallsOK
<1>7. SameRound'
  <2>1. \A u \in Threads : Round(u)' = Round(u)
    BY <1>1 DEF TypeOK, Round, Gathering
  <2> QED BY <2>1 DEF SameRound, Everybody
<1> QED BY <1>2, <1>3, <1>4, <1>5, <1>6, <1>7

\* A thread takes the mutex, for the first time or again after a wakeup.
LEMMA LockSafe ==
  ASSUME Safe, NEW t \in Threads, Lock(t) \/ GateRelock(t) \/ TurnRelock(t)
  PROVE  Safe'
<1> USE DEF Lock, GateRelock, TurnRelock, Safe, At, Goto, Acquire, Awake, barrier
<1>1. TypeOK'
  BY DEF TypeOK, Labels, Inside
<1>2. MutualExclusion'
  BY MonitorAssumption DEF TypeOK, MutualExclusion, Inside
<1>3. CountIsChamber'
  <2>1. Chamber' = Chamber
    BY DEF Chamber, TypeOK
  <2> QED BY <2>1 DEF CountIsChamber, Gathering
<1>4. NoLostWakeup'
  BY DEF TypeOK, NoLostWakeup, Gathering
<1>5. CallsOK'
  BY DEF TypeOK, CallsOK
<1>6. SameRound'
  <2>1. \A u \in Threads : Round(u)' = Round(u)
    BY DEF TypeOK, Round, Gathering
  <2> QED BY <2>1 DEF SameRound, Everybody
<1> QED BY <1>1, <1>2, <1>3, <1>4, <1>5, <1>6

\* A thread falls asleep, at the gate or waiting for its group.
LEMMA SleepSafe ==
  ASSUME Safe, NEW t \in Threads, GateSleep(t) \/ TurnSleep(t)
  PROVE  Safe'
<1> USE DEF GateSleep, TurnSleep, Safe, At, Goto, FallAsleep, Release, barrier
<1>1. TypeOK'
  BY DEF TypeOK, Labels, Inside
<1>2. MutualExclusion'
  BY MonitorAssumption DEF TypeOK, MutualExclusion, Inside
<1>3. CountIsChamber'
  <2>1. Chamber' = Chamber
    BY DEF Chamber, TypeOK
  <2> QED BY <2>1 DEF CountIsChamber, Gathering
<1>4. NoLostWakeup'
  BY DEF TypeOK, NoLostWakeup, Gathering
<1>5. CallsOK'
  BY DEF TypeOK, CallsOK
<1>6. SameRound'
  <2>1. \A u \in Threads : Round(u)' = Round(u)
    BY DEF TypeOK, Round, Gathering
  <2> QED BY <2>1 DEF SameRound, Everybody
<1> QED BY <1>1, <1>2, <1>3, <1>4, <1>5, <1>6

\* A thread joins a group that is not complete yet.
LEMMA GatherSafe ==
  ASSUME Safe, NEW t \in Threads, Gather(t)
  PROVE  Safe'
<1> USE DEF Gather, Safe, At, Goto
<1>1. n_threads \in Nat /\ count \in 0 .. n_threads - 1 /\ count + 1 \in 0 .. n_threads - 1
  BY BarrierAssumption DEF TypeOK
<1>2. TypeOK'
  <2>1. pc' \in [Threads -> Labels]
    BY DEF TypeOK, Labels, Inside
  <2> QED BY <1>1, <2>1 DEF TypeOK
<1>3. MutualExclusion'
  BY MonitorAssumption DEF TypeOK, MutualExclusion, Inside
<1>4. CountIsChamber'
  <2>1. t \notin Chamber /\ Chamber' = Chamber \cup {t}
    BY DEF Chamber, TypeOK
  <2> QED BY <1>1, <2>1, GroupSize DEF CountIsChamber, Gathering
<1>5. NoLostWakeup'
  BY DEF TypeOK, NoLostWakeup, Gathering
<1>6. CallsOK'
  BY DEF TypeOK, CallsOK
<1>7. SameRound'
  <2>1. \A u \in Threads : Round(u)' = Round(u)
    BY DEF TypeOK, Round, Gathering
  <2> QED BY <2>1 DEF SameRound, Everybody
<1> QED BY <1>2, <1>3, <1>4, <1>5, <1>6, <1>7

\* The last of a group turns the barrier: with one thread per place everybody
\* is in the group, so that everybody's round goes up by one.
LEMMA GatherLastSafe ==
  ASSUME Safe, NEW t \in Threads, GatherLast(t)
  PROVE  Safe'
<1> USE DEF GatherLast, Safe, At, Goto, WakeAll
<1>1. TypeOK'
  BY DEF TypeOK, Labels, Inside
<1>2. MutualExclusion'
  BY MonitorAssumption DEF TypeOK, MutualExclusion, Inside
<1>3. t \notin Chamber /\ Chamber' = Chamber
  BY DEF Chamber, TypeOK
<1>4. CountIsChamber'
  <2>1. n_threads \in Nat /\ count \in Nat
    BY BarrierAssumption DEF TypeOK
  <2> QED BY <1>3, <2>1 DEF CountIsChamber, Gathering
<1>5. NoLostWakeup'
  BY DEF NoLostWakeup
<1>6. CallsOK'
  BY DEF TypeOK, CallsOK
<1>7. SameRound'
  <2> SUFFICES ASSUME Everybody PROVE \A u, v \in Threads : Round(u)' = Round(v)'
    BY DEF SameRound, Everybody
  <2>1. Chamber \cup {t} = Threads
    BY <1>3, FullGroup
  <2>2. \A u \in Threads : Round(u)' = Round(u) + 1
    <3> SUFFICES ASSUME NEW u \in Threads PROVE Round(u)' = Round(u) + 1
      OBVIOUS
    <3>1. calls[u] \in 0 .. Rounds
      BY DEF TypeOK
    <3>2. CASE u = t
      BY <3>1, <3>2, BarrierAssumption DEF Round, Gathering, TypeOK
    <3>3. CASE u # t
      <4>1. pc[u] \in {"turn", "turnWait"} /\ pc'[u] = pc[u]
        BY <2>1, <3>3 DEF Chamber, TypeOK
      <4> QED BY <3>1, <4>1, BarrierAssumption DEF Round, Gathering
    <3> QED BY <3>2, <3>3
  <2> QED BY <2>2 DEF SameRound
<1> QED BY <1>1, <1>2, <1>4, <1>5, <1>6, <1>7

\* A thread leaves the chamber, and opens the gate if it is the last.
LEMMA LeaveSafe ==
  ASSUME Safe, NEW t \in Threads, Leave(t)
  PROVE  Safe'
<1> USE DEF Leave, Safe, At, Goto, WakeAll
<1>1. /\ IsFiniteSet(Chamber) /\ t \in Chamber /\ Chamber' = Chamber \ {t}
      /\ count = Cardinality(Chamber)
  BY ChamberFinite DEF Chamber, TypeOK, CountIsChamber
<1>2. Cardinality(Chamber') = count - 1 /\ Cardinality(Chamber') \in Nat
  BY <1>1, FS_RemoveElement, FS_CardinalityType
<1>3. n_threads \in Nat /\ count \in 1 .. n_threads - 1 /\ count' \in 0 .. n_threads - 1
  BY <1>1, <1>2, BarrierAssumption DEF TypeOK
<1>4. TypeOK'
  <2>1. pc' \in [Threads -> Labels] /\ times_used' \in {0, 1}
    BY DEF TypeOK, Labels, Inside
  <2> QED BY <1>3, <2>1 DEF TypeOK
<1>5. MutualExclusion'
  BY MonitorAssumption DEF TypeOK, MutualExclusion, Inside
<1>6. CountIsChamber'
  BY <1>2, <1>3 DEF CountIsChamber, Gathering
<1>7. NoLostWakeup'
  BY DEF NoLostWakeup
<1>8. CallsOK'
  BY DEF TypeOK, CallsOK
<1>9. SameRound'
  <2>1. Gathering' => Chamber' = {}
    BY <1>1, <1>2, FS_RemoveElement, FS_EmptySet DEF Gathering
  <2>2. \A u \in Threads : Round(u)' = Round(u)
    <3> SUFFICES ASSUME NEW u \in Threads PROVE Round(u)' = Round(u)
      OBVIOUS
    <3>1. CASE u = t
      BY <3>1 DEF Round, TypeOK
    <3>2. CASE u # t
      BY <2>1, <3>2 DEF Round, Chamber, TypeOK
    <3> QED BY <3>1, <3>2
  <2> QED BY <2>2 DEF SameRound, Everybody
<1> QED BY <1>4, <1>5, <1>6, <1>7, <1>8, <1>9

\* A call returns.
LEMMA UnlockSafe ==
  ASSUME Safe, NEW t \in Threads, Unlock(t)
  PROVE  Safe'
<1> USE DEF Unlock, Safe, At, Goto, Release, barrier
<1>1. /\ returned \in [Threads -> 0 .. Rounds] /\ calls \in [Threads -> 0 .. Rounds]
      /\ returned[t] = calls[t] - 1
  BY DEF TypeOK, CallsOK
<1>2. returned[t] + 1 = calls[t] /\ calls[t] \in 0 .. Rounds
  BY <1>1, BarrierAssumption
<1>3. TypeOK'
  <2>1. pc' \in [Threads -> Labels]
    BY DEF TypeOK, Labels
  <2>2. returned' \in [Threads -> 0 .. Rounds]
    BY <1>1, <1>2
  <2> QED BY <2>1, <2>2 DEF TypeOK
<1>4. MutualExclusion'
  BY MonitorAssumption DEF TypeOK, MutualExclusion, Inside
<1>5. CountIsChamber'
  <2>1. Chamber' = Chamber
    BY DEF Chamber, TypeOK
  <2> QED BY <2>1 DEF CountIsChamber, Gathering
<1>6. NoLostWakeup'
  BY DEF TypeOK, NoLostWakeup, Gathering
<1>7. CallsOK'
  BY <1>1, <1>2 DEF TypeOK, CallsOK
<1>8. SameRound'
  <2>1. \A u \in Threads : Round(u)' = Round(u)
    BY DEF TypeOK, Round, Gathering
  <2> QED BY <2>1 DEF SameRound, Everybody
<1> QED BY <1>3, <1>4, <1>5, <1>6, <1>7, <1>8

\* A sleeper wakes up for no reason; barrier_destroy; steps that change nothing.
LEMMA OtherSafe ==
  ASSUME Safe, (\E t \in Threads : Wakeup(t)) \/ Destroy \/ UNCHANGED vars
  PROVE  Safe'
<1>1. /\ UNCHANGED <<n_threads, count, times_used, calls, returned, pc, owner>>
      /\ waiting' \subseteq waiting /\ spurious' \in Nat /\ destroyed' \in BOOLEAN
  <2> USE DEF Safe, TypeOK, barrier, monitorVars
  <2>1. CASE \E t \in Threads : Wakeup(t)
    <3> PICK t \in Threads : Wakeup(t)
      BY <2>1
    <3> QED BY DEF Wakeup, SpuriousWakeup
  <2>2. CASE Destroy
    BY <2>2 DEF Destroy
  <2>3. CASE UNCHANGED vars
    BY <2>3 DEF vars
  <2> QED BY <2>1, <2>2, <2>3
<1>2. TypeOK'
  BY <1>1 DEF Safe, TypeOK
<1>3. MutualExclusion' /\ CallsOK' /\ NoLostWakeup'
  BY <1>1 DEF Safe, MutualExclusion, CallsOK, NoLostWakeup, At, Gathering
<1>4. CountIsChamber'
  BY <1>1 DEF Safe, CountIsChamber, Chamber, Gathering
<1>5. SameRound'
  BY <1>1 DEF Safe, SameRound, Everybody, Round, Gathering
<1> QED BY <1>2, <1>3, <1>4, <1>5 DEF Safe

LEMMA StepSafe == Safe /\ [Next]_vars => Safe'
<1> SUFFICES ASSUME Safe, [Next]_vars PROVE Safe'
  OBVIOUS
<1> USE DEF Next, Step, Terminated
<1>1. CASE \E t \in Threads : Step(t)
  <2> PICK t \in Threads : Step(t)
    BY <1>1
  <2>1. CASE Call(t)
    BY <2>1, CallSafe
  <2>2. CASE Lock(t) \/ GateRelock(t) \/ TurnRelock(t)
    BY <2>2, LockSafe
  <2>3. CASE GateSleep(t) \/ TurnSleep(t)
    BY <2>3, SleepSafe
  <2>4. CASE Gather(t)
    BY <2>4, GatherSafe
  <2>5. CASE GatherLast(t)
    BY <2>5, GatherLastSafe
  <2>6. CASE Leave(t)
    BY <2>6, LeaveSafe
  <2>7. CASE Unlock(t)
    BY <2>7, UnlockSafe
  <2> QED BY <2>1, <2>2, <2>3, <2>4, <2>5, <2>6, <2>7
<1>2. CASE (\E t \in Threads : Wakeup(t)) \/ Destroy \/ UNCHANGED vars
  BY <1>2, OtherSafe
<1> QED BY <1>1, <1>2

\* The inductive invariant holds in every reachable state.
LEMMA AlwaysSafe == SafeSpec => []Safe
BY InitSafe, StepSafe, PTL DEF SafeSpec

---------------------------------------------------------------------------
\* The barrier is touched by the owner of the mutex only, and count is the number
\* of threads between the gate and their turn, whatever rounds overlap
\* (barrier.c:26-47).
THEOREM BarrierConsistent == Spec => []Consistent
<1>1. Safe => Consistent
  BY DEF Safe, Consistent
<1> QED BY <1>1, AlwaysSafe, PTL DEF Spec

\* Whoever sleeps at the gate waits for a group that is still leaving, whoever
\* sleeps in the chamber for a group that is not complete (barrier.c:29-39).
THEOREM BarrierNoLostWakeup == Spec => []NoLostWakeup
<1>1. Safe => NoLostWakeup
  BY DEF Safe
<1> QED BY <1>1, AlwaysSafe, PTL DEF Spec

\* With one thread per place nobody returns from round k before everybody has
\* begun it (barrier_tests.c:43).
THEOREM BarrierRoundsSynchronised == Spec => []RoundsSynchronised
<1>1. Safe => RoundsSynchronised
  <2> SUFFICES ASSUME Safe, Everybody, NEW t \in Threads, NEW u \in Threads
               PROVE  returned[t] <= calls[u]
    BY DEF RoundsSynchronised
  <2>1. calls[t] \in 0 .. Rounds /\ calls[u] \in 0 .. Rounds
    BY DEF Safe, TypeOK
  <2>2. returned[t] <= Round(t)
    BY <2>1, BarrierAssumption DEF Safe, CallsOK, Round, At
  <2>3. Round(t) = Round(u)
    BY DEF Safe, SameRound
  <2>4. Round(u) <= calls[u]
    BY <2>1, BarrierAssumption DEF Round
  <2>5. returned[t] \in Int /\ Round(t) \in Int /\ Round(u) \in Int
    BY <2>1, BarrierAssumption DEF Safe, TypeOK, Round
  <2> QED BY <2>1, <2>2, <2>3, <2>4, <2>5
<1> QED BY <1>1, AlwaysSafe, PTL DEF Spec

---------------------------------------------------------------------------
\* Refinement.

\* A barrier before its first call holds nobody.
LEMMA InitRefines == Init => Atomic!Init
BY BarrierAssumption DEF Init, MonitorInit, Phase, Atomic!Init

\* The thread that completes a group lets go exactly that group, n_threads of
\* them; nobody else is let through or held by it.
LEMMA LastTrips ==
  ASSUME Safe, NEW t \in Threads, GatherLast(t)
  PROVE  Atomic!Trip
<1> DEFINE group == Chamber \cup {t}
<1> USE DEF GatherLast, At, Goto
<1>1. t \notin Chamber /\ count + 1 = n_threads
  BY DEF Chamber
<1>2. Cardinality(group) = n_threads
  BY <1>1, GroupSize DEF Safe
<1>3. group \subseteq Atomic!Held
  BY DEF Chamber, Atomic!Held, Phase
<1>4. Phase' = [u \in Threads |-> IF u \in group THEN "through" ELSE Phase[u]]
  BY DEF Safe, TypeOK, Labels, Inside, Chamber, Phase, Gathering
<1>5. UNCHANGED <<n_threads, calls>>
  OBVIOUS
<1>6. Atomic!Cardinality(group) = Cardinality(group)
  BY ONLY DEF Atomic!Cardinality, Cardinality
<1> HIDE DEF group
<1> QED BY ONLY <1>2, <1>3, <1>4, <1>5, <1>6 DEF Atomic!Trip

\* Every other step is an arrival, a departure, or invisible.
LEMMA StepRefines ==
  ASSUME Safe, Safe', [Next]_vars
  PROVE  [Atomic!Next]_(Atomic!vars)
<1> USE DEF At, Goto, barrier
<1>1. TypeOK /\ pc' \in [Threads -> Labels]
  BY DEF Safe, TypeOK
<1>2. ASSUME NEW t \in Threads, Call(t) PROVE Atomic!Arrive(t)
  BY <1>1, <1>2 DEF Call, TypeOK, Phase, Gathering, Atomic!Arrive
<1>3. ASSUME NEW t \in Threads, Unlock(t) PROVE Atomic!Depart(t)
  BY <1>1, <1>3 DEF Unlock, TypeOK, Phase, Gathering, Atomic!Depart
<1>4. ASSUME NEW t \in Threads, Lock(t) \/ GateRelock(t) \/ TurnRelock(t) \/ GateSleep(t) \/ TurnSleep(t)
      PROVE  UNCHANGED Atomic!vars
  BY <1>1, <1>4 DEF Lock, GateRelock, TurnRelock, GateSleep, TurnSleep, TypeOK, Phase,
                    Gathering, Atomic!vars
<1>5. ASSUME NEW t \in Threads, Gather(t) PROVE UNCHANGED Atomic!vars
  BY <1>1, <1>5 DEF Gather, TypeOK, Phase, Gathering, Atomic!vars
<1>6. ASSUME NEW t \in Threads, Leave(t) PROVE UNCHANGED Atomic!vars
  <2>1. Gathering' => Chamber' = {}
    <3>1. Chamber' \in SUBSET Threads
      BY DEF Chamber
    <3>2. IsFiniteSet(Chamber')
      BY <3>1, FS_Subset, BarrierAssumption
    <3>3. Gathering' => Cardinality(Chamber') = 0
      BY <1>6 DEF Safe, CountIsChamber, Leave, Gathering
    <3> QED BY <3>2, <3>3, FS_EmptySet
  <2>2. Phase' = Phase
    BY <1>1, <1>6, <2>1 DEF Leave, TypeOK, Phase, Gathering, Chamber
  <2> QED BY <1>6, <2>2 DEF Leave, Atomic!vars
<1>7. ASSUME (\E t \in Threads : Wakeup(t)) \/ Destroy \/ UNCHANGED vars
      PROVE  UNCHANGED Atomic!vars
  BY <1>7 DEF Wakeup, SpuriousWakeup, Destroy, vars, monitorVars, Phase, Gathering, Atomic!vars
<1>8. CASE \E t \in Threads : Step(t)
  BY <1>2, <1>3, <1>4, <1>5, <1>6, <1>8, LastTrips DEF Step, Atomic!Next
<1> QED BY <1>7, <1>8 DEF Next, Terminated

\* barrier.c lets threads through in groups of exactly n_threads, whatever the
\* number of threads that use it (barrier.h).
THEOREM BarrierReleasesGroups == SafeSpec => Atomic!SafeSpec
BY InitRefines, StepRefines, AlwaysSafe, PTL DEF SafeSpec, Atomic!SafeSpec

---------------------------------------------------------------------------
(* The semaphore.                                                          *)

\* The inductive invariant: the value is changed under the mutex, and whoever
\* changes it is at its broadcast until every sleeper is awake.
SemSafe == Sem!Consistent /\ Sem!NoLostWakeup

---------------------------------------------------------------------------
\* semm_init establishes the invariant.
LEMMA SemInit == Sem!Init => SemSafe
<1> SUFFICES ASSUME Sem!Init PROVE SemSafe
  OBVIOUS
<1> USE SemamoreOK, MonitorAssumption DEF Sem!SemamoreAssumption, SemSafe, Sem!Consistent, Sem!Init, Sem!MonitorInit
<1>1. Sem!TypeOK
  <2>1. semPc \in [Threads -> Sem!Labels]
    BY DEF Sem!Labels, Sem!Inside
  <2>2. semCalls \in [Threads -> Nat]
    OBVIOUS
  <2>3. value \in Nat
    OBVIOUS
  <2> QED BY <2>1, <2>2, <2>3 DEF Sem!TypeOK
<1>2. Sem!MutualExclusion
  BY DEF Sem!MutualExclusion, Sem!Inside
<1>3. Sem!ValueInRange /\ Sem!NoLostWakeup
  BY DEF Sem!ValueInRange, Sem!NoLostWakeup
<1> QED BY <1>1, <1>2, <1>3

\* A thread enters semm_wait or semm_post.
LEMMA SemCall ==
  ASSUME SemSafe, NEW t \in Threads, Sem!Call(t)
  PROVE  SemSafe'
<1> USE DEF SemSafe, Sem!Consistent, Sem!At, Sem!Call, Sem!Goto
<1>1. Sem!TypeOK'
  <2>1. semPc' \in [Threads -> Sem!Labels]
    BY DEF Sem!TypeOK, Sem!Labels, Sem!Inside
  <2>2. semCalls[t] + 1 \in Nat
    BY DEF Sem!TypeOK
  <2> QED BY <2>1, <2>2 DEF Sem!TypeOK
<1>2. Sem!MutualExclusion'
  BY MonitorAssumption DEF Sem!TypeOK, Sem!MutualExclusion, Sem!Inside
<1>3. Sem!ValueInRange'
  BY DEF Sem!ValueInRange
<1>4. Sem!NoLostWakeup'
  BY DEF Sem!TypeOK, Sem!NoLostWakeup, Sem!Blocked
<1> QED BY <1>1, <1>2, <1>3, <1>4

\* A thread takes the mutex, for the first time or again after a wakeup.
LEMMA SemLock ==
  ASSUME SemSafe, NEW t \in Threads, Sem!Lock(t) \/ Sem!Relock(t)
  PROVE  SemSafe'
<1> USE DEF SemSafe, Sem!Consistent, Sem!At, Sem!Lock, Sem!Relock, Sem!Goto, Sem!Acquire, Sem!Awake
<1>1. Sem!TypeOK'
  BY DEF Sem!TypeOK, Sem!Labels, Sem!Inside
<1>2. Sem!MutualExclusion'
  BY MonitorAssumption DEF Sem!TypeOK, Sem!MutualExclusion, Sem!Inside
<1>3. Sem!ValueInRange'
  BY DEF Sem!ValueInRange
<1>4. Sem!NoLostWakeup'
  BY DEF Sem!TypeOK, Sem!NoLostWakeup, Sem!Blocked
<1> QED BY <1>1, <1>2, <1>3, <1>4

\* A thread that has to wait falls asleep and lets go of the mutex in one step.
LEMMA SemSleep ==
  ASSUME SemSafe, NEW t \in Threads, Sem!Sleep(t)
  PROVE  SemSafe'
<1> USE DEF SemSafe, Sem!Consistent, Sem!At, Sem!Sleep, Sem!Goto, Sem!FallAsleep, Sem!Release
<1>1. Sem!TypeOK'
  BY DEF Sem!TypeOK, Sem!Labels, Sem!Inside
<1>2. Sem!MutualExclusion'
  BY MonitorAssumption DEF Sem!TypeOK, Sem!MutualExclusion, Sem!Inside
<1>3. Sem!ValueInRange'
  BY DEF Sem!ValueInRange
<1>4. Sem!NoLostWakeup'
  BY DEF Sem!TypeOK, Sem!NoLostWakeup, Sem!Blocked
<1> QED BY <1>1, <1>2, <1>3, <1>4

\* Lines 34 and 50: the value was tested under the mutex that is still held, so
\* that it stays in range; the thread goes on to its broadcast.
LEMMA SemChange ==
  ASSUME SemSafe, NEW t \in Threads, Sem!Decrement(t) \/ Sem!Increment(t)
  PROVE  SemSafe'
<1> USE DEF SemSafe, Sem!Consistent, Sem!At, Sem!Decrement, Sem!Increment, Sem!Goto
<1>1. Sem!ValueInRange'
  <2>1. CASE Sem!Decrement(t)
    BY <2>1, SemamoreOK DEF Sem!SemamoreAssumption, Sem!ValueInRange, Sem!Blocked
  <2>2. CASE Sem!Increment(t)
    <3>1. t \notin Waiters
      BY <2>2, SemamoreOK DEF Sem!SemamoreAssumption
    <3> QED BY <2>2, <3>1, SemamoreOK DEF Sem!SemamoreAssumption, Sem!ValueInRange, Sem!Blocked
  <2> QED BY <2>1, <2>2
<1>2. Sem!TypeOK'
  <2>1. value' \in Nat
    BY <1>1, SemamoreOK DEF Sem!SemamoreAssumption, Sem!ValueInRange
  <2>2. semPc' \in [Threads -> Sem!Labels]
    BY DEF Sem!TypeOK, Sem!Labels, Sem!Inside
  <2> QED BY <2>1, <2>2 DEF Sem!TypeOK
<1>3. Sem!MutualExclusion'
  BY MonitorAssumption DEF Sem!TypeOK, Sem!MutualExclusion, Sem!Inside
<1>4. Sem!NoLostWakeup'
  <2>1. semPc'[t] = "wake"
    BY DEF Sem!TypeOK
  <2> QED BY <2>1 DEF Sem!NoLostWakeup
<1> QED BY <1>1, <1>2, <1>3, <1>4

\* The broadcast leaves nobody asleep.
LEMMA SemWake ==
  ASSUME SemSafe, NEW t \in Threads, Sem!Wake(t)
  PROVE  SemSafe'
<1> USE DEF SemSafe, Sem!Consistent, Sem!At, Sem!Wake, Sem!Goto, Sem!WakeAll
<1>1. Sem!TypeOK'
  BY DEF Sem!TypeOK, Sem!Labels, Sem!Inside
<1>2. Sem!MutualExclusion'
  BY MonitorAssumption DEF Sem!TypeOK, Sem!MutualExclusion, Sem!Inside
<1>3. Sem!ValueInRange'
  BY DEF Sem!ValueInRange
<1>4. Sem!NoLostWakeup'
  BY DEF Sem!NoLostWakeup
<1> QED BY <1>1, <1>2, <1>3, <1>4

\* A thread lets go of the mutex after its broadcast.
LEMMA SemUnlock ==
  ASSUME SemSafe, NEW t \in Threads, Sem!Unlock(t)
  PROVE  SemSafe'
<1> USE DEF SemSafe, Sem!Consistent, Sem!At, Sem!Unlock, Sem!Goto, Sem!Release
<1>1. Sem!TypeOK'
  BY DEF Sem!TypeOK, Sem!Labels, Sem!Inside
<1>2. Sem!MutualExclusion'
  BY MonitorAssumption DEF Sem!TypeOK, Sem!MutualExclusion, Sem!Inside
<1>3. Sem!ValueInRange'
  BY DEF Sem!ValueInRange
<1>4. Sem!NoLostWakeup'
  BY DEF Sem!TypeOK, Sem!NoLostWakeup, Sem!Blocked
<1> QED BY <1>1, <1>2, <1>3, <1>4

\* A sleeper wakes up for no reason.
LEMMA SemWakeup ==
  ASSUME SemSafe, NEW t \in Threads, Sem!Wakeup(t)
  PROVE  SemSafe'
<1> USE DEF SemSafe, Sem!Consistent, Sem!At, Sem!Wakeup, Sem!SpuriousWakeup
<1>1. Sem!TypeOK'
  BY DEF Sem!TypeOK
<1>2. Sem!MutualExclusion' /\ Sem!ValueInRange'
  BY DEF Sem!MutualExclusion, Sem!ValueInRange
<1>3. Sem!NoLostWakeup'
  BY DEF Sem!NoLostWakeup, Sem!Blocked
<1> QED BY <1>1, <1>2, <1>3

\* semm_destroy, and steps that change nothing.
LEMMA SemDestroy ==
  ASSUME SemSafe, Sem!Destroy \/ UNCHANGED Sem!vars
  PROVE  SemSafe'
<1> USE DEF SemSafe, Sem!Consistent, Sem!At
<1>1. UNCHANGED <<value, semCalls, Sem!monitorVars>> /\ semDestroyed' \in BOOLEAN
  BY DEF Sem!Destroy, Sem!vars, Sem!TypeOK
<1>2. Sem!TypeOK'
  BY <1>1 DEF Sem!TypeOK, Sem!monitorVars
<1>3. Sem!MutualExclusion' /\ Sem!ValueInRange' /\ Sem!NoLostWakeup'
  BY <1>1 DEF Sem!MutualExclusion, Sem!ValueInRange, Sem!NoLostWakeup, Sem!Blocked, Sem!monitorVars
<1> QED BY <1>2, <1>3

LEMMA SemStep == SemSafe /\ [Sem!Next]_Sem!vars => SemSafe'
<1> SUFFICES ASSUME SemSafe, [Sem!Next]_Sem!vars PROVE SemSafe'
  OBVIOUS
<1> USE DEF Sem!Next, Sem!Step, Sem!Terminated
<1>1. CASE \E t \in Threads : Sem!Step(t) \/ Sem!Wakeup(t)
  <2> PICK t \in Threads : Sem!Step(t) \/ Sem!Wakeup(t)
    BY <1>1
  <2>1. CASE Sem!Call(t)
    BY <2>1, SemCall
  <2>2. CASE Sem!Lock(t) \/ Sem!Relock(t)
    BY <2>2, SemLock
  <2>3. CASE Sem!Sleep(t)
    BY <2>3, SemSleep
  <2>4. CASE Sem!Decrement(t) \/ Sem!Increment(t)
    BY <2>4, SemChange
  <2>5. CASE Sem!Wake(t)
    BY <2>5, SemWake
  <2>6. CASE Sem!Unlock(t)
    BY <2>6, SemUnlock
  <2>7. CASE Sem!Wakeup(t)
    BY <2>7, SemWakeup
  <2> QED BY <2>1, <2>2, <2>3, <2>4, <2>5, <2>6, <2>7
<1>2. CASE Sem!Destroy \/ UNCHANGED Sem!vars
  BY <1>2, SemDestroy
<1> QED BY <1>1, <1>2

\* The inductive invariant holds in every reachable state.
LEMMA SemAlways == Sem!Spec => []SemSafe
<1>1. Sem!Init => SemSafe
  BY SemInit
<1>2. SemSafe /\ [Sem!Next]_Sem!vars => SemSafe'
  BY SemStep
<1> QED BY <1>1, <1>2, PTL DEF Sem!Spec, Sem!SafeSpec

---------------------------------------------------------------------------
\* The value stays between 0 and the ceiling and is touched by the owner of the
\* mutex only, whatever number of threads wakes at a broadcast (semamore.c:29-56).
THEOREM SemamoreConsistent == Sem!Spec => []SemConsistent
<1>1. SemSafe => SemConsistent
  BY DEF SemSafe, SemConsistent
<1> QED BY <1>1, SemAlways, PTL DEF Sem!Spec

\* With one condition variable for waiters and posters no wakeup is lost: a
\* sleeper either still has to wait or is about to be woken (semamore.c:33-56).
THEOREM SemamoreNoLostWakeup == Sem!Spec => []SemNoLostWakeup
<1>1. SemSafe => SemNoLostWakeup
  BY DEF SemSafe, SemNoLostWakeup
<1> QED BY <1>1, SemAlways, PTL DEF Sem!Spec
=============================================================================

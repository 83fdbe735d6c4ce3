------------------------------ MODULE Barrier ------------------------------
(* critical_concurrency/barrier.c: a reusable barrier made of a counter, a   *)
(* two-valued turn (times_used is 1 while threads gather and 0 while they    *)
(* leave), a mutex and one condition variable on which late-comers and       *)
(* gathered threads sleep together.  Each thread calls barrier_wait Rounds   *)
(* times, as in barrier_tests.c; the threads are joined and the barrier is   *)
(* destroyed.                                                                *)
EXTENDS Monitor, FiniteSets

CONSTANTS Sizes,    \* what barrier_init may be told
          Rounds

ASSUME BarrierAssumption == /\ IsFiniteSet(Threads)
                            /\ Sizes \subseteq Nat \ {0}
                            /\ Rounds \in Nat

VARIABLES n_threads, count, times_used,   \* barrier_t
          calls,               \* calls[t]: calls of barrier_wait begun by t
          returned,            \* returned[t]: calls of barrier_wait finished by t
          destroyed

barrier == <<count, times_used>>
vars == <<n_threads, barrier, calls, returned, destroyed, monitorVars>>

Inside == {"gate", "turn", "unlock"}
Labels == Inside \cup {"out", "lock", "gateWait", "turnWait"}

\* barrier_init
Init == /\ n_threads \in Sizes /\ count = 0 /\ times_used = 1
        /\ calls = [t \in Threads |-> 0]
        /\ returned = [t \in Threads |-> 0]
        /\ destroyed = FALSE
        /\ MonitorInit("out")

Gathering == times_used = 1

Call(t) == /\ At(t, "out") /\ calls[t] < Rounds
           /\ calls' = [calls EXCEPT ![t] = @ + 1]
           /\ Goto(t, "lock")
           /\ UNCHANGED <<n_threads, barrier, returned, destroyed, owner, waiting, spurious>>

Lock(t) == /\ At(t, "lock")
           /\ Acquire(t)
           /\ Goto(t, "gate")
           /\ UNCHANGED <<n_threads, barrier, calls, returned, destroyed, waiting, spurious>>

\* Lines 29-30: the group before is still leaving.
GateSleep(t) == /\ At(t, "gate") /\ ~Gathering
                /\ FallAsleep(t)
                /\ Goto(t, "gateWait")
                /\ UNCHANGED <<n_threads, barrier, calls, returned, destroyed, spurious>>

GateRelock(t) == /\ At(t, "gateWait") /\ Awake(t)
                 /\ Acquire(t)
                 /\ Goto(t, "gate")
                 /\ UNCHANGED <<n_threads, barrier, calls, returned, destroyed, waiting, spurious>>

\* Line 31, and the test of line 32 fails: wait for the others.
Gather(t) == /\ At(t, "gate") /\ Gathering /\ count + 1 # n_threads
             /\ count' = count + 1
             /\ Goto(t, "turn")
             /\ UNCHANGED <<n_threads, times_used, calls, returned, destroyed, owner, waiting, spurious>>

\* Slip: the gate of lines 29-30 is left out.
GatherLastNoGate(t) == /\ At(t, "gate") /\ count + 1 = n_threads
                       /\ times_used' = 0
                       /\ WakeAll
                       /\ Goto(t, "unlock")
                       /\ UNCHANGED <<n_threads, count, calls, returned, destroyed, owner, spurious>>

\* Slip: the broadcast of line 35 is left out.
GatherLastNoWake(t) == /\ At(t, "gate") /\ Gathering /\ count + 1 = n_threads
                       /\ times_used' = 0
                       /\ Goto(t, "unlock")
                       /\ UNCHANGED <<n_threads, count, calls, returned, destroyed, owner, waiting, spurious>>

\* Lines 31-36: the last of the group turns the barrier and is the first to leave.
GatherLast(t) == /\ At(t, "gate") /\ Gathering /\ count + 1 = n_threads
                 /\ times_used' = 0
                 /\ UNCHANGED count   \* count++ and count--
                 /\ WakeAll
                 /\ Goto(t, "unlock")
                 /\ UNCHANGED <<n_threads, calls, returned, destroyed, owner, spurious>>

TurnSleep(t) == /\ At(t, "turn") /\ Gathering
                /\ FallAsleep(t)
                /\ Goto(t, "turnWait")
                /\ UNCHANGED <<n_threads, barrier, calls, returned, destroyed, spurious>>

TurnRelock(t) == /\ At(t, "turnWait") /\ Awake(t)
                 /\ Acquire(t)
                 /\ Goto(t, "turn")
                 /\ UNCHANGED <<n_threads, barrier, calls, returned, destroyed, waiting, spurious>>

\* Slip: the first thread to leave already opens the gate.
LeaveOpensGate(t) == /\ At(t, "turn") /\ ~Gathering
                     /\ count' = count - 1
                     /\ times_used' = 1
                     /\ WakeAll
                     /\ Goto(t, "unlock")
                     /\ UNCHANGED <<n_threads, calls, returned, destroyed, owner, spurious>>

\* Slip: the counter is tested before it is decremented.
LeaveTestsFirst(t) == /\ At(t, "turn") /\ ~Gathering
                      /\ count' = count - 1
                      /\ times_used' = IF count = 0 THEN 1 ELSE times_used
                      /\ WakeAll
                      /\ Goto(t, "unlock")
                      /\ UNCHANGED <<n_threads, calls, returned, destroyed, owner, spurious>>

\* Lines 40-43: the last to leave opens the gate for the next group.
Leave(t) == /\ At(t, "turn") /\ ~Gathering
            /\ count' = count - 1
            /\ times_used' = IF count' = 0 THEN 1 ELSE times_used
            /\ WakeAll
            /\ Goto(t, "unlock")
            /\ UNCHANGED <<n_threads, calls, returned, destroyed, owner, spurious>>

Unlock(t) == /\ At(t, "unlock")
             /\ Release(t)
             /\ Goto(t, "out")
             /\ returned' = [returned EXCEPT ![t] = @ + 1]
             /\ UNCHANGED <<n_threads, barrier, calls, destroyed, waiting, spurious>>

Finished(t) == At(t, "out") /\ calls[t] = Rounds

\* barrier_destroy, after pthread_join of every thread (barrier_tests.c:83-101).
Destroy == /\ ~destroyed /\ \A t \in Threads : Finished(t)
           /\ destroyed' = TRUE
           /\ UNCHANGED <<n_threads, barrier, calls, returned, monitorVars>>

Terminated == destroyed /\ UNCHANGED vars

Wakeup(t) == SpuriousWakeup(t) /\ UNCHANGED <<n_threads, barrier, calls, returned, destroyed>>

Step(t) == \/ Call(t) \/ Lock(t) \/ GateSleep(t) \/ GateRelock(t) \/ Gather(t)
           \/ GatherLast(t) \/ TurnSleep(t) \/ TurnRelock(t) \/ Leave(t) \/ Unlock(t)

Next == \/ \E t \in Threads : Step(t) \/ Wakeup(t)
        \/ Destroy
        \/ Terminated

SafeSpec == Init /\ [][Next]_vars
Spec == SafeSpec /\ WF_vars(Destroy) /\ \A t \in Threads : WF_vars(Step(t))

---------------------------------------------------------------------------
(* Properties.                                                             *)

\* Shape of the state: the counter never reaches n_threads at rest, so the
\* unsigned count of barrier_t never wraps (barrier.c:34, 40).
TypeOK == /\ pc \in [Threads -> Labels]
          /\ owner \in Threads \cup {NoThread}
          /\ waiting \subseteq Threads
          /\ spurious \in Nat
          /\ n_threads \in Sizes /\ count \in 0 .. n_threads - 1
          /\ times_used \in {0, 1}
          /\ calls \in [Threads -> 0 .. Rounds]
          /\ returned \in [Threads -> 0 .. Rounds]
          /\ destroyed \in BOOLEAN

\* barrier_wait is executed inside the mutex by its owner only.
MutualExclusion == \A t \in Threads : pc[t] \in Inside <=> owner = t

\* count is the number of threads between gathering and leaving; nobody
\* gathers while a group leaves, so a fast thread that comes round again
\* cannot take the place of a slow one (barrier.c:29, 38).
Chamber == {t \in Threads : pc[t] \in {"turn", "turnWait"}}
CountIsChamber == count = Cardinality(Chamber) /\ (~Gathering /\ n_threads > 1 => count > 0)

\* The three together: who may touch the barrier, and what its counter means
\* at every moment of rounds that overlap (barrier.c:26-47).
Consistent == TypeOK /\ MutualExclusion /\ CountIsChamber

\* As barrier_tests.c uses it: one thread per place.
Everybody == Cardinality(Threads) = n_threads

\* With as many threads as the barrier expects, nobody finishes round k
\* before everybody has begun it (what barrier_tests.c:43 samples).
RoundsSynchronised == Everybody =>
  \A t, u \in Threads : returned[t] <= calls[u]

\* Nobody sleeps through his turn: a sleeper waits for the group before him to
\* leave or for his own to be complete, on the same condition variable.
NoLostWakeup == \A t \in waiting :
  \/ At(t, "gateWait") /\ ~Gathering
  \/ At(t, "turnWait") /\ Gathering

\* Refinement, with fairness: threads are let through in groups of exactly
\* n_threads, even when more threads than that use the barrier, and a complete
\* group is let go (barrier.h: "near exactly like pthread_barrier's").
Phase == [t \in Threads |->
            CASE pc[t] = "out" -> "out"
              [] pc[t] = "unlock" -> "through"
              [] pc[t] \in {"turn", "turnWait"} /\ ~Gathering -> "through"
              [] OTHER -> "held"]
Atomic == INSTANCE AtomicBarrier WITH phase <- Phase, N <- n_threads
ReleasedInGroups == Atomic!Spec
=============================================================================

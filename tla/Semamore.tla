------------------------------ MODULE Semamore ------------------------------
(* critical_concurrency/semamore.c: a counting semaphore with a ceiling.     *)
(* semm_wait blocks at 0, semm_post blocks at max_val; both sleep on one     *)
(* condition variable and both broadcast.  Waiters call semm_wait, Posters   *)
(* call semm_post, each a bounded number of times.                           *)
EXTENDS Monitor, Integers

CONSTANTS Waiters, Posters,
          Quota,      \* Quota[t]: how many calls thread t makes
          InitValue, MaxVal

\* semamore.h:12 "you can assume max_val won't equal 0"; the initial value is a
\* semaphore value within the ceiling, as in the example of semamore.c:14.
SemamoreAssumption ==
  /\ Threads = Waiters \cup Posters
  /\ Waiters \cap Posters = {}
  /\ Quota \in [Threads -> Nat]
  /\ MaxVal \in Nat \ {0}
  /\ InitValue \in 0 .. MaxVal

VARIABLES value,       \* struct Semamore; max_val never changes
          calls,       \* calls[t]: calls begun by t
          destroyed

vars == <<value, calls, destroyed, monitorVars>>

Inside == {"test", "wake", "unlock"}
Labels == Inside \cup {"out", "lock", "asleep"}

\* semm_init
Init == /\ value = InitValue
        /\ calls = [t \in Threads |-> 0]
        /\ destroyed = FALSE
        /\ MonitorInit("out")

\* Lines 32 and 48: why a call has to wait.
Blocked(t) == IF t \in Waiters THEN value = 0 ELSE value >= MaxVal

Call(t) == /\ At(t, "out") /\ calls[t] < Quota[t]
           /\ calls' = [calls EXCEPT ![t] = @ + 1]
           /\ Goto(t, "lock")
           /\ UNCHANGED <<value, destroyed, owner, waiting, spurious>>

Lock(t) == /\ At(t, "lock")
           /\ Acquire(t)
           /\ Goto(t, "test")
           /\ UNCHANGED <<value, calls, destroyed, waiting, spurious>>

Sleep(t) == /\ At(t, "test") /\ Blocked(t)
            /\ FallAsleep(t)
            /\ Goto(t, "asleep")
            /\ UNCHANGED <<value, calls, destroyed, spurious>>

Relock(t) == /\ At(t, "asleep") /\ Awake(t)
             /\ Acquire(t)
             /\ Goto(t, "test")
             /\ UNCHANGED <<value, calls, destroyed, waiting, spurious>>

\* Line 34.
Decrement(t) == /\ At(t, "test") /\ t \in Waiters /\ ~Blocked(t)
                /\ value' = value - 1
                /\ Goto(t, "wake")
                /\ UNCHANGED <<calls, destroyed, owner, waiting, spurious>>

\* Slip: semm_post does not wait below the ceiling.
IncrementUnchecked(t) == /\ At(t, "test") /\ t \in Posters
                         /\ value' = value + 1
                         /\ Goto(t, "wake")
                         /\ UNCHANGED <<calls, destroyed, owner, waiting, spurious>>

\* Line 50.
Increment(t) == /\ At(t, "test") /\ t \in Posters /\ ~Blocked(t)
                /\ value' = value + 1
                /\ Goto(t, "wake")
                /\ UNCHANGED <<calls, destroyed, owner, waiting, spurious>>

\* Slip: pthread_cond_signal, which wakes one sleeper of either kind.
WakeOne(t) == /\ At(t, "wake")
              /\ IF waiting = {} THEN UNCHANGED waiting
                 ELSE \E u \in waiting : waiting' = waiting \ {u}
              /\ Goto(t, "unlock")
              /\ UNCHANGED <<value, calls, destroyed, owner, spurious>>

Wake(t) == /\ At(t, "wake")
           /\ WakeAll
           /\ Goto(t, "unlock")
           /\ UNCHANGED <<value, calls, destroyed, owner, spurious>>

Unlock(t) == /\ At(t, "unlock")
             /\ Release(t)
             /\ Goto(t, "out")
             /\ UNCHANGED <<value, calls, destroyed, waiting, spurious>>

Finished(t) == At(t, "out") /\ calls[t] = Quota[t]

\* semm_destroy, when no thread uses the semaphore any more.
Destroy == /\ ~destroyed /\ \A t \in Threads : Finished(t)
           /\ destroyed' = TRUE
           /\ UNCHANGED <<value, calls, monitorVars>>

Terminated == destroyed /\ UNCHANGED vars

Wakeup(t) == SpuriousWakeup(t) /\ UNCHANGED <<value, calls, destroyed>>

Step(t) == \/ Call(t) \/ Lock(t) \/ Sleep(t) \/ Relock(t)
           \/ Decrement(t) \/ Increment(t) \/ Wake(t) \/ Unlock(t)

Next == \/ \E t \in Threads : Step(t) \/ Wakeup(t)
        \/ Destroy
        \/ Terminated

SafeSpec == Init /\ [][Next]_vars
Spec == SafeSpec /\ WF_vars(Destroy) /\ \A t \in Threads : WF_vars(Step(t))

---------------------------------------------------------------------------
(* Properties.                                                             *)

\* Shape of the state.
TypeOK == /\ pc \in [Threads -> Labels]
          /\ owner \in Threads \cup {NoThread}
          /\ waiting \subseteq Threads
          /\ spurious \in Nat
          /\ value \in Nat
          /\ calls \in [Threads -> Nat]
          /\ destroyed \in BOOLEAN

\* The value stays between 0 and the ceiling, although any number of sleepers
\* wakes up at one broadcast (semamore.c:32, 48).
ValueInRange == value \in 0 .. MaxVal

\* The value is read and written by the owner of the mutex only.
MutualExclusion == \A t \in Threads : pc[t] \in Inside <=> owner = t

\* The three together: the value, and who may touch it (semamore.c:29-56).
Consistent == TypeOK /\ MutualExclusion /\ ValueInRange

\* A thread asleep still has to wait, or a broadcast is on its way.
NoLostWakeup == \A t \in waiting : Blocked(t) \/ \E u \in Threads : At(u, "wake")

\* When waits and posts balance within the ceiling, every call returns.
Termination == <>destroyed
=============================================================================

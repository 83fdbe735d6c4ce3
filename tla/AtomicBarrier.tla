--------------------------- MODULE AtomicBarrier ---------------------------
(* What critical_concurrency/barrier.h promises by "behave near exactly like *)
(* pthread_barrier's": a caller is held until N callers are there, then      *)
(* exactly N of them are let through together.                               *)
EXTENDS Naturals, FiniteSets

CONSTANTS Threads,
          Rounds    \* how many times each thread calls barrier_wait

VARIABLES N,        \* n_threads
          phase,    \* phase[t]: "out", "held" or "through"
          calls     \* calls[t]: calls of barrier_wait begun by t

vars == <<N, phase, calls>>

Held == {t \in Threads : phase[t] = "held"}

Init == /\ N \in Nat \ {0}
        /\ phase = [t \in Threads |-> "out"]
        /\ calls = [t \in Threads |-> 0]

Arrive(t) == /\ phase[t] = "out" /\ calls[t] < Rounds
             /\ phase' = [phase EXCEPT ![t] = "held"]
             /\ calls' = [calls EXCEPT ![t] = @ + 1]
             /\ UNCHANGED N

Trip == \E group \in SUBSET Held :
          /\ Cardinality(group) = N
          /\ phase' = [t \in Threads |-> IF t \in group THEN "through" ELSE phase[t]]
          /\ UNCHANGED <<N, calls>>

Depart(t) == /\ phase[t] = "through"
             /\ phase' = [phase EXCEPT ![t] = "out"]
             /\ UNCHANGED <<N, calls>>

Next == Trip \/ \E t \in Threads : Arrive(t) \/ Depart(t)

SafeSpec == Init /\ [][Next]_vars

\* The barrier lets a full group go, and those it let go return.
Spec == SafeSpec /\ WF_vars(Trip) /\ \A t \in Threads : WF_vars(Depart(t))
=============================================================================

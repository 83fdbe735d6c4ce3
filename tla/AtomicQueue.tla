---------------------------- MODULE AtomicQueue ----------------------------
(* What critical_concurrency/queue.h promises to threads that share a queue: *)
(* every call takes effect at one instant between its invocation and its     *)
(* return (the queue "is thread-safe"), in FIFO order, a push only while the *)
(* queue is not full and a pull only while it is not empty.                  *)
EXTENDS FIFO

CONSTANTS Pushers, Pullers,   \* the threads that push, the threads that pull
          Quota,              \* Quota[t]: how many calls thread t makes
          Nothing             \* the result of a thread that has pulled nothing

Clients == Pushers \cup Pullers

VARIABLES phase,   \* phase[t]: "out", "called" or "done" (effect taken)
          calls,   \* calls[t]: calls begun by t
          got      \* got[t]: the element t's latest pull removed

vars == <<items, phase, calls, got>>

Init == /\ items = <<>>
        /\ phase = [t \in Clients |-> "out"]
        /\ calls = [t \in Clients |-> 0]
        /\ got = [t \in Clients |-> Nothing]

Call(t) == /\ phase[t] = "out"
           /\ calls[t] < Quota[t]
           /\ phase' = [phase EXCEPT ![t] = "called"]
           /\ calls' = [calls EXCEPT ![t] = @ + 1]
           /\ UNCHANGED <<items, got>>

Push(t) == /\ t \in Pushers
           /\ phase[t] = "called"
           /\ Enqueue(<<t, calls[t]>>)
           /\ phase' = [phase EXCEPT ![t] = "done"]
           /\ UNCHANGED <<calls, got>>

Pull(t) == /\ t \in Pullers
           /\ phase[t] = "called"
           /\ Dequeue
           /\ got' = [got EXCEPT ![t] = Head(items)]
           /\ phase' = [phase EXCEPT ![t] = "done"]
           /\ UNCHANGED calls

Return(t) == /\ phase[t] = "done"
             /\ phase' = [phase EXCEPT ![t] = "out"]
             /\ UNCHANGED <<items, calls, got>>

Next == \E t \in Clients : Call(t) \/ Push(t) \/ Pull(t) \/ Return(t)

SafeSpec == Init /\ [][Next]_vars
=============================================================================

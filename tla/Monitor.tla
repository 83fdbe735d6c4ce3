------------------------------ MODULE Monitor ------------------------------
(* A POSIX mutex with one condition variable, as the programs of this        *)
(* repository use them: pthread_mutex_lock/unlock, pthread_cond_wait and     *)
(* pthread_cond_broadcast.  The library is external to the repository; its   *)
(* contract is modelled: a mutex has at most one owner, pthread_cond_wait    *)
(* releases it and falls asleep in one step, a waiter returns only after it  *)
(* has the mutex again, a broadcast wakes every sleeper, and a sleeper may   *)
(* also wake for no reason.                                                  *)
EXTENDS Naturals

CONSTANTS Threads,      \* the threads that share the monitor
          NoThread,     \* the owner of a free mutex
          MaxSpurious   \* bound on the spurious wakeups of one behaviour

ASSUME MonitorAssumption == /\ NoThread \notin Threads
                            /\ MaxSpurious \in Nat

VARIABLES pc,        \* pc[t]: the statement thread t executes next
          owner,     \* the thread that holds the mutex, or NoThread
          waiting,   \* threads asleep in pthread_cond_wait
          spurious   \* number of spurious wakeups so far

monitorVars == <<pc, owner, waiting, spurious>>

MonitorInit(start) == /\ pc = [t \in Threads |-> start]
                      /\ owner = NoThread
                      /\ waiting = {}
                      /\ spurious = 0

At(t, label) == pc[t] = label
Goto(t, label) == pc' = [pc EXCEPT ![t] = label]

Acquire(t) == owner = NoThread /\ owner' = t
Release(t) == owner = t /\ owner' = NoThread

\* pthread_cond_wait gives up the mutex and falls asleep atomically.
FallAsleep(t) == Release(t) /\ waiting' = waiting \cup {t}
Awake(t) == t \notin waiting
WakeAll == waiting' = {}

\* A sleeper may return from pthread_cond_wait although nobody woke it.
SpuriousWakeup(t) == /\ t \in waiting
                     /\ spurious < MaxSpurious
                     /\ waiting' = waiting \ {t}
                     /\ spurious' = spurious + 1
                     /\ UNCHANGED <<pc, owner>>
=============================================================================

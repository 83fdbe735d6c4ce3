------------------------------ MODULE ParMake ------------------------------
(* parallel_make/parmake.c: when main has filled the queue in dependency     *)
(* order (ParMakeOrder) it ends it with one NULL per worker and creates the  *)
(* workers.  A worker looks at the results of a rule's dependencies WITHOUT  *)
(* the mutex, waits for the unfinished ones on a condition variable, and     *)
(* runs the commands.  rule->data is now "unvisited", "done" or, after a     *)
(* failure, "visited".  The queue is external (libprovided.a); its header is *)
(* the one BoundedQueue implements.                                          *)
EXTENDS ParMakeOrder, Monitor

CONSTANTS FileRules,  \* rules whose target may exist as a file
          NoRule      \* NULL

ASSUME ParMakeAssumption == /\ FileRules \subseteq Vertices \ {Sentinel}
                            /\ NoRule \notin Vertices
                            /\ IsFiniteSet(Threads)

VARIABLES s,        \* the set of targets already taken
          target,   \* target[t]: the rule worker t is at
          i,        \* i[t]: index of the dependency t looks at
          ret,      \* ret[t]: the local of run()
          verdict,  \* verdict[t]: what t is about to store in rule->data
          started   \* the rules whose commands have been started

locals == <<target, i, ret, verdict>>
monitor == <<owner, waiting, spurious>>
searched == <<main, nbs, state, stack, cyclic>>
workerVars == <<s, locals, started, monitorVars>>
vars == <<orderVars, workerVars>>

Init == /\ OrderInit
        /\ s = {}
        /\ target = [t \in Threads |-> NoRule]
        /\ i = [t \in Threads |-> 1]
        /\ ret = [t \in Threads |-> 0]
        /\ verdict = [t \in Threads |-> "unvisited"]
        /\ started = {}
        /\ MonitorInit("new")

\* Lines 239-261; a cycle is reported and does not keep main from going on.
CreateWorkers == /\ main = "ordered"
                 /\ main' = "build"
                 /\ items' = items \o [n \in 1 .. Cardinality(Threads) |-> NoRule]
                 /\ pc' = [t \in Threads |-> "pull"]
                 /\ UNCHANGED <<nbs, marks, stack, cyclic, s, locals, started, monitor>>

Dep(t) == nbs[target[t]][i[t]]
AllLookedAt(t) == i[t] > Len(nbs[target[t]])

---------------------------------------------------------------------------
(* sth(): the loop of a worker.                                            *)

Pull(t) == /\ At(t, "pull")
           /\ Dequeue
           /\ target' = [target EXCEPT ![t] = Head(items)]
           /\ Goto(t, IF Head(items) = NoRule THEN "exit" ELSE "take")
           /\ UNCHANGED <<searched, data, s, i, ret, verdict, started, monitor>>

\* Lines 212-213, and the entry of run_rule; its lines 151-156 never apply, as
\* a rule is queued once.  set_contains and set_add have no lock: of two
\* concurrent insertions one may be lost.
Raced(t) == \E u \in Threads \ {t} : At(u, "take")

Take(t) == /\ At(t, "take")
           /\ IF target[t] \in s
              THEN Goto(t, "pull") /\ UNCHANGED s
              ELSE /\ Goto(t, "checkdep")
                   /\ \/ s' = s \cup {target[t]}
                      \/ Raced(t) /\ UNCHANGED s
           /\ UNCHANGED <<searched, items, data, locals, started, monitor>>

\* Slip: a rule with a failed dependency is dropped without a result.
CheckDepDrops(t) == /\ At(t, "checkdep")
                    /\ IF AllLookedAt(t)
                       THEN Goto(t, "run") /\ i' = [i EXCEPT ![t] = 1]
                       ELSE IF data[Dep(t)] = "visited"
                       THEN Goto(t, "pull") /\ UNCHANGED i
                       ELSE i' = [i EXCEPT ![t] = @ + 1] /\ UNCHANGED pc
                    /\ UNCHANGED <<searched, items, data, s, target, verdict, ret, started, monitor>>

\* checkdep: one dependency after the other, unlocked.
CheckDep(t) == /\ At(t, "checkdep")
               /\ IF AllLookedAt(t)
                  THEN Goto(t, "run") /\ i' = [i EXCEPT ![t] = 1] /\ UNCHANGED verdict
                  ELSE IF data[Dep(t)] = "visited"
                  THEN Goto(t, "settle") /\ verdict' = [verdict EXCEPT ![t] = "visited"]
                                         /\ UNCHANGED i
                  ELSE i' = [i EXCEPT ![t] = @ + 1] /\ UNCHANGED <<pc, verdict>>
               /\ UNCHANGED <<searched, items, data, s, target, ret, started, monitor>>

\* run, line 100: a dependency that is not finished, seen without the lock.
RunLook(t) == /\ At(t, "run") /\ ~AllLookedAt(t)
              /\ IF data[Dep(t)] = "unvisited"
                 THEN Goto(t, "runLock") /\ UNCHANGED i
                 ELSE i' = [i EXCEPT ![t] = @ + 1] /\ UNCHANGED pc
              /\ UNCHANGED <<searched, items, data, s, target, ret, verdict, started, monitor>>

RunLock(t) == /\ At(t, "runLock")
              /\ Acquire(t)
              /\ Goto(t, "runTest")
              /\ UNCHANGED <<searched, items, data, s, locals, started, waiting, spurious>>

RunSleep(t) == /\ At(t, "runTest") /\ data[Dep(t)] = "unvisited"
               /\ FallAsleep(t)
               /\ Goto(t, "runWait")
               /\ UNCHANGED <<searched, items, data, s, locals, started, spurious>>

\* Slip: `if` for `while` in line 102 (the mutex is taken and given back).
RunRelockNoRetest(t) == /\ At(t, "runWait") /\ Awake(t)
                        /\ owner = NoThread
                        /\ Goto(t, "runRead")
                        /\ UNCHANGED <<searched, items, data, s, locals, started, monitor>>

RunRelock(t) == /\ At(t, "runWait") /\ Awake(t)
                /\ Acquire(t)
                /\ Goto(t, "runTest")
                /\ UNCHANGED <<searched, items, data, s, locals, started, waiting, spurious>>

RunUnlock(t) == /\ At(t, "runTest") /\ data[Dep(t)] # "unvisited"
                /\ Release(t)
                /\ Goto(t, "runRead")
                /\ UNCHANGED <<searched, items, data, s, locals, started, waiting, spurious>>

\* Lines 107-110: the result of this dependency replaces those before it.
RunRead(t) == /\ At(t, "runRead")
              /\ ret' = [ret EXCEPT ![t] = IF data[Dep(t)] = "visited" THEN 1 ELSE 0]
              /\ i' = [i EXCEPT ![t] = @ + 1]
              /\ Goto(t, "run")
              /\ UNCHANGED <<searched, items, data, s, target, verdict, started, monitor>>

\* run() has returned: fail with a dependency, or ask ifcommand, which may
\* find the target newer than its dependencies.  The sentinel has no commands.
Decide(t) == /\ At(t, "run") /\ AllLookedAt(t)
             /\ \/ /\ ret[t] = 1
                   /\ verdict' = [verdict EXCEPT ![t] = "visited"]
                   /\ Goto(t, "settle") /\ UNCHANGED started
                \/ /\ ret[t] = 0 /\ target[t] \in FileRules
                   /\ verdict' = [verdict EXCEPT ![t] = "done"]
                   /\ Goto(t, "settle") /\ UNCHANGED started
                \/ /\ ret[t] = 0
                   /\ started' = started \cup ({target[t]} \ {Sentinel})
                   /\ Goto(t, "commands") /\ UNCHANGED verdict
             /\ UNCHANGED <<searched, items, data, s, target, i, ret, monitor>>

\* system() on each command of a rule until one fails; any command may.
Commands(t) == /\ At(t, "commands")
               /\ \E outcome \in {"done"} \cup (IF target[t] = Sentinel THEN {} ELSE {"visited"}) :
                     verdict' = [verdict EXCEPT ![t] = outcome]
               /\ Goto(t, "settle")
               /\ UNCHANGED <<searched, items, data, s, target, i, ret, started, monitor>>

SettleLock(t) == /\ At(t, "settle")
                 /\ Acquire(t)
                 /\ Goto(t, "store")
                 /\ UNCHANGED <<searched, items, data, s, locals, started, waiting, spurious>>

\* Slip: the sleepers are not told of the result.
StoreNoWake(t) == /\ At(t, "store")
                  /\ data' = [data EXCEPT ![target[t]] = verdict[t]]
                  /\ Goto(t, "settleUnlock")
                  /\ UNCHANGED <<searched, items, s, locals, started, monitor>>

Store(t) == /\ At(t, "store")
            /\ data' = [data EXCEPT ![target[t]] = verdict[t]]
            /\ WakeAll
            /\ Goto(t, "settleUnlock")
            /\ UNCHANGED <<searched, items, s, locals, started, owner, spurious>>

\* The locals of run_rule and run are gone when it returns.
SettleUnlock(t) == /\ At(t, "settleUnlock")
                   /\ Release(t)
                   /\ Goto(t, "pull")
                   /\ target' = [target EXCEPT ![t] = NoRule]
                   /\ i' = [i EXCEPT ![t] = 1]
                   /\ ret' = [ret EXCEPT ![t] = 0]
                   /\ verdict' = [verdict EXCEPT ![t] = "unvisited"]
                   /\ UNCHANGED <<searched, items, data, s, started, waiting, spurious>>

Step(t) == \/ Pull(t) \/ Take(t) \/ CheckDep(t)
           \/ RunLook(t) \/ RunLock(t) \/ RunSleep(t) \/ RunRelock(t) \/ RunUnlock(t) \/ RunRead(t)
           \/ Decide(t) \/ Commands(t) \/ SettleLock(t) \/ Store(t) \/ SettleUnlock(t)

Wakeup(t) == SpuriousWakeup(t) /\ UNCHANGED <<searched, items, data, s, locals, started>>

\* main has joined every worker.
Exited == \A t \in Threads : At(t, "exit")

Terminated == Exited /\ UNCHANGED vars

Main == OrderNext /\ UNCHANGED workerVars

Next == \/ Main \/ CreateWorkers
        \/ \E t \in Threads : Step(t) \/ Wakeup(t)
        \/ Terminated

SafeSpec == Init /\ [][Next]_vars
Spec == SafeSpec /\ WF_vars(Main) /\ WF_vars(CreateWorkers) /\ \A t \in Threads : WF_vars(Step(t))

---------------------------------------------------------------------------
(* Properties.                                                             *)

\* Shape of the state.
TypeOK == /\ pc \in [Threads -> {"new", "pull", "take", "checkdep", "run", "runLock", "runTest",
                                 "runWait", "runRead", "commands", "settle", "store",
                                 "settleUnlock", "exit"}]
          /\ owner \in Threads \cup {NoThread} /\ waiting \subseteq Threads
          /\ items \in Seq(Vertices \cup {NoRule})
          /\ data \in [Vertices -> {"NULL", "unvisited", "visited", "done"}]
          /\ s \subseteq Vertices
          /\ target \in [Threads -> Vertices \cup {NoRule}]
          /\ i \in [Threads -> Nat] /\ ret \in [Threads -> {0, 1}]
          /\ verdict \in [Threads -> {"unvisited", "visited", "done"}]
          /\ started \subseteq Vertices

\* test_makefiles/testfile3 and 4: the commands of a rule start only after the
\* commands of its dependencies, and theirs, have come to an end, on however
\* many workers they run.
StagesInOrder == \A r \in started :
  \A d \in Range(nbs[r]) : data[d] # "unvisited"

\* testfile7:1 "don't run rules if they have dependency failures".
NoRunAfterFailure == \A r \in started :
  \A d \in Range(nbs[r]) : data[d] # "visited"

\* A worker asleep waits for a dependency that is still unfinished, or for the
\* mutex: line 102 tests again what line 100 saw without the lock.
NoLostWakeup == \A t \in waiting : data[Dep(t)] = "unvisited"

\* The two together (parmake.c:91-116, 147-205).
Consistent == TypeOK /\ NoLostWakeup

\* The workers cannot wait for each other in a circle: every rule is settled
\* and every worker finds its NULL, with any number of workers.
Termination == main = "search" ~> Exited /\ \A r \in Vertices : data[r] # "unvisited"
=============================================================================

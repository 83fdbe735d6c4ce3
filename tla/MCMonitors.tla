----------------------------- MODULE MCMonitors -----------------------------
(* The two monitors of critical_concurrency for the same threads, that of    *)
(* the semaphore under names of its own: for TLC, and for the proofs.  A     *)
(* behaviour is one of these programs.                                       *)
EXTENDS Barrier

CONSTANTS Waiters, Posters, Quota, InitValue, MaxVal
VARIABLES program,
          semPc, semOwner, semWaiting, semSpurious, value, semCalls, semDestroyed

Sem == INSTANCE Semamore WITH pc <- semPc, owner <- semOwner, waiting <- semWaiting,
                              spurious <- semSpurious,
                              calls <- semCalls, destroyed <- semDestroyed

ASSUME SemamoreOK == Sem!SemamoreAssumption

TwoCalls == [t \in Threads |-> 2]

semVars == <<semPc, semOwner, semWaiting, semSpurious, value, semCalls, semDestroyed>>
allVars == <<program, vars, semVars>>

BothInit == /\ program \in {"barrier", "semamore"}
            /\ Init /\ Sem!Init
            /\ program = "semamore" => n_threads = CHOOSE n \in Sizes : TRUE

BarrierOnly(A) == program = "barrier" /\ A /\ UNCHANGED <<program, semVars>>
SemOnly(A) == program = "semamore" /\ A /\ UNCHANGED <<program, vars>>

\* The fairness of the two modules.
BothSpec == /\ BothInit /\ [][BarrierOnly(Next) \/ SemOnly(Sem!Next)]_allVars
            /\ WF_allVars(BarrierOnly(Destroy)) /\ WF_allVars(SemOnly(Sem!Destroy))
            /\ \A t \in Threads : /\ WF_allVars(BarrierOnly(Step(t)))
                                  /\ WF_allVars(SemOnly(Sem!Step(t)))

---------------------------------------------------------------------------
(* Properties, stated in Semamore.                                         *)

\* semamore.c:29-56: the value is in range and touched under the mutex only.
SemConsistent == Sem!Consistent
\* semamore.c:33-56: a sleeper still has to wait, or is about to be woken.
SemNoLostWakeup == Sem!NoLostWakeup
\* semamore.c:29-56: balanced calls all return.
SemTermination == program = "semamore" => Sem!Termination
=============================================================================

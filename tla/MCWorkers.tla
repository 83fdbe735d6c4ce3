------------------------------ MODULE MCWorkers -----------------------------
(* Three programs that start workers and wait for them: the two of           *)
(* password_cracker and mapreduce.  A behaviour is one of these programs.    *)
EXTENDS Cracker2

CONSTANTS Threads, NumTasks, Crackable, MaxSize,   \* of cracker1
          mapper_count, MaxLength, PipeSize   \* of mapreduce

VARIABLES program,
          start_pc, tasks_read, job, sentinels, worker_pc, recovered, failed, freed,
          numre, numf, joined, jobpool, items,
          newlines, length, missing, step, life, ends_of, stdin, stdout, todo, pipe, output,
          reported

OddTasks == {k \in 1 .. NumTasks : k % 2 = 1}

\* Three users: the last candidate matches, none does, the third one does.
MCCandidates == <<5, 4, 5>>
MCSecret == <<4, NoSecret, 2>>

One == INSTANCE Cracker1 WITH Workers <- Threads,
                              mainPc <- start_pc, line <- tasks_read, pc <- worker_pc
MR == INSTANCE MapReduce

ASSUME OneOK == One!Cracker1Assumption
ASSUME ReduceOK == MR!MapReduceAssumption

crackerVars == <<start_pc, tasks_read, job, sentinels, worker_pc, recovered, failed, freed,
                 numre, numf, joined, jobpool, items>>
mrVars == <<newlines, length, missing, step, life, ends_of, stdin, stdout, todo, pipe, output,
            reported>>
allVars == <<program, vars, crackerVars, mrVars>>

AllInit == /\ program \in {"cracker1", "cracker2", "mapreduce"}
           /\ One!Init /\ Init /\ MR!Init
           /\ program # "mapreduce" => length = 0 /\ missing = {}

FirstOnly(A) == program = "cracker1" /\ A /\ UNCHANGED <<program, vars, mrVars>>
SecondOnly(A) == program = "cracker2" /\ A /\ UNCHANGED <<program, crackerVars, mrVars>>
ThirdOnly(A) == program = "mapreduce" /\ A /\ UNCHANGED <<program, vars, crackerVars>>

AllNext == FirstOnly(One!Next) \/ SecondOnly(Next) \/ ThirdOnly(MR!Next)

\* The fairness of the three modules.
AllSpec == /\ AllInit /\ [][AllNext]_allVars
           /\ WF_allVars(FirstOnly(One!Main))
           /\ \A t \in Threads : WF_allVars(FirstOnly(One!Worker(t)))
           /\ WF_allVars(SecondOnly(BarrierTrips)) /\ WF_allVars(SecondOnly(Main))
           /\ \A w \in Workers : WF_allVars(SecondOnly(Worker(w)))
           /\ WF_allVars(ThirdOnly(MR!Parent)) /\ WF_allVars(ThirdOnly(MR!Reduce))
           /\ \A c \in MR!Children : WF_allVars(ThirdOnly(MR!Child(c)))

---------------------------------------------------------------------------
(* Properties, stated in the module of each program.                       *)

\* cracker1.c: one worker per task, none left behind, and the summary adds up.
EveryTaskOnce == One!Consistent
\* Each cracker prints what it has to and ends (cracker1.c:38-82, cracker2.c:43-140).
BothEnd == /\ program = "cracker1" => One!Termination
           /\ program = "cracker2" => Termination
\* mapreduce.c: main reaps its last child, whatever is missing.
NobodyHangs == program = "mapreduce" => MR!NobodyHangs
\* splitter.c, mapreduce.c: each line reaches the reducer once, or it is reported.
EveryLineOnce == MR!EveryLineOnce
=============================================================================

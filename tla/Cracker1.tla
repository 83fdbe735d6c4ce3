------------------------------ MODULE Cracker1 ------------------------------
(* password_cracker/cracker1.c: the main thread reads every task into a      *)
(* bounded job queue, adds one NULL per worker, THEN creates the workers and *)
(* joins them.  The queue is the FIFO queue that BoundedQueue implements.    *)
(* Cracking one password is a step with a known outcome: the task is in      *)
(* Crackable or not (the search of lines 160-165 is sequential and private). *)
EXTENDS FIFO, FiniteSets, SequencesExt

CONSTANTS NumTasks, Workers, Crackable

\* Assumed of the constants in MCWorkers.
Cracker1Assumption == /\ NumTasks \in Nat
                      /\ IsFiniteSet(Workers) /\ Workers # {}
                      /\ Crackable \subseteq 1 .. NumTasks
                      /\ MaxSize \in Int

Tasks == 1 .. NumTasks
NULL == 0

VARIABLES mainPc,      \* what start() does next
          line,        \* tasks read so far
          job,         \* the pointer main or a worker holds, or NULL
          sentinels,   \* NULLs still to be pushed
          pc,          \* pc[w]: "none" until created, "pull", "crack", "exit"
          recovered, failed,     \* the io record of each worker
          freed,       \* freed[k]: how often the task k has been freed
          numre, numf, joined,   \* locals of start()
          jobpool      \* "open" until queue_destroy

locals == <<line, sentinels, numre, numf, joined, jobpool>>
results == <<recovered, failed, freed>>
vars == <<items, mainPc, job, pc, locals, results>>

Init == /\ items = <<>> /\ jobpool = "open"
        /\ mainPc = "read"
        /\ line = 0
        /\ job = [t \in Workers \cup {"main"} |-> NULL]
        /\ sentinels = Cardinality(Workers)
        /\ pc = [w \in Workers |-> "none"]
        /\ recovered = [w \in Workers |-> 0] /\ failed = [w \in Workers |-> 0]
        /\ freed = [k \in Tasks |-> 0]
        /\ numre = 0 /\ numf = 0 /\ joined = {}

---------------------------------------------------------------------------
(* The main thread: start().                                               *)

\* parse_line: the next task, or NULL at the end of the input.
ReadTask == /\ mainPc = "read"
            /\ IF line < NumTasks
               THEN /\ line' = line + 1
                    /\ job' = [job EXCEPT !["main"] = line + 1]
                    /\ mainPc' = "push"
               ELSE mainPc' = "sentinels" /\ UNCHANGED <<line, job>>
            /\ UNCHANGED <<items, pc, sentinels, numre, numf, joined, jobpool, results>>

\* Blocks while the queue is full.
PushTask == /\ mainPc = "push"
            /\ Enqueue(job["main"])
            /\ mainPc' = "read"
            /\ UNCHANGED <<job, pc, locals, results>>

\* Slip: one NULL less than there are workers.
PushSentinelShort == /\ mainPc = "sentinels" /\ sentinels > 0
                     /\ IF sentinels > 1 THEN Enqueue(NULL) ELSE UNCHANGED items
                     /\ sentinels' = sentinels - 1
                     /\ UNCHANGED <<mainPc, job, pc, line, numre, numf, joined, jobpool, results>>

PushSentinel == /\ mainPc = "sentinels" /\ sentinels > 0
                /\ Enqueue(NULL)
                /\ sentinels' = sentinels - 1
                /\ UNCHANGED <<mainPc, job, pc, line, numre, numf, joined, jobpool, results>>

CreateWorker(w) == /\ mainPc = "sentinels" /\ sentinels = 0
                   /\ pc[w] = "none"
                   /\ pc' = [pc EXCEPT ![w] = "pull"]
                   /\ UNCHANGED <<items, mainPc, job, locals, results>>

BeginJoin == /\ mainPc = "sentinels" /\ sentinels = 0
             /\ \A w \in Workers : pc[w] # "none"
             /\ mainPc' = "join"
             /\ UNCHANGED <<items, job, pc, locals, results>>

Join(w) == /\ mainPc = "join" /\ w \notin joined
           /\ pc[w] = "exit"
           /\ joined' = joined \cup {w}
           /\ numre' = numre + recovered[w]
           /\ numf' = numf + failed[w]
           /\ UNCHANGED <<items, mainPc, job, pc, line, sentinels, jobpool, results>>

Summary == /\ mainPc = "join" /\ joined = Workers
           /\ mainPc' = "done"
           /\ jobpool' = "destroyed"
           /\ UNCHANGED <<items, job, pc, line, sentinels, numre, numf, joined, results>>

Main == \/ ReadTask \/ PushTask \/ PushSentinel \/ BeginJoin \/ Summary
        \/ \E w \in Workers : CreateWorker(w) \/ Join(w)

---------------------------------------------------------------------------
(* A worker: eachthread().                                                 *)

\* Slip: the pool hands out the newest task first.
PullTaskNewest(w) == /\ pc[w] = "pull" /\ CanPull
                     /\ items' = Front(items)
                     /\ job' = [job EXCEPT ![w] = Last(items)]
                     /\ pc' = [pc EXCEPT ![w] = IF Last(items) = NULL THEN "exit" ELSE "crack"]
                     /\ UNCHANGED <<mainPc, locals, results>>

\* queue_pull; NULL ends the worker.
PullTask(w) == /\ pc[w] = "pull"
               /\ Dequeue
               /\ job' = [job EXCEPT ![w] = Head(items)]
               /\ pc' = [pc EXCEPT ![w] = IF Head(items) = NULL THEN "exit" ELSE "crack"]
               /\ UNCHANGED <<mainPc, locals, results>>

\* The search, the counters and the frees of lines 152-178.
Crack(w) == /\ pc[w] = "crack"
            /\ IF job[w] \in Crackable
               THEN recovered' = [recovered EXCEPT ![w] = @ + 1] /\ UNCHANGED failed
               ELSE failed' = [failed EXCEPT ![w] = @ + 1] /\ UNCHANGED recovered
            /\ freed' = [freed EXCEPT ![job[w]] = @ + 1]
            /\ pc' = [pc EXCEPT ![w] = "pull"]
            /\ UNCHANGED <<items, mainPc, job, locals>>

Worker(w) == PullTask(w) \/ Crack(w)

Terminated == mainPc = "done" /\ UNCHANGED vars

Next == Main \/ (\E w \in Workers : Worker(w)) \/ Terminated

SafeSpec == Init /\ [][Next]_vars
Spec == SafeSpec /\ WF_vars(Main) /\ \A w \in Workers : WF_vars(Worker(w))

---------------------------------------------------------------------------
(* Properties.                                                             *)

\* Shape of the state.
TypeOK == /\ mainPc \in {"read", "push", "sentinels", "join", "done"}
          /\ items \in Seq(Tasks \cup {NULL})
          /\ line \in 0 .. NumTasks
          /\ job \in [Workers \cup {"main"} -> Tasks \cup {NULL}]
          /\ sentinels \in 0 .. Cardinality(Workers)
          /\ pc \in [Workers -> {"none", "pull", "crack", "exit"}]
          /\ recovered \in [Workers -> Nat] /\ failed \in [Workers -> Nat]
          /\ freed \in [Tasks -> Nat]
          /\ numre \in Nat /\ numf \in Nat
          /\ joined \subseteq Workers
          /\ jobpool \in {"open", "destroyed"}

\* A NULL is a worker's last word: whoever leaves, no task stays behind in the
\* queue, because FIFO order keeps the NULLs last (cracker1.c:45-52, 151).
NoTaskLeftBehind ==
  (\E w \in Workers : pc[w] = "exit") => \A i \in 1 .. Len(items) : items[i] = NULL

\* A task is cracked, and freed, by one worker only (cracker1.c:174-178).
FreedOnce == \A k \in Tasks : freed[k] <= 1

\* The printed summary counts every task exactly once, under the right heading
\* (cracker1.c:64-73).
SummaryComplete == mainPc = "done" => /\ numre = Cardinality(Crackable)
                                      /\ numre + numf = NumTasks

\* The four together (cracker1.c:38-82, 137-180).
Consistent == TypeOK /\ NoTaskLeftBehind /\ FreedOnce /\ SummaryComplete

\* The program prints its summary and ends, as inputs/10k.out shows it doing
\* for the ten thousand tasks of inputs/10k.in.
Termination == <>(mainPc = "done")
=============================================================================

----------------------------- MODULE Scheduler -----------------------------
(* savvy_scheduler: libscheduler.c over libpriqueue.c, called by the green   *)
(* threads of gthreads.c, in the scenario of main.c's rr_fcfs_sjf_test: main *)
(* creates every job, starts the timer and waits in gtret.  A running job    *)
(* stays in the queue.  The clock counts quanta of 100 ms, and work goes on  *)
(* by whole quanta; the scheduler only sees what currtime makes of it.       *)
(* job_finished frees the record quantum_expired reads right after; free()   *)
(* of the C library leaves its remain_time in place.                         *)
EXTENDS Integers, SequencesExt

CONSTANTS Schemes,    \* the schemes main is called with
          NumJobs,
          MaxBurst,   \* bounds a job's running time, in quanta
          Starts,     \* the quanta of the clock at which main may begin
          gtmain

ASSUME SchedulerAssumption ==
         /\ Schemes \subseteq {"FCFS", "PPRI", "PRI", "PSRTF", "RR", "SJF"}
         /\ NumJobs \in Nat /\ MaxBurst \in Nat /\ Starts \subseteq Nat
         /\ gtmain \notin 1 .. NumJobs

Jobs == 1 .. NumJobs
NULL == 0

VARIABLES pqueue_scheme, pqueue,
          info,         \* info[j]: the job_info of job j, in order of creation
          state,        \* state[j]: Ready, or Unused once the job has ended
          totals,       \* job_num and the sums behind the averages
          counter, suspended, currjob, job_count,
          left,         \* left[j]: quanta job j still has to work
          clock,        \* quanta since a full second
          stage         \* stage of main: "create", "wait", "exited"

vars == <<pqueue_scheme, pqueue, info, state, totals, counter, suspended, currjob,
          job_count, left, clock, stage>>

Init == /\ pqueue_scheme \in Schemes
        /\ pqueue = <<>>
        /\ info = <<>>
        /\ state = <<>>
        /\ totals = [job_num |-> 0, waiting |-> 0, turnaround |-> 0, response |-> 0]
        /\ counter = 1
        /\ suspended = NULL
        /\ currjob = gtmain
        /\ job_count = 0
        /\ left = <<>>
        /\ clock \in Starts
        /\ stage = "create"

\* In hundredths of a second.  The nanoseconds are divided by 10^10: a quantum
\* counts as one hundredth, and a full second as a whole one.
currtime(t) == 100 * (t \div 10) + (t % 10)

---------------------------------------------------------------------------
(* The queue and its order.                                                *)

Rank(j, inf) == CASE pqueue_scheme = "FCFS" -> inf[j].arrival
                  [] pqueue_scheme = "SJF" -> inf[j].burst
                  [] pqueue_scheme = "PSRTF" -> inf[j].remain
                  [] OTHER -> inf[j].priority

\* The comparers: negative for a before b.
Before(a, b, inf) == \/ Rank(a, inf) < Rank(b, inf)
                     \/ /\ Rank(a, inf) = Rank(b, inf)
                        /\ inf[a].arrival < inf[b].arrival

\* Slip: the newcomer goes to the tail whatever its rank.
priqueue_offer_tail(q, j, inf) == Append(q, j)

\* Slip: the newcomer is linked only in front of a job.
priqueue_offer_between(q, j, inf) ==
  LET places == {i \in DOMAIN q : Before(j, q[i], inf)}
  IN  IF places = {} /\ q # <<>> THEN q
      ELSE InsertAt(q, CHOOSE i \in places \cup {1} : \A k \in places : i <= k, j)

priqueue_offer(q, j, inf) ==
  LET fits(i) == /\ i > 1 => ~Before(j, q[i - 1], inf)
                 /\ Before(j, q[i], inf)
      places == {i \in DOMAIN q : fits(i)} \cup {Len(q) + 1}
  IN  InsertAt(q, CHOOSE i \in places : \A k \in places : i <= k, j)

priqueue_peek(q) == IF q = <<>> THEN NULL ELSE Head(q)

---------------------------------------------------------------------------
(* scheduler_quantum_expired(evicted, now), one operator per way through   *)
(* it; inf is info and resp the response sum at its call, and currjob'     *)
(* what gtyield makes of the result.                                       *)

SwitchTo(j) == currjob' = IF j = NULL THEN gtmain ELSE j

QueueEmpty(evicted, inf, resp) ==
  /\ pqueue = <<>>
  /\ SwitchTo(evicted)
  /\ info' = inf
  /\ UNCHANGED pqueue
  /\ totals' = resp

\* Slip: a finished job is left in the queue.
KeepFinished(evicted, inf, resp) ==
  /\ pqueue # <<>> /\ evicted = NULL
  /\ inf[Head(pqueue)].remain = 0
  /\ UNCHANGED pqueue
  /\ SwitchTo(priqueue_peek(Tail(pqueue)))
  /\ info' = inf
  /\ totals' = resp

\* Lines 146-149: start_time of the job returned stays -1.
DropFinished(evicted, inf, resp) ==
  /\ pqueue # <<>> /\ evicted = NULL
  /\ inf[Head(pqueue)].remain = 0
  /\ pqueue' = Tail(pqueue)
  /\ SwitchTo(priqueue_peek(Tail(pqueue)))
  /\ info' = inf
  /\ totals' = resp

StartFirst(evicted, inf, resp) ==
  /\ pqueue # <<>> /\ evicted = NULL
  /\ inf[Head(pqueue)].remain # 0
  /\ SwitchTo(Head(pqueue))
  /\ info' = [inf EXCEPT ![Head(pqueue)].start = currtime(clock')]
  /\ UNCHANGED pqueue
  /\ totals' = resp

Started(j, inf) == [inf EXCEPT ![j].start = IF @ = -1 THEN currtime(clock') ELSE @]

\* Slip: shortest job first is preemptive as well.
PreemptiveSJF == {"PPRI", "PRI", "PSRTF", "RR", "SJF"}

Preemptive == {"PPRI", "PRI", "PSRTF", "RR"}

GoOn(evicted, inf, resp) ==
  /\ pqueue # <<>> /\ evicted # NULL
  /\ pqueue_scheme \notin Preemptive
  /\ SwitchTo(evicted)
  /\ info' = Started(evicted, inf)
  /\ UNCHANGED pqueue
  /\ totals' = resp

\* Lines 161-170: remain_time becomes the time since the start, so a job whose
\* start has just been set is not offered again.
Rotate(evicted, inf, resp) ==
  /\ pqueue # <<>> /\ evicted # NULL
  /\ pqueue_scheme \in Preemptive
  /\ LET head == Head(pqueue)
         run == Started(evicted, inf)
         ran == [run EXCEPT ![evicted].remain = currtime(clock') - run[evicted].start]
         rr == pqueue_scheme = "RR"
     IN  /\ info' = IF rr THEN [ran EXCEPT ![head].priority = @ + 10] ELSE ran
         /\ totals' = IF rr THEN [resp EXCEPT !.response = @ + ran[head].start - ran[head].arrival]
                            ELSE resp
         /\ pqueue' = IF ran[head].remain > 0
                      THEN priqueue_offer(Tail(pqueue), head, info')
                      ELSE Tail(pqueue)
         /\ SwitchTo(priqueue_peek(pqueue'))

scheduler_quantum_expired(evicted, inf, resp) ==
  \/ QueueEmpty(evicted, inf, resp)
  \/ DropFinished(evicted, inf, resp)
  \/ StartFirst(evicted, inf, resp)
  \/ GoOn(evicted, inf, resp)
  \/ Rotate(evicted, inf, resp)

---------------------------------------------------------------------------
(* The green threads.                                                      *)

\* gtgo: two jobs may be created at one time.  A job works for the running_time
\* its creator gives, which is a time of the wall clock.
gtgo == /\ stage = "create" /\ Len(info) < NumJobs
        /\ \E work \in 1 .. MaxBurst, d \in {0, 1} :
             /\ clock' = clock + d
             /\ left' = Append(left, work)
             /\ info' = Append(info, [priority |-> 1, arrival |-> currtime(clock'),
                                      burst |-> 10 * work, start |-> -1, remain |-> 10 * work])
        /\ pqueue' = priqueue_offer(pqueue, Len(info'), info')
        /\ state' = Append(state, "Ready")
        /\ job_count' = job_count + 1
        /\ UNCHANGED <<pqueue_scheme, totals, counter, suspended, currjob, stage>>

\* gtstart and the first iteration of the loop in gtret.
gtstart == /\ stage = "create" /\ Len(info) = NumJobs
           /\ stage' = "wait"
           /\ UNCHANGED clock
           /\ scheduler_quantum_expired(NULL, info, totals)
           /\ UNCHANGED <<pqueue_scheme, state, counter, suspended, job_count, left>>

\* gtyield(SIGALRM) in a job: every other time main runs first.
Alarm == /\ currjob \in Jobs /\ left[currjob] > 0
         /\ left' = [left EXCEPT ![currjob] = @ - 1]
         /\ clock' = clock + 1
         /\ counter' = (counter + 1) % 2
         /\ \/ /\ counter' = 0 /\ job_count > 0
               /\ suspended' = currjob
               /\ currjob' = gtmain
               /\ UNCHANGED <<pqueue, info, totals>>
            \/ /\ counter' # 0 \/ job_count = 0
               /\ scheduler_quantum_expired(currjob, info, totals)
               /\ UNCHANGED suspended
         /\ UNCHANGED <<pqueue_scheme, state, job_count, stage>>

\* main's gtdoyield(0) switches back to the job, which goes on behind the
\* switch in gtyield, at line 175.
GoBack == /\ stage = "wait" /\ currjob = gtmain /\ suspended # NULL
          /\ suspended' = NULL
          /\ UNCHANGED clock
          /\ scheduler_quantum_expired(suspended, info, totals)
          /\ UNCHANGED <<pqueue_scheme, state, counter, job_count, left, stage>>

\* gtstop, gtret(-1), scheduler_job_finished; gtyield(-1) has no job to evict.
Finish == /\ currjob \in Jobs /\ left[currjob] <= 1
          /\ clock' = clock + left[currjob]
          /\ left' = [left EXCEPT ![currjob] = 0]
          /\ state' = [state EXCEPT ![currjob] = "Unused"]
          /\ job_count' = job_count - 1
          /\ LET done == info[currjob]
                 sums == [job_num |-> totals.job_num + 1,
                          waiting |-> totals.waiting + (currtime(clock') - done.arrival) - done.burst,
                          turnaround |-> totals.turnaround + currtime(clock') - done.arrival,
                          response |-> totals.response + done.start - done.arrival]
             IN  scheduler_quantum_expired(NULL, [info EXCEPT ![currjob].remain = 0], sums)
          /\ UNCHANGED <<pqueue_scheme, counter, suspended, stage>>

\* gtret in main: gtdoyield(0) finds another job, or the program ends.
MainYields == /\ stage = "wait" /\ currjob = gtmain /\ suspended = NULL
              /\ UNCHANGED clock
              /\ scheduler_quantum_expired(NULL, info, totals)
              /\ stage' = IF currjob' = gtmain THEN "exited" ELSE stage
              /\ UNCHANGED <<pqueue_scheme, state, counter, suspended, job_count, left>>

Terminated == stage = "exited" /\ UNCHANGED vars

Next == gtgo \/ gtstart \/ Alarm \/ GoBack \/ Finish \/ MainYields \/ Terminated

\* One processor runs whatever is current, and the timer never stops.
Spec == Init /\ [][Next]_vars /\ WF_vars(Next)

---------------------------------------------------------------------------
(* Properties.                                                             *)

Ready == {j \in DOMAIN state : state[j] = "Ready"}
NonPreemptive == pqueue_scheme \in {"FCFS", "SJF"}

\* libscheduler.c:144-149, 156-170, gthreads.c:180-203: the queue is in the
\* order of the scheme and names only jobs that live, although a job that ends
\* is taken out of it only by the next look at its freed record; whoever runs,
\* or has made way for main, lives.  Without preemption the queue holds every
\* job that has not ended, and the one that runs is at its head.
Consistent ==
  /\ ToSet(pqueue) \subseteq Ready /\ IsInjective(pqueue)
  /\ \A i, k \in DOMAIN pqueue : i < k => ~Before(pqueue[k], pqueue[i], info)
  /\ {currjob, suspended} \ {gtmain, NULL} \subseteq Ready
  /\ job_count = Cardinality(Ready) /\ totals.job_num = Len(state) - job_count
  /\ NonPreemptive => /\ ToSet(pqueue) = Ready
                      /\ \A j \in {currjob, suspended} \cap Jobs : j = Head(pqueue)

\* libscheduler.h:146-147: without preemption a job that has run is left for
\* another one only when it has ended, and no job that precedes it in the
\* scheme's order is then still waiting.
EndsInOrder ==
  [][NonPreemptive =>
       \A j \in DOMAIN state : LET ends == state'[j] # state[j] IN
         /\ ends => \A k \in Ready : ~Before(k, j, info)
         /\ currjob = j /\ currjob' \in Jobs \ {j} => ends]_vars

\* libscheduler.c:176-188 with 107-112: what shortest job first is for.  When the
\* program ends no order of its jobs, worked off one behind the other until now,
\* would have made waiting_time less, on the program's own clock.
ShortestFirstIsBest ==
  stage = "exited" /\ pqueue_scheme = "SJF" =>
    LET after(p, k) == FoldSet(LAMBDA i, sum : sum + info[p[i]].burst \div 10, 0, k + 1 .. NumJobs)
        waits(p, k) == currtime(clock - after(p, k)) - info[p[k]].arrival - info[p[k]].burst
        total(p) == FoldSet(LAMBDA k, sum : sum + waits(p, k), 0, Jobs)
    IN  \A p \in Permutations(Jobs) : totals.waiting <= total(p)

\* libscheduler.h:147-149: the program does not end while a job waits.
NobodyLeftBehind == stage = "exited" => Ready = {}

\* gthreads.c:326-344: main's gtret ends the program under every scheme, and
\* without preemption only after every job has ended.
AllJobsEnd == /\ <>(stage = "exited")
              /\ NonPreemptive => []NobodyLeftBehind
=============================================================================

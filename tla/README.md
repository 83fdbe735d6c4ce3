# Sys-Programming: a verification project

The repository is a collection of systems programs in C: synchronisation
primitives, programs built on threads, and allocators, servers and tools. This
directory holds TLA+ models of its concurrent core and of its scheduler, servers,
memory managers, pipeline and file system, TLC configurations that check them on small instances, and
TLAPS proofs. Paths below are relative to
`src/`.

    tlc -config queue.cfg MCBoundedQueue             # any run: see the table
    tlapm BoundedQueueProofs.tla                     # the proofs of a module

## Inventory

| Part | State it keeps | Operations | Interacts by | What is hard | What makes it correct |
|---|---|---|---|---|---|
| `critical_concurrency/queue.c` | list, length, maximum, mutex, one condition variable | create, push, pull, destroy | called by threads; used by cracker1 and (same header) parmake | one condition variable for two kinds of sleepers, pointer surgery, shutdown | linearizable FIFO, capacity, no lost wakeup, each node freed once |
| `critical_concurrency/barrier.c` | count, times_used, mutex, condition variable | init, wait, destroy | threads in rounds | reuse: a fast thread laps a slow one | threads released in groups of N |
| `critical_concurrency/semamore.c` | value, max_val, mutex, condition variable | init, wait, post, destroy | threads | two-sided blocking | 0 <= value <= max_val, nobody oversleeps |
| `deadlocked_diners` | intern mutexes, arbitrator, `working`, `running`, `Signum` | company loop, surveillance scan, signal handler, main | shared mutexes, polling of their owner fields, signals | deadlock, unlocked polling, shutdown by alarm | exclusive interns, deadlock avoided or reported, the program ends |
| `password_cracker/cracker1.c` | job queue, counters per worker | read and push tasks, create and join workers, pull and crack | queue | bounded queue filled before the consumers exist, sentinels | each task processed once, totals add up, the program ends |
| `password_cracker/cracker2.c` | one shared record, a barrier, a mutex | publish a user, search subranges, cancel, sum up | barrier three times per user, flag under a mutex | stale flag of the user before, phases out of step | the right password, complete searches, right totals |
| `parallel_make` | dependency graph, rule states, queue, mutex, condition variable, set of targets | search for cycles and fill the queue; take, wait for dependencies, run commands, store the result | queue, shared rule states | unlocked reads of results, failure of one of several dependencies | dependencies first, failures propagate, no circular wait |
| `savvy_scheduler` | priority queue, job records, averages; green threads | new job, quantum expired, job finished; yield, join | calls from the thread library on a timer | a job is peeked, not removed; bookkeeping over many quanta | the queue names live jobs only, the promised order is kept, every job ends |
| `charming_chatroom` | eight slots of descriptors, count, endSession | accept, broadcast, process, leave, clean up | threads under a mutex, SIGINT | descriptor closed before its slot is cleared, slots at the limit | slots name open connections, a message reaches everybody who stays, a slot is freed again |
| `nonstop_networking` | per-connection record, list of files, its length | accept, read, GET/PUT/LIST/DELETE | epoll events | requests in pieces, two connections on one name, client that goes away | the list agrees with the files, a stored file is some client's whole body |
| `ideal_indirection` | TLB, page directories, frames, segments | read, write, add and remove process, evict | MMU calls kernel | several caches of one mapping, frames taken away under them | a read returns the last write, a frame has one owner |
| `malloc`, `mini_valgrind`, `vector` | heap list; list of blocks and byte counters; array with capacity | malloc, free, realloc, calloc; the same, watched; push, insert, erase, resize | sequential calls | long sequences of legal calls, overflow | blocks partition the heap; counters equal the list; size <= capacity |
| `teaching_threads`, `mapreduce` | partial results; child processes and pipes | split, reduce, join; map, reduce | threads; pipes | chunk arithmetic; descriptors left open | equals the sequential result; children see end of file |
| `shell` | background processes, history | run, `&`, signals | fork, wait, SIGINT | a child that ends while another is awaited | every child is waited for |
| `finding_filesystems` | inodes, data map, blocks, indirect blocks | read, write, create, unlink | sequential calls on one mapped image | block boundaries, blocks used again, pointers in blocks | a file holds what was written to it, a block has one owner |
| `text_editor`, `rpc`, `extreme_edge_cases`, `know_your_tools`, `mad_mad_access_patterns`, `utilities_unleashed`, `perilous_pointers`, `lovable_linux` | files, buffers, strings | sequential | system calls | mostly input and output | - |

## Modules

| Module | Models | State and actions |
|---|---|---|
| `Monitor` | a POSIX mutex with one condition variable (external) | `owner`, `waiting`, program counters; acquire, release, sleep, broadcast, spurious wakeup |
| `FIFO` | the queue of `queue.h` as one variable | `Enqueue`, `Dequeue`, atomic and blocking |
| `AtomicQueue` | the promise of `queue.h` to threads | call, effect, return of each operation |
| `BoundedQueue` | `queue.c` | one action per statement that reads or writes shared state: lock, test and sleep, relock, insert or remove, broadcast, unlock; `queue_destroy` one node per step |
| `BoundedQueueProofs`, `DinersProofs`, `SchedulerProofs` | proofs about the module of that name | |
| `MonitorProofs` | proofs about `Barrier` and, as the instance `Sem` of `MCMonitors`, about `Semamore` | |
| `ServerProofs` | proofs about `ChatServer` and, as the instance `Files` of `MCFiles`, about `FileServer` | |
| `MemoryProofs` | proofs about `VirtualMemory`, `Heap` and `MiniValgrind`, the instances `VM`, `Malloc` and `Leaks` of `MCMemory` | |
| `CrackerProofs` | proofs about `Cracker1`, `Cracker2` and `MapReduce`, as `MCWorkers` composes them | |
| `AtomicBarrier`, `Barrier` | promise of `barrier.h`; `barrier.c` | the gate (lines 29-30), the turn (38-39), arrival and departure |
| `Semamore` | `semamore.c` | the common steps of `semm_wait` and `semm_post` are shared actions; the test and the effect differ |
| `Diners` | `simulator.c`, `company.c`, `arbitrator.c`, `bad_company.c` | company loop with one action per lock or unlock; the scan reads one owner field per step; `Alarm` and `Interrupt` are the signal handler |
| `Cracker1` | `cracker1.c` over `FIFO` | `start()` as main's program counter; a worker pulls, then cracks one password in a step |
| `Cracker2` | `cracker2.c`, `getSubrange` | `BarrierTrips` lets go whoever waits when all wait, whatever phase they think they are in; a worker's loop reads the flag, hashes, stores the password, sets the flag in separate steps |
| `ParMakeOrder` | `iscycle` and the graph of the parser | the graph grows edge by edge; `iscycle` is its stack of pending calls, one step per neighbour |
| `ParMakeProofs` | proofs about `ParMakeOrder` and `ParMake` | |
| `ParMake` | the workers of `parmake.c`, after `ParMakeOrder`, over `FIFO` and `Monitor` | `checkdep`, `run`, `run_rule`, one dependency per step; the unlocked insertion into the set may be lost when two workers are at it |
| `Scheduler` | `libscheduler.c`, `libpriqueue.c`, `gtyield` and its callers in `gthreads.c` | the ready queue, the records of the jobs, the running thread; `Alarm` is `gtyield` from the timer with all of `scheduler_quantum_expired`, `Finish` a thread that returns, `MainYields` main's wait in `gtret` |
| `ChatServer` | `charming_chatroom/server.c` | `clients[]`, `clientsCount`, descriptors, the mutex; main's accept, register, spawn; a thread's read, lock, one write per slot, unlock, close, clear; `close_server` is the signal |
| `FileServer` | `nonstop_networking/server.c` | one record per connection, the list of names, the files; `hd_data` is one pass of the event loop over one connection: header, size, body, answer |
| `VirtualMemory` | `mmu.c`, `tlb.c`, `kernel.c` of `ideal_indirection` | page tables, physical frames, TLB, swap files; read, write, add and remove a process, with faults and evictions inside them |
| `Heap` | `malloc/alloc.c` | the words between the first block and the break, headers and footers included; malloc, calloc, free, realloc, the program's own writes |
| `MapReduce` | `mapreduce.c`, `splitter.c` | who holds which end of which pipe, what is in the pipes, the life of each child; main forks, closes and waits, a child sets up its descriptors and reads, writes and exits. `start_ptr` and `end_ptr` cut the file |
| `MiniFS` | `minixfs.c`, `minixfs_provided.c`, `minixfs_utils.c` | names in the root directory, inodes, data map and one array of words, because `memcpy` does not stop at the end of a block; create, write, unlink, and `minixfs_read` as an operator |
| `MiniValgrind` | `mini_valgrind.c` | the list through the `next` fields of the blocks and the three counters; malloc, free, realloc of any address |
| `Vector` | `vector.c` | size, capacity and slots, some of them garbage; every call that changes them |
| `MCMonitors` | `Barrier` and `Semamore`, side by side | as `MCWorkers` |
| `MCWorkers` | `Cracker1`, `Cracker2` and `MapReduce`, side by side | a variable `program` chosen at the start says which one runs |
| `MCFiles`, `MCMemory` | `FileServer`; `VirtualMemory`, `Heap` and `MiniValgrind`, each under a name of its own | no actions of their own: what runs and proofs share |
| `MCSystems` | the programs of `MCFiles` and `MCMemory`, `MiniFS`, `Vector`, side by side | as `MCWorkers` |
| other `MC...` | instances for TLC | |

Composition: `BoundedQueue` is shown to implement `AtomicQueue`, which is built
on `FIFO`; `Barrier` to implement `AtomicBarrier`; `Cracker1` and `ParMake` use
`FIFO` in place of the pointer structure. `ParMake` extends `ParMakeOrder`: a
behaviour parses a makefile, searches it, fills the queue and builds. The queue
of `parallel_make` comes from a library binary with the same header, so
`ParMake` relies on the header only. `MCMonitors`, `MCWorkers` and `MCSystems` compose
nothing: their programs share no state, and a behaviour is a behaviour of one of
them.

Each module also holds, before the definition it varies, a few operators marked
`Slip`: the same code with one plausible mistake. They are not part of the
specification; each shows that a property notices that mistake.

## Runs

| Run | Instance | Shows |
|---|---|---|
| `queue` | 2 pushers (1 and 3 calls), 2 pullers (1 each), maximum 2, 1 spurious wakeup | list shape, capacity, mutual exclusion, no lost wakeup; refinement of the atomic queue; every call returns; `queue_destroy` frees exactly what is left |
| `monitors` | barrier: 4 threads, groups of 2 or 4, 2 rounds; semaphore: 2 + 2 threads, 2 calls each, ceiling 1; 1 spurious wakeup each | nobody laps anybody; refinement of the abstract barrier with its fairness; with one thread per place all rounds end; the value stays in range and all calls return |
| `diners` | 3 companies, 3 interns, either build | exclusive interns; with the arbitrator a company never has to wait for an intern, and the billing cycle ends; without it, early deadlocks are reported |
| `workers` | cracker1: 3 workers, 4 tasks, queue of 7; cracker2: 3 workers, 3 users of 5, 4 and 5 candidates, ints below 4; mapreduce: 2 splitters and mappers, files of up to 3 bytes, pipes of one line | each task once and the totals; rendezvous, cancellation and totals; each line once or the failure reported (`EveryLineOnce`); all three programs end (`BothEnd`, `NobodyHangs`) |
| `cracker1_overflow` (violation) | 5 tasks, queue of 7 | main blocks before the workers exist |
| `parmake` | 2 workers, every makefile of 3 rules, 3 dependencies and a goal, 1 spurious wakeup | `iscycle` against its reference definition; dependency order; dependencies settled before a rule runs, nobody oversleeps, every queued rule is settled |
| `parmake_failure` (violation) | 2 workers, one dependency | a failure between two looks at a dependency is missed |
| `memory_leak` (violation) | 2 processes, 5 frames, TLB of 3, 7 calls | a process added after another was removed finds in its third page what that one wrote |
| `scheduler` | 4 jobs of up to 3 quanta; FCFS, SJF and RR; begun at a full second or 7 quanta later | the queue and the running thread name live jobs; shortest-first has the least total wait on the program's own clock; FCFS and SJF end in their order and all their jobs end |
| `scheduler_rr` (violation) | the same jobs, RR | a job that had its first alarm is dropped and never finishes |
| `chatroom` | 2 slots, 3 connections, 2 messages | `SlotsConsistent`, `HearsEverything`, `SlotsAreFreed` |
| `systems` | files: 3 connections, 1 name of length 1, PUTs of size 1 with bodies of at most 1, and 2 connections with sizes and bodies of at most 2, ints modulo 2; memory: 2 processes, 5 frames, TLB of 3, 7 calls; heap: 11 words, sizes 0, 2 and 3, 10 calls, enough for a word of a block to be taken for a header and for the block to be moved after that; file system: 2 files, 4 blocks of 2 words, 1 direct block, 4 calls; list: 3 addresses, 6 calls; vector: up to 5 elements, capacity 2 at first | `ListMatchesFiles`, `StoredWhole`; `MemoryKept`; `BlocksKept`; `FilesKept`; `ReportExact`; `IsSequence` |

Bounds. Two threads of each kind are the fewest for which a signal can reach the
wrong kind of thread and for which two sleepers wake together; a maximum of two
is reached, and left, within the four pushes, and two elements remain for
`queue_destroy`. With four threads and a barrier of two there are late-comers at
the gate and two groups at once; with four places a lapper meets a group that is
still leaving; the second round covers a complete reuse. Three companies are the
smallest table on which no two neighbours exhaust the interns. The queue of
cracker1 holds 32 in the code: only tasks + workers against the maximum matters,
so 7 (fits) and 5 tasks (one too many) stand for it. Three dependencies on three
rules include forks, chains, shared dependencies, cycles of one to three rules
and a cycle next to rules that are queued before it is met; a goal is one more
edge. `MaxSpurious` bounds wakeups without a cause, `MaxEdges` and `MaxGoals`
the makefiles. `IntLimit` stands for 2^31: with 4, the largest count of one
worker still fits an `int`, and the sum over the workers (`hash_count`) wraps.

Two slots and three connections let the chat server refuse a client, and give a
descriptor to a newcomer while the thread that closed it has not cleared its
slot. One name and three requests are the fewest on which two PUTs and a DELETE
overlap; a size of one unit already arrives in the pieces header, size, body,
and may stop between any two. Two connections with sizes and bodies from 0 to 2
units (the instance `Wide`) add empty files, what comes late behind a size of 0,
bodies in two pieces, and sizes that
differ by 2^32 (`INT`, which is 2 in this run) and so are one `int`. Five frames hold the tables of two processes and
one page, so that the second page evicts the first; seven calls cover adding two
processes, writing, being evicted, removing, adding again and reading. Eleven
words with blocks of size zero let a block be split, merged to the left and to
the right, and given away again with the old footer still in it. The word of 64
is larger than any size the program asks for and smaller than a remainder that
wraps below zero.

The clock of the scheduler counts quanta of 100 ms, and work goes on by whole
quanta, but the program sees what `currtime()` makes of it: it divides the
nanoseconds by 10^10, so that a quantum counts as a hundredth of a second and the
step to the next full second as 0.91 (`gthreads.c:49`). Arrival, start and
remaining times, and the sums behind the averages, are such readings, in
hundredths; `running_time`, which the caller gives, is a time of the wall clock.
With `Starts` 0 and 7 and jobs of up to three quanta one run stays below ten
quanta for its first jobs, and the other crosses a full second while they run.
`ShortestFirstIsBest` is about the order: had any two jobs been served in another
order, the sum of `waiting_time` would not have been less on that same clock.

Every file of up to three bytes, with newlines anywhere, has offsets of the two
splitters inside a line, at its start and at the end; a pipe of one line makes
writers wait, and any one of the three programs may be missing. One direct block
stands for eleven: a second block needs the indirect one, a third is where its
entries were never set, and four blocks run out. Four calls write, unlink, write
again behind a gap, and read back. Three blocks are the fewest list with a
middle. The two file names are interchangeable (`AnyFileName`): nothing orders
them, and `MCSystems` has invariants only. Five elements take the capacity from 2 over 4 to 8.

Fairness. Every thread of these programs is an operating-system thread that
blocks only in the calls modelled, so each thread is weakly fair as a whole
(`WF_vars(Step(t))`), and so is the thread that joins the others. A mutex is not
assumed to be fair: strong fairness is used nowhere. Signals are never fair: the
end of the billing cycle is stated from the alarm on. In the chat server
main and each thread of a client are weakly fair; what clients send and when they
leave is not, and so `SlotsAreFreed` starts where the thread has seen its client
go. In the scheduler one thread runs at a time and only the timer or its return
stops it, so `WF_vars(Next)` is the machine going on. The programs of `MCSystems`
have safety properties only. In `MapReduce` every process is weakly fair: it
waits only for a line, for room in a pipe, or in `waitpid`. `GroupsReleased` carries the
fairness of the abstract barrier over to the code.

Where deadlock is not checked the program may really stop: more threads
than a group of the barrier, unarbitrated companies, more tasks than the queue
has room for, servers with no client left to send anything, a program that has
made its last call.

## Proofs

`BoundedQueueProofs` proves, for any finite or infinite sets of pushers and
pullers, any quotas and any maximum size (`QueueAssumption`,
`MonitorAssumption`), that the invariants of the run `queue` hold and that
`SafeSpec` implements `Atomic!SafeSpec`.

The argument. `Safe` is the conjunction of the type invariant, `RoleOK` (a
pusher is only at push statements, a sleeper only at the wait), mutual
exclusion, capacity, list shape, no lost wakeup, and two facts about
`queue_destroy`. None of the parts is inductive alone: an insertion keeps
`ListShape` only under the mutex, `NoLostWakeup` needs that whoever changes the
list is about to broadcast, and `NoDoubleFree` needs the shape of the list and
that nobody is inside when it is destroyed. `LinkedNodes` says what linking a
node does to the list; one lemma per kind of step shows that `Safe` is kept. For
the refinement, `InsertAppends` and `RemoveTakesHead` show that the abstract
contents change by an append and by a tail, and every other step is a call, a
return or a stutter.

`ParMakeProofs` is about every makefile: any number of rules, dependencies and
goals (`OrderAssumption`), with or without cycles, and any finite set of workers
(`ParMakeAssumption`). It has three layers, each an invariant that uses the one
before.

- *Order.* `DependenciesFirst` speaks of the queue alone and is not inductive;
  `OrderInv` adds what the stack of pending calls knows. `MarksOK`: a rule that
  was met and is not pending has been queued, which is why `iscycle` may pass it
  by. `StackOK`: what a pending call has walked over is queued, but for the one
  neighbour whose call is just above it on the stack. So a call at the end of its
  neighbours has queued them all before it queues its own rule.
- *Search.* `SearchRight` (a cycle is reported exactly when the goals depend on
  one, and otherwise the queue holds what they need, once each) needs that the
  pending calls are a path of the graph that starts at the sentinel (`PathOK`),
  that a pending rule is one the goals need (`ReachedOK`), and that a queued
  rule is needed, is no longer pending, and is queued once (`QueuedOK`). So a neighbour that is still marked as visited closes a cycle,
  and a queue in dependency order without one is closed under dependencies:
  everything needed is in it. Reachability is a least set closed under
  dependency, so that no induction over paths is needed (`ReachLeast`).
- *Workers.* `WorkInv` has the main thread, the locals of the workers and what
  each has already waited for (`WaitedOK`); `Consistent` and `StagesInOrder`
  follow. For `NeverStuck` the invariant also keeps the queue as it was when the
  workers were created and how many entries have been pulled (`PoolOK`): rules
  in the hands of workers are pulled ones, no rule is in two hands, and what a
  rule depends on is earlier in that queue. The worker with the earliest
  unsettled rule therefore waits for nobody, so that somebody can always go on,
  however few workers there are. `NothingDropped` says that the test of the
  racing set in `run_rule` never throws away a rule that was pulled. These two
  are stated in the proof module; on the run they are behind `Termination` and
  the check for deadlock.

`CrackerProofs` is about the two programs of `password_cracker` and about
`mapreduce`. For the first two it allows any number of workers. For cracker2 the invariant has one part per thing the three barriers
guarantee: main and the workers are at matching statements (`InStep`), of the
same line of the input (`LineOK`), nobody has seen `found` set who should not
have (`FlagOK`), a worker's position lies in its subrange (`RangeOK`), and the
shared count is the size of the set of candidates that those who have added
theirs have tried (`TallyOK`). That is `CrackersConsistent`, for any number of
users and candidates, also when the cast in `getSubrange` cuts a subrange short.
`SummariesRight` says that what main prints is right, and that needs the
subranges to cover the candidates: it is proved under `CountsFit`, that each
subrange fits an `int`, which is false only for inputs with 2^31 candidates per
worker (see below for what the code does then). `hash_count` is an `int` as well,
and a sum over all workers: with 26^7 candidates it wraps although each subrange
fits. `SummaryRight` therefore promises the number of candidates as an `int` shows
it, and `IntSum` that a sum that wraps on the way is the same `int` in the end. `SubrangesCover` is the
arithmetic: the subranges follow each other from 0 to the last candidate.

For cracker1, `TasksCrackedOnce` holds for any tasks, workers and size of the
queue; when the queue has no room for all of them main stops before it creates a
worker, and no task is cracked at all. The
invariant `TaskInv` names who took each task (`by`) and how many places of the
queue have been pulled, and says that a worker leaves only with a NULL of its
own, which is behind all tasks; the two counters are the sizes of sets of tasks.

For mapreduce, `LinesReducedOnce` proves `EveryLineOnce` for any number of mappers,
any file and any size of the pipes (`MapReduceAssumption`). `PortionsApart` and
`PortionsCover` are about how the file is cut: a portion ends where the next one
starts, whatever the offsets, so that each line is in one portion. The invariant
follows the lines of a portion through five places, the splitter, its pipe, the
mapper, the reducer's pipe and the reducer: nowhere twice, and, as long as no
program is missing, all of them somewhere (`StageOK`). That none is lost needs
`EndsOK`, who holds which end of which pipe, and `EndOfInputOK`: a mapper has seen
the end of its input only when its splitter is over, because until then the
splitter, or main before it forks it, holds an end to write to (`HeldUntilOver`); for
the same reason nobody is killed by a write. When main is done it has reaped
everybody (`LivesOK`), and the only place left is the reducer.

`ServerProofs` is about the two servers. For the chat server it allows any number
of slots, connections and messages (`ChatAssumption`). `SlotsConsistent` has to
survive a thread that closes its descriptor without the mutex and clears its slot
later, while `accept` may return the same number in between. `SlotsInv` says who
owns an open descriptor: one slot whose thread has not closed it, or main before it has registered it
(`FdsOK`); a slot is taken while a thread works for it or is about to be created
(`ThreadsOK`, `MainOK`); `clientsCount` is the number of taken slots
(`CountOK`); connections are numbered in the order they were accepted
(`PeersOK`). For `HearsEverything`, `HeardOK` describes a broadcast under way: it
has reached the slots before the cursor and no other, and nobody registers
meanwhile, because that takes the mutex. Together with `SlotsInv` this makes
`ChatInv`, which TLC agreed with before it was proved.

It also proves `StoredWhole` of the file server for any numbers of
connections, any names, any sizes and any width of an `int`
(`FileServerAssumption`). A PUT comes
in pieces, and what has come is spread over the buffer, `file_size`,
`size_offfsets` and the file, so the invariant `FileInv` has three parts
besides the types. `ProgressOK` says what the metadata of a connection mean in
terms of the units that have arrived. Two cases are carved out, because the code
keeps no promise there: a PUT whose `open` failed (`local_fd` is none), and one of
size 0 that went on after its size (`late`): the code comes back to the size for
as long as `file_size` is 0, reads it anew out of whatever the buffer holds, and
counts a short piece not at all. `judge_data_size` compares two `int`s, so "as much
as its size" is said of `int`s too (`SameInt`).
`InodesOK`: whatever name reaches an inode, on disk or through a
descriptor still open after a DELETE, is the name of the PUT that created
it, so that writes to two names never meet. `LastOK`: who opened a name last,
with no other request at it, is the only writer of the file on disk, and the
file holds what he has written so far. `WrittenEffect` is what a write at a
position does to a file, and `RemoveFirstEffect` that erasing one name from the
list keeps the others.

`ListMatchesFiles`, that the list LIST sends is that of the files and `file_len` its
length, is proved for any names of any lengths. `ListInv` adds to `FileInv` that no
name is listed twice, `CountOfList` (`file_len` is the sum over the listed names, or
more once a listed name has been put again) and `NamesOnDisk` (a listed name has a
file, unless a PUT of it has met another request for it or could not open its
file). The sum is a fold over a set,
in an order nobody chose. `LengthIsBytes` shows that it counts the pairs of a
listed name and a byte of it, for a smallest set it did not count would have a
smaller one, and after that adding and erasing a name are facts about cardinalities.

`MemoryProofs` proves `MemoryKept` of the virtual memory, for any finite set of
processes, any values and any sizes of the TLB from two on, given two frames for
every process and one more (`MemoryOK`: with fewer the kernel could run out of
frames to evict, and a value is none of the marks of the model). `VMInv` has four
parts besides the types. `TablesOK`: no frame is the directory or the page table of
two processes. `FramesOK`: `entry_mapping` and the entries of the live page tables
are inverses, outside the reserved frames. `TLBInv`: the TLB, which outlives the
access, holds entries of the current process alone. `ContentOK`: what a read
*would* find at an entry, in its frame or in its swap file, is what was last
written there, or zero; stated of the pages that are out as well as of those that are in,
it survives an eviction. The lemmas follow the calls: `AskEffect` is
`ask_kernel_for_frame` (an eviction moves one content and changes none),
`FaultedInOK` a page fault, `AddedMemory` the four frames of a new process,
`FreedOK` those of one that goes, `LookupOK` the TLB. `Spare` counts the reserved
frames, so that there is always one to take. The one exception is the history
`inherited`: the third page of a process, which is not mapped until it is used, when
a swap file lay at its entry's address as the process was added. Until the process
writes to that page nothing is promised of it, and `memory_leak` shows why.

It proves `BlocksKept` of the allocator as well, for any size of the heap, any
sizes the program asks for and any sizes that lead to a split (`HeapOK`). A merge to
the left leaves its footer in the middle of the larger block, so that neither the
headers nor the footers alone partition the heap; what does is a set of places
that the code keeps nowhere. `Shape(h, H, S)`: the units up to the break are cut
into chunks, which begin at the places in `S`; the blocks held (`H`) and those on
the list are whole chunks; and the word in front of a place in `S`, read as a
footer, leads back to a place within the chunk that ends there. So what a `free`
takes for the block to the left is that block or lies inside it, and the block
freed is joined to one on the list or becomes a chunk that nobody holds. `Kept`
adds what the program knows of its words. They are promised only where the block's
footer is its own (`Whole`), and the invariant says so: without that condition the
property is false, as TLC shows with ten calls. One lemma per change keeps `Shape`: `PushShape` and
`MergeShape` for `free`, `TakeShape`, `SplitShape` and `SbrkShape` for `malloc`;
`RewriteShape` is the program writing to what it holds, and `Keeps` says that a change
leaves the other blocks' words alone. `HeapInv` is `Kept` until a remainder wraps.

And it proves `ReportExact` of mini_valgrind, for any finite set of addresses without
NULL and any sizes (`MiniValgrindAssumption`). `LeakInv` says of the `next` fields
what `ReportExact` says of the loops: `ChainOK`, they lead from the head through the
blocks the program holds, each once, to NULL. The rest is about two definitions
that recur. `Walk` goes from block to block: `OnePath` and `SomePath` show that there
is one way to go `n` steps, because a shortest counterexample would have a shorter
one, so that the recursion has a solution (`WalksExist`), every solution takes that
way (`WalkTakesPath`), and with fewer blocks than steps it is what the program holds
(`ListIsOwned`). `Weight` is the sum of sizes, counted as the bytes of a set of
blocks (`WeightIsBytes`). `ChainLonger` and `ChainShorter` are what linking the newest
block and unlinking any one do to the chain.

`MonitorProofs` is about both monitors. Of the semaphore it proves
`SemConsistent` and `SemNoLostWakeup` for any waiters, posters, quotas and ceiling
(`SemamoreAssumption`). Their conjunction is inductive as it stands: a thread that
finds it cannot go on falls asleep under the mutex, and whoever changes the value
owes a broadcast before it unlocks.

Of the barrier it proves, for any finite set of threads, any group size and number
of calls (`BarrierAssumption`), that `Consistent`, `NoLostWakeup` and
`RoundsSynchronised` hold and that `SafeSpec` implements `Atomic!SafeSpec`. The
invariant adds `CallsOK` (nobody has made more calls than he may) to the three.
`GroupSize` and `FullGroup` count the threads between gate and turn: when the last
one arrives they are `n_threads`, and with one place per thread they are
everybody, which is what keeps rounds together. For the refinement, `LastTrips`
shows that the last arrival is the step that releases the group; the rest are
arrivals, departures or stutters.

`DinersProofs` proves `InternsExclusive` for any number of companies and interns,
and `Consistent`, which adds the arbitrator's promise, when there is more than one
intern: with one, left and right are the same mutex and the promise is false. The
invariant says who holds what at each line (`HoldsOK`), that a mutex has the owner
that holds it (`HeldOK`), that with the arbitrator one company at a time is
between its locks (`TurnOK`), and what main and the surveillance thread may still
do (`StartOK`, `ScanOK`).

`SchedulerProofs` proves `Consistent` and `EndsInOrder` for any number of jobs, any
running times in whole quanta, any start of the clock and all six schemes (`SchedulerAssumption`), and that without
preemption nobody is left behind when main ends the program (`NoJobLeftBehind`,
the safety half of `AllJobsEnd`). The invariant `SchedInv` has the types; the
queue, `Good`: distinct jobs in the order of the scheme, each with work left and
started by now; who runs, `RunsOK`: main, or the job at the head, or main while
the job at the head has made way for it; the books, `JobsOK`: the queue names
jobs that live, all of them without preemption; and `EndOK`: main leaves only
when the queue is empty. Jobs with work left are what makes `Consistent`
inductive: `scheduler_quantum_expired` drops the head on sight of a remaining time
of 0, so that must mean that the job has ended. Of the program's clock the proof
needs only that it does not go back and moves when a quantum has passed
(`ClockGrows`, `TimePasses`). `OfferPlace` shows that
`priqueue_offer` links a job where it belongs (the comparers are lexicographic,
`BeforeOrder`), `OfferEffect` what that makes of the queue. `ExpiredResumes` is
about a look at a queue nobody has left, in all five ways through the function;
`ExpiredDrops` about the look after a job's end, when the record at the head is
the freed one. Under round robin the invariant holds as well: a job dropped at its
first alarm still lives, and `Consistent` does not promise that it is queued.

Only model-checked:

- liveness: fairness and ENABLED are beyond the prover;
- `FilesKept` and `ShortestFirstIsBest`, which compare what folds over sequences
  compute: induction over data cannot be instantiated by the installed provers,
  and where a smallest counterexample does instead, as for the list of mini_valgrind,
  every such fold needs the argument anew;
- `IsSequence`, which needs powers of two: the provers leave them uninterpreted;
- the runs that expect a violation, naturally.

## Where the code and its documents disagree

Four runs exhibit a disagreement; `PROJECT.json` quotes both sides under
"findings", and TLC prints a behaviour that can be followed line by line.

- `cracker1_overflow`: main pushes every task before it creates a worker, so an
  input with more tasks and sentinels than the queue holds blocks it for ever.
- `parmake_failure`: a dependency that fails after `checkdep` and before `run`
  has looked at it goes unnoticed, and so does a failure before the last
  dependency `run` waits for (`parmake.c:100`, `107`).
- `scheduler_rr`: under round robin `remain_time` becomes the time since
  `start_time`, which has just been set at a job's first alarm; it is 0, the job
  is not offered again, and it never finishes (`libscheduler.c:155-171`).

- `memory_leak`: `remove_swap_file` forms a name without the ".bin" that
  `write_page_to_disk` writes to, so that the file outlives its process, and a
  process added later whose page table gets the same frame reads it from disk
  (`kernel.c:72-76`, `95-114`, `mmu.c:246`), although "an os does not want
  processes reading other processes' pages" (`kernel.c:38-39`).

Others were met while reading and are not spent a run on:

- `queue_pull` never frees the node it removes (`queue.c:106`); `queue.h:76`
  says that `queue_destroy` deallocates all the storage.
- A barrier of one never reopens: the caller is the last to arrive and nobody is
  left to set `times_used` back (`barrier.c:32`).
- `working` is set by the first job and never reset (`company.c:64`), so that a
  deadlock after it is not reported (`simulator.c:77`).
- With one intern left and right are the same mutex, and the arbitrated company
  waits for itself.
- A subrange of 2^31 candidates or more is cut short by the cast in
  `cracker2.c:178`, and `hash_count` wraps when all subranges together reach it
  (`cracker2.c:24`, `222`); `Cracker2` models both.
- `iscycle` returns at the first goal that depends on a cycle, and the goals
  after it are not built (`parmake.c:53`, `test_makefiles/testfile8:18-20`).
- `currtime()` "gets the current time (wall time)", but divides nanoseconds by
  10^10 instead of 10^9 (`gthreads.c:41`, `49`): within a second time goes ten times
  too slowly, and the averages are wrong by that.
- Chat: a thread closes its descriptor before it clears its slot
  (`charming_chatroom/server.c:208`). Accepted again meanwhile, the descriptor
  is in two slots and its client is sent every message twice. Nothing ignores
  SIGPIPE, so that a write to a client that has gone can end the server.
- File server: what comes in a later read than a size of 0 is taken for a size
  again, and when it is shorter than one it is not counted, so that the PUT is
  answered OK although too much data came (`server.c:485-496`; `format.h:58-63`
  provides the message for it); when `strchr` finds no newline in it, line 487
  reads through NULL. `judge_data_size` casts both sizes to `int`, so that a size of
  2^32 and no body are equal (`258-260`). A PUT whose file cannot be opened goes on,
  and when nothing more comes its name is answered OK and listed, without a file
  (`285-287`, `499-516`).
  A PUT that overlaps a DELETE of the same name leaves a name without
  a file; a name that is put again makes `file_len` count it twice; a connection
  that ends inside its header is never closed; `cleanupvecc` unlinks listed
  files only.
- Virtual memory: a page that is read first stays
  read-only; `find_segment` accepts the end of a segment.
- Heap: after a merge to the left the footer of the merged block is not the one
  `free` reads, so that a later `free` may take user data for a size
  (`alloc.c:259`); the size of a split's remainder wraps when it is smaller than
  its own header (`alloc.c:132`); `1/3*size` in the split condition is 0.
  `BlocksKept` holds until a remainder wraps (`wrapped`), and promises the words
  of the blocks whose footer is their own (`Whole`).

- File system: the loops of `minixfs_write` and `minixfs_read` compare what is
  left with a whole block, so that a short access across a boundary goes on in
  the block that is physically next, whoever owns it (`minixfs.c:247`, `349`); a
  block number above 127 is read as a negative char (`267`, `376`); the entries of
  an indirect block behind the eleventh are never set
  (`minixfs_provided.c:76`); a second file in a directory is written through
  `direct[16]`, which lies behind the inode (`minixfs.c:180-192`); the last piece
  of a read is added to `completed` after it has been set to 0, so that a read of
  a small file returns 0 where `minixfs.h:299` asks for "the right number of
  bytes" (`361-362`); chmod takes the type away from a file (`56`).
- mini_valgrind: after a move by `realloc` the list still leads to the old
  address, and a failed `realloc` is written through before it is tested
  (`mini_valgrind.c:95-99`).
- Vector: `erase` destroys the last element and then copies it, unless it is the
  one erased; a resize upwards within the capacity constructs nothing, and one
  downwards leaves pointers to destroyed elements behind (`vector.c:146-160`,
  `276`).

`MiniFS`, `MiniValgrind` and `Vector` compute when such a call is made and end
there; their properties are stated up to it, since behind it anything may be
overwritten.

## Not modelled, and why

Output, formatting, terminal control, timing and CPU-time statistics; the
commands a makefile runs and the ages of files (choices); `crypt_r` (a known
outcome); a failing `malloc`, `pthread_create` or lock call; the order in which
main creates and joins workers, on which nothing depends. An unlocked `int` or
pointer read is one step, as on the platforms the Makefiles build for; the
unlocked set of parmake may lose an insertion, other damage to it is undefined
behaviour that is not explored.

Of the scheduler: time below a whole quantum, jobs created after the timer has
started, priorities other than 1. Of the chat server: a message
that arrives in pieces, a failing `accept`. Of the file server: names longer
than their buffer, the wording of errors, a `read` that fails, a `write` to an open
file that fails, the limit of 4096 bytes on what one read takes. Of the virtual memory: segments beyond
the first 4 MB, offsets inside a page, permissions beyond what decides whether a
page may be written. Of the heap: a failing `sbrk`, alignment.

Of the pipeline: a mapper or reducer that fails in the middle, more mappers than
the array of pipes holds. Of the file system: directories in directories, modes,
owners and times, readdir, the hooks of `fakefs`. Of mini_valgrind: the hooks and
the printing of the report. Of the vector: `vector_destroy`, calls that only
read, and pops from an empty vector.

The remaining programs (`teaching_threads`, `shell`, `text_editor`, `rpc`,
`extreme_edge_cases` and the small utilities) have no models. They are
sequential, or leave all interaction to the kernel, and the repository's own
tests reach most of their behaviour; what they would gain is listed in the plan.
A large part of the repository's lines is vendored headers of library binaries
(`includes/dictionary.h`, `vector.h`, ...), tables and tests, which no model
stands for.

## Plan

1. `ParReduce` for the chunk arithmetic of `teaching_threads`; `Shell` for children
   and signals.
2. Directories in `MiniFS`; messages in pieces in `ChatServer`.

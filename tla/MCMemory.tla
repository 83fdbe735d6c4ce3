------------------------------ MODULE MCMemory ------------------------------
(* The three programs that keep memory, under names of their own: for TLC   *)
(* beside other programs, and for the proofs about them.                    *)
EXTENDS FiniteSets, Integers

CONSTANTS Pids, Values, NUM_PHYSICAL_PAGES, MAX_NODES, MaxCalls,     \* VirtualMemory
          HeapSize, Sizes, SplitSizes, WORD, MaxHeapCalls,           \* Heap
          Addresses, RequestSizes, MaxRequests                       \* MiniValgrind
VARIABLES tables, memory, tlb, curr_pid, calls, expected, inherited,
          heap, held, wrapped, heap_calls,
          head, meta_data, total_memory_requested, total_memory_freed, invalid_addresses,
          owned, errors, moved, requests

VM == INSTANCE VirtualMemory
Malloc == INSTANCE Heap WITH calls <- heap_calls, MaxCalls <- MaxHeapCalls
Leaks == INSTANCE MiniValgrind

\* Two frames for every process and one more, two nodes in the TLB; and a value
\* is no mark of a missing swap file.
ASSUME MemoryOK == /\ IsFiniteSet(Pids)
                   /\ NUM_PHYSICAL_PAGES \in Nat
                   /\ NUM_PHYSICAL_PAGES > 2 * Cardinality(Pids)
                   /\ MAX_NODES \in Nat /\ MAX_NODES >= 2
                   /\ VM!NoFile \notin Values
\* A size_t counts the units of the heap.
ASSUME HeapOK == /\ HeapSize \in Nat /\ WORD \in Nat /\ WORD > HeapSize
                 /\ Sizes \subseteq Nat
ASSUME LeaksOK == Leaks!MiniValgrindAssumption

vmVars == <<tables, memory, tlb, curr_pid, calls, expected, inherited>>
heapVars == <<heap, held, wrapped, heap_calls>>
leakVars == <<head, meta_data, total_memory_requested, total_memory_freed, invalid_addresses,
              owned, errors, moved, requests>>

---------------------------------------------------------------------------
(* Properties, stated in the module of each program.                       *)

\* mmu.c, kernel.c: a process finds what it wrote, in frames with one owner.
MemoryKept == VM!MemoryKept
\* alloc.c: blocks share no unit and keep their content.
BlocksKept == Malloc!BlocksKept
\* mini_valgrind.c: list and counters are exact while no block has moved.
ReportExact == Leaks!ReportExact
=============================================================================

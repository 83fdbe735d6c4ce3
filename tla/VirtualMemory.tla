--------------------------- MODULE VirtualMemory ---------------------------
(* ideal_indirection: mmu.c, tlb.c and the frames and swap files of kernel.c *)
(* for the first 4 MB of every process, whose page table mmu_add_process     *)
(* reserves.  kernel.c:23-32 gives up on the page tables it would page out,  *)
(* so the other segments are left out.  A page is one value; an entry is     *)
(* known by its address, <<frame of its table, page>>, as in the C.          *)
EXTENDS Integers, SequencesExt

CONSTANTS Pids, Values,
          NUM_PHYSICAL_PAGES,  \* more than two for every process
          MAX_NODES,           \* of the TLB, at least 2
          MaxCalls             \* bounds the calls of mmu.h

Frames == 1 .. NUM_PHYSICAL_PAGES
\* TESTING is pages 1 and 2, and the first byte of 3: its end counts (segments.c:42).
Pages == 1 .. 3
Entries == Frames \X Pages
NULL == <<0, 0>>   \* two addresses that no entry has
RESERVED == <<42, 0>>
NoFrame == 0
Zero == 0          \* what a zeroed page holds
NoFile == -1

VARIABLES tables,    \* tables[p]: the frames of p's directory and page table
          memory,    \* entry_mapping, entries, data of frames, swap files
          tlb,       \* <<page, entry>>, the last used first
          curr_pid,
          calls,     \* made so far
          expected,  \* history: what each page of each process should hold
          inherited  \* history: who found a swap file for its third page and has not
                     \* written to that page since

vmVars == <<tables, memory, tlb, curr_pid, calls, expected, inherited>>

NoTables == [directory |-> NoFrame, table |-> NoFrame]
NotPresent == [present |-> FALSE, base_addr |-> NoFrame, read_write |-> FALSE]
EmptyTLB == <<<<0, NULL>>>>     \* tlb_create: a node of page 0

Init == /\ tables = [p \in Pids |-> NoTables]
        /\ memory = [entry_mapping |-> [f \in Frames |-> NULL],
                     entries |-> [e \in Entries |-> NotPresent],
                     data |-> [f \in Frames |-> Zero],
                     swap |-> [e \in Entries |-> NoFile]]
        /\ tlb = EmptyTLB /\ curr_pid = 0 /\ calls = 0
        /\ expected = [p \in Pids |-> [n \in Pages |-> Zero]]
        /\ inherited = {}

---------------------------------------------------------------------------
(* kernel.c: memories m to memories.                                       *)

Put(m, e, pte) == [m EXCEPT !.entries[e] = pte]

\* Lines 35-42; every byte of the frame is zero, whatever it is used for.
Take(m, f, entry) ==
  [m EXCEPT !.entry_mapping[f] = IF entry = NULL THEN RESERVED ELSE entry,
            !.data[f] = Zero,
            !.entries = [e \in Entries |-> IF e[1] = f THEN NotPresent ELSE @[e]]]

\* Slip: the page is not written to its file.
EvictCold(m, f) ==
  LET evictee == m.entry_mapping[f]
  IN  [m EXCEPT !.entries[evictee].present = FALSE,
                !.entries[evictee].base_addr = NoFrame,
                !.entry_mapping[f] = NULL]

Evict(m, f) ==
  LET evictee == m.entry_mapping[f]
  IN  [m EXCEPT !.swap[evictee] = m.data[m.entries[evictee].base_addr],
                !.entries[evictee].present = FALSE,
                !.entries[evictee].base_addr = NoFrame,
                !.entry_mapping[f] = NULL]

\* The frame and the memory afterwards.
ask_kernel_for_frame(m, entry) ==
  LET free == {f \in Frames : m.entry_mapping[f] = NULL}
      victim == Min({f \in Frames : m.entry_mapping[f] \notin {RESERVED, entry}})
  IN  IF free # {} THEN [frame |-> Min(free), memory |-> Take(m, Min(free), entry)]
      ELSE [frame |-> victim, memory |-> Take(Evict(m, victim), victim, entry)]

---------------------------------------------------------------------------
(* tlb.c.                                                                  *)

tlb_find(t, page) == SelectInSeq(t, LAMBDA node : node[1] = page)
Promoted(t, i) == <<t[i]>> \o RemoveAt(t, i)

tlb_add_pte(t, page, entry) ==
  <<<<page, entry>>>> \o (IF Len(t) >= MAX_NODES THEN Front(t) ELSE t)

---------------------------------------------------------------------------
(* mmu.c.                                                                  *)

Switched(pid) == IF curr_pid = pid THEN tlb ELSE EmptyTLB

\* Lines 30-57 and 88-116: the entry of a page and the TLB afterwards.
Lookup(pid, page) ==
  LET t == Switched(pid)
      i == tlb_find(t, page)
      entry == <<tables[pid].table, page>>
  IN  IF i # 0 THEN [entry |-> t[i][2], tlb |-> Promoted(t, i)]
      ELSE [entry |-> entry, tlb |-> tlb_add_pte(t, page, entry)]

\* Lines 59-66 and 118-126: only a write makes the page writable.
FaultedIn(entry, writing) ==
  LET pte == memory.entries[entry]
      asked == ask_kernel_for_frame(memory, entry)
      m == Put(asked.memory, entry,
               [present |-> TRUE, base_addr |-> asked.frame,
                read_write |-> pte.read_write \/ writing])
  IN  IF pte.present THEN memory
      ELSE IF m.swap[entry] = NoFile THEN m
      ELSE [m EXCEPT !.data[asked.frame] = m.swap[entry]]

Alive(pid) == tables[pid] # NoTables

mmu_read_from_virtual_address(pid, page) ==
  /\ Alive(pid)
  /\ tlb' = Lookup(pid, page).tlb
  /\ curr_pid' = pid
  /\ memory' = FaultedIn(Lookup(pid, page).entry, FALSE)
  /\ UNCHANGED <<tables, expected, inherited>>

\* A page that a read brought in first stays read-only: a segmentation fault.
mmu_write_to_virtual_address(pid, page, value) ==
  LET entry == Lookup(pid, page).entry
      m == FaultedIn(entry, TRUE)
  IN  /\ Alive(pid)
      /\ tlb' = Lookup(pid, page).tlb
      /\ curr_pid' = pid
      /\ IF m.entries[entry].read_write
         THEN /\ memory' = [m EXCEPT !.data[m.entries[entry].base_addr] = value]
              /\ expected' = [expected EXCEPT ![pid][page] = value]
              /\ inherited' = inherited \ {p \in {pid} : page = 3}
         ELSE memory' = m /\ UNCHANGED <<expected, inherited>>
      /\ UNCHANGED tables

\* Directory, page table, and two pages of TESTING, all zero.  The third page is
\* not mapped yet: the entry at its address may have kept a file of a process
\* that was removed.
mmu_add_process(pid) ==
  LET directory == ask_kernel_for_frame(memory, NULL)
      table == ask_kernel_for_frame(directory.memory, NULL)
      Mapped(m, page) ==
        LET entry == <<table.frame, page>>
            asked == ask_kernel_for_frame(m, entry)
        IN  Put(asked.memory, entry,
                [present |-> TRUE, base_addr |-> asked.frame, read_write |-> TRUE])
  IN  /\ ~Alive(pid)
      /\ tables' = [tables EXCEPT ![pid] = [directory |-> directory.frame, table |-> table.frame]]
      /\ memory' = Mapped(Mapped(table.memory, 1), 2)
      /\ expected' = [expected EXCEPT ![pid] = [n \in Pages |-> Zero]]
      /\ inherited' = IF memory'.swap[<<table.frame, 3>>] = NoFile THEN inherited \ {pid}
                      ELSE inherited \cup {pid}
      /\ UNCHANGED <<tlb, curr_pid>>

PageFrames(pid) == {memory.entries[<<tables[pid].table, n>>].base_addr :
                      n \in {n \in Pages : memory.entries[<<tables[pid].table, n>>].present}}

\* remove_swap_file removes a name without the ".bin" of the files: none.
mmu_remove_process(pid) ==
  /\ Alive(pid)
  /\ memory' = [memory EXCEPT !.entry_mapping =
                  [f \in Frames |-> IF f \in PageFrames(pid) \cup {tables[pid].directory, tables[pid].table}
                                    THEN NULL ELSE @[f]]]
  /\ tables' = [tables EXCEPT ![pid] = NoTables]
  /\ tlb' = IF curr_pid = pid THEN EmptyTLB ELSE tlb
  /\ expected' = [expected EXCEPT ![pid] = [n \in Pages |-> Zero]]
  /\ inherited' = inherited \ {pid}
  /\ UNCHANGED curr_pid

Next == /\ calls < MaxCalls /\ calls' = calls + 1
        /\ \E pid \in Pids :
          \/ mmu_add_process(pid) \/ mmu_remove_process(pid)
          \/ \E page \in Pages :
               \/ mmu_read_from_virtual_address(pid, page)
               \/ \E value \in Values : mmu_write_to_virtual_address(pid, page, value)

Spec == Init /\ [][Next]_vmVars

---------------------------------------------------------------------------
(* Properties.                                                             *)

\* What a read of the page would find.
Found(pid, page) == LET entry == Lookup(pid, page).entry
                        m == FaultedIn(entry, FALSE)
                    IN  m.data[m.entries[entry].base_addr]

Inherited(pid, page) == page = 3 /\ pid \in inherited

\* mmu.c:19-140, kernel.c:33-64, tlb.c:12-82: whatever was evicted, switched or
\* removed since, a read would find what its process last wrote to the page, or
\* zero; but for a third page that came with a file (NothingInherited).
ReadsBackWrites ==
  \A pid \in Pids : Alive(pid) => \A page \in Pages :
    ~Inherited(pid, page) => Found(pid, page) = expected[pid][page]

\* kernel.c:38-39, "an os does not want processes reading other processes' pages":
\* a process finds zero in a page it has not written to.
NothingInherited == \A pid \in inherited : Found(pid, 3) = Zero

\* kernel.c:33-70, mmu.c:154-261: every frame in use is a directory or a table,
\* which are reserved, or the present page of the entry it is mapped to, all of
\* live processes; every node of the TLB but the first is of the current one.
FramesOwned ==
  LET Live == {p \in Pids : Alive(p)}
      Owned(p) == {tables[p].directory, tables[p].table} \cup PageFrames(p)
  IN  /\ \A p, q \in Live : p # q => Owned(p) \cap Owned(q) = {}
      /\ \A f \in Frames : memory.entry_mapping[f] # NULL =>
           LET e == memory.entry_mapping[f]
           IN  IF e = RESERVED THEN \E p \in Live : f \in {tables[p].directory, tables[p].table}
               ELSE memory.entries[e].base_addr = f /\ \E p \in Live : e[1] = tables[p].table
      /\ \A p \in Live : \A f \in Owned(p) : memory.entry_mapping[f] # NULL
      /\ \A i \in DOMAIN tlb : tlb[i] # EmptyTLB[1] =>
           curr_pid \in Live /\ tlb[i][2] = <<tables[curr_pid].table, tlb[i][1]>>
      /\ Len(tlb) <= MAX_NODES

\* Both: a process finds what it wrote, in frames of its own (mmu.c:19-261).
MemoryKept == ReadsBackWrites /\ FramesOwned
=============================================================================

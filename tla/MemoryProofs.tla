---------------------------- MODULE MemoryProofs ----------------------------
(* Proofs about the three programs that keep memory.  The virtual memory of  *)
(* ideal_indirection, for any number of processes, frames and nodes of the   *)
(* TLB: a process finds what it wrote.  The allocator of malloc/alloc.c, for *)
(* any heap and any sizes: blocks share no unit and keep their words, until  *)
(* a split wraps its remainder.  The list of mini_valgrind, for any addresses *)
(* and any sizes: it names what the program holds, until a block has moved.  *)
EXTENDS MCMemory, TLAPS, SequenceTheorems, FiniteSetTheorems

\* A non-empty set of numbers has a least one: the initial intervals they
\* bound are ordered by inclusion, which is well-founded on finite sets.
LEMMA LeastNumber ==
  ASSUME NEW T \in SUBSET Nat, T # {}
  PROVE  \E n \in T : \A m \in T : n <= m
<1> DEFINE U == {1 .. n : n \in T}
<1>1. IsWellFoundedOn(StrictSubsetOrdering(Nat), FiniteSubsetsOf(Nat))
  BY FS_StrictSubsetOrderingWellFounded
<1>2. U \subseteq FiniteSubsetsOf(Nat) /\ U # {}
  <2>1. \A n \in T : IsFiniteSet(1 .. n)
    <3>1. \A n \in T : n \in Int /\ 1 \in Int
      OBVIOUS
    <3> QED BY ONLY <3>1, FS_Interval
  <2>2. \A n \in T : 1 .. n \in SUBSET Nat
    OBVIOUS
  <2> QED BY <2>1, <2>2 DEF FiniteSubsetsOf
<1>3. PICK x \in U : \A y \in U : <<y, x>> \notin StrictSubsetOrdering(Nat)
  <2> HIDE DEF U
  <2> QED BY <1>1, <1>2, WFMin
<1>4. PICK n \in T : x = 1 .. n
  BY <1>3
<1>5. ASSUME NEW m \in T, m < n PROVE FALSE
  <2>1. 1 .. m \in SUBSET Nat /\ 1 .. n \in SUBSET Nat /\ 1 .. m \subseteq 1 .. n
    BY <1>5
  <2>2. n \in 1 .. n /\ n \notin 1 .. m
    BY <1>5
  <2>3. 1 .. m \in U
    OBVIOUS
  <2> QED BY <1>3, <1>4, <2>1, <2>2, <2>3 DEF StrictSubsetOrdering
<1> QED BY <1>5

---------------------------------------------------------------------------
(* The memory of ideal_indirection.                                        *)

\* What a page holds, what a frame may be mapped to, and an entry.
Words == Values \cup {VM!Zero}
Mappings == VM!Entries \cup {VM!NULL, VM!RESERVED}
PTE == [present : BOOLEAN, base_addr : VM!Frames \cup {VM!NoFrame}, read_write : BOOLEAN]
Memories == [entry_mapping : [VM!Frames -> Mappings], entries : [VM!Entries -> PTE],
             data : [VM!Frames -> Words], swap : [VM!Entries -> Words \cup {VM!NoFile}]]
Tables == [directory : VM!Frames \cup {VM!NoFrame}, table : VM!Frames \cup {VM!NoFrame}]
VMShape == /\ tables \in [Pids -> Tables]
           /\ memory \in Memories
           /\ expected \in [Pids -> [VM!Pages -> Words]]

\* Frames that hold a directory or a page table under the tables T, and those
\* that hold a page table.
Reserved(T) == {f \in VM!Frames : \E p \in Pids : f = T[p].directory \/ f = T[p].table}
Live(T) == {f \in VM!Frames : \E p \in Pids : f = T[p].table}

\* No frame is the directory or the page table of two processes, or both.
TablesOK(T) ==
  /\ \A p \in Pids : T[p] # VM!NoTables => /\ T[p].directory \in VM!Frames
                                        /\ T[p].table \in VM!Frames
                                        /\ T[p].directory # T[p].table
  /\ \A p, q \in Pids : p # q /\ T[p] # VM!NoTables /\ T[q] # VM!NoTables =>
       {T[p].directory, T[p].table} \cap {T[q].directory, T[q].table} = {}

\* entry_mapping and the entries of the tables in L agree: the frames in Z are
\* reserved, and every other frame in use holds the page of one entry.
FramesOK(m, Z, L) ==
  /\ \A f \in VM!Frames : m.entry_mapping[f] = VM!RESERVED <=> f \in Z
  /\ \A f \in VM!Frames : m.entry_mapping[f] \in VM!Entries =>
       LET e == m.entry_mapping[f]
       IN  e[1] \in L /\ m.entries[e].present /\ m.entries[e].base_addr = f
  /\ \A e \in VM!Entries : e[1] \in L /\ m.entries[e].present =>
       /\ m.entries[e].base_addr \in VM!Frames
       /\ m.entry_mapping[m.entries[e].base_addr] = e

\* What a read of the page of entry e would find.
Content(m, e) == IF m.entries[e].present THEN m.data[m.entries[e].base_addr]
                 ELSE IF m.swap[e] = VM!NoFile THEN VM!Zero ELSE m.swap[e]

---------------------------------------------------------------------------
(* Memory.                                                                 *)

LEMMA MinIn ==
  ASSUME NEW S \in SUBSET VM!Frames, S # {}
  PROVE  VM!Min(S) \in S
<1>1. S \in SUBSET Nat
  BY MemoryOK DEF VM!Frames
<1>2. \E n \in S : \A m \in S : n <= m
  BY <1>1, LeastNumber
<1> QED BY <1>2 DEF VM!Min

\* The addresses that stand for nothing are no entries.
LEMMA NoEntry == VM!NULL \notin VM!Entries /\ VM!RESERVED \notin VM!Entries /\ VM!NULL # VM!RESERVED
BY DEF VM!NULL, VM!RESERVED, VM!Entries, VM!Pages, VM!Frames

\* The frame that is taken is not reserved, and not mapped to the entry that is
\* asked for.
LEMMA AskedFrame ==
  ASSUME NEW m \in Memories, NEW entry \in VM!Entries \cup {VM!NULL}, NEW Z, NEW L,
         FramesOK(m, Z, L), VM!Frames \ Z # {},
         entry \in VM!Entries => ~m.entries[entry].present
  PROVE  LET f == VM!ask_kernel_for_frame(m, entry).frame
         IN  /\ f \in VM!Frames \ Z
             /\ m.entry_mapping[f] \in VM!Entries \cup {VM!NULL}
             /\ m.entry_mapping[f] \in VM!Entries => m.entry_mapping[f] # entry
             /\ VM!ask_kernel_for_frame(m, entry).memory =
                  VM!Take(IF m.entry_mapping[f] = VM!NULL THEN m ELSE VM!Evict(m, f), f, entry)
<1> DEFINE free == {f \in VM!Frames : m.entry_mapping[f] = VM!NULL}
           victims == {f \in VM!Frames : m.entry_mapping[f] \notin {VM!RESERVED, entry}}
<1>1. \A f \in VM!Frames : m.entry_mapping[f] \in Mappings
  BY DEF Memories
<1>2. CASE free # {}
  <2>1. VM!Min(free) \in free
    BY <1>2, MinIn
  <2>2. VM!ask_kernel_for_frame(m, entry) =
          [frame |-> VM!Min(free), memory |-> VM!Take(m, VM!Min(free), entry)]
    BY <1>2 DEF VM!ask_kernel_for_frame
  <2>3. VM!Min(free) \in VM!Frames \ Z /\ m.entry_mapping[VM!Min(free)] = VM!NULL
    BY <2>1, NoEntry DEF FramesOK
  <2> HIDE DEF free
  <2> QED BY <2>2, <2>3, NoEntry
<1>3. CASE free = {}
  <2>1. \A f \in VM!Frames \ Z : m.entry_mapping[f] \in VM!Entries /\ m.entry_mapping[f] # entry
    BY <1>1, <1>3 DEF FramesOK, Mappings
  <2>2. victims # {}
    BY <2>1, NoEntry
  <2>3. VM!Min(victims) \in victims
    BY <2>2, MinIn
  <2>4. VM!ask_kernel_for_frame(m, entry) =
          [frame |-> VM!Min(victims),
           memory |-> VM!Take(VM!Evict(m, VM!Min(victims)), VM!Min(victims), entry)]
    BY <1>3 DEF VM!ask_kernel_for_frame
  <2>5. VM!Min(victims) \in VM!Frames \ Z
    BY <2>3 DEF FramesOK
  <2>6. m.entry_mapping[VM!Min(victims)] \in VM!Entries /\ m.entry_mapping[VM!Min(victims)] # entry
    BY <2>1, <2>5
  <2> HIDE DEF victims
  <2> QED BY <2>4, <2>5, <2>6, NoEntry
<1> QED BY <1>2, <1>3

\* What becomes of a memory when frame f is taken.
Taken(m, f, entry, n) ==
  /\ n \in Memories
  /\ n.entry_mapping = [m.entry_mapping EXCEPT ![f] = IF entry = VM!NULL THEN VM!RESERVED ELSE entry]
  /\ n.data = [m.data EXCEPT ![f] = VM!Zero]
  /\ n.entries = [e \in VM!Entries |-> IF e[1] = f THEN VM!NotPresent ELSE m.entries[e]]
  /\ n.swap = m.swap

LEMMA TakeEffect ==
  ASSUME NEW m \in Memories, NEW entry \in VM!Entries \cup {VM!NULL}, NEW f \in VM!Frames
  PROVE  Taken(m, f, entry, VM!Take(m, f, entry))
<1> DEFINE n == VM!Take(m, f, entry)
<1>1. n.entry_mapping = [m.entry_mapping EXCEPT ![f] = IF entry = VM!NULL THEN VM!RESERVED ELSE entry]
  BY DEF VM!Take, Memories
<1>2. n.data = [m.data EXCEPT ![f] = VM!Zero]
  BY DEF VM!Take, Memories
<1>3. n.entries = [e \in VM!Entries |-> IF e[1] = f THEN VM!NotPresent ELSE m.entries[e]]
  BY DEF VM!Take, Memories
<1>4. n.swap = m.swap
  BY DEF VM!Take, Memories
<1>5. n \in Memories
  <2>1. PICK x : x = [m.entry_mapping EXCEPT ![f] = IF entry = VM!NULL THEN VM!RESERVED ELSE entry]
    OBVIOUS
  <2>2. PICK y : y = [m.data EXCEPT ![f] = VM!Zero]
    OBVIOUS
  <2>3. PICK z : z = [e \in VM!Entries |-> IF e[1] = f THEN VM!NotPresent ELSE m.entries[e]]
    OBVIOUS
  <2>4. x \in [VM!Frames -> Mappings] /\ y \in [VM!Frames -> Words] /\ z \in [VM!Entries -> PTE]
    BY <2>1, <2>2, <2>3 DEF Memories, PTE, VM!NotPresent, Words, Mappings
  <2>5. PICK a : a = [m EXCEPT !.entry_mapping = x]
    OBVIOUS
  <2>6. a \in Memories /\ a.data = m.data /\ a.entries = m.entries
    BY <2>4, <2>5 DEF Memories
  <2>7. PICK b : b = [a EXCEPT !.data = y]
    OBVIOUS
  <2>8. b \in Memories /\ b.entries = m.entries
    BY <2>4, <2>6, <2>7 DEF Memories
  <2>9. n = [[a EXCEPT !.data = [a.data EXCEPT ![f] = VM!Zero]] EXCEPT !.entries = z]
    BY <2>1, <2>3, <2>5 DEF VM!Take
  <2>10. n = [b EXCEPT !.entries = z]
    BY <2>2, <2>6, <2>7, <2>9
  <2>11. PICK c : c = [b EXCEPT !.entries = z]
    OBVIOUS
  <2>12. c \in Memories
    BY <2>4, <2>8, <2>11 DEF Memories
  <2> HIDE DEF n
  <2> QED BY <2>10, <2>11, <2>12
<1> HIDE DEF n
<1>6. Taken(m, f, entry, n)
  BY <1>1, <1>2, <1>3, <1>4, <1>5 DEF Taken
<1> QED BY <1>6 DEF n

LEMMA EvictEffect ==
  ASSUME NEW m \in Memories, NEW f \in VM!Frames, NEW v \in VM!Entries, m.entry_mapping[f] = v,
         m.entries[v].base_addr = f
  PROVE  LET n == VM!Evict(m, f)
         IN  /\ n \in Memories
             /\ n.entry_mapping = [m.entry_mapping EXCEPT ![f] = VM!NULL]
             /\ n.data = m.data
             /\ \A e \in VM!Entries : e # v => n.entries[e] = m.entries[e]
             /\ ~n.entries[v].present
             /\ n.swap = [m.swap EXCEPT ![v] = m.data[f]]
<1> DEFINE n == VM!Evict(m, f)
<1>1. n.entry_mapping = [m.entry_mapping EXCEPT ![f] = VM!NULL]
  BY DEF VM!Evict, Memories
<1>2. n.data = m.data
  BY DEF VM!Evict, Memories
<1>4. n.swap = [m.swap EXCEPT ![v] = m.data[f]]
  BY DEF VM!Evict, Memories
<1>3. n.entries = [m.entries EXCEPT ![v] = [m.entries[v] EXCEPT !.present = FALSE, !.base_addr = VM!NoFrame]]
  BY DEF VM!Evict, Memories
<1>5. n \in Memories
  <2>1. PICK x : x = [m.swap EXCEPT ![v] = m.data[f]]
    OBVIOUS
  <2>2. PICK y : y = [m.entries EXCEPT ![v].present = FALSE]
    OBVIOUS
  <2>3. PICK z : z = [y EXCEPT ![v].base_addr = VM!NoFrame]
    OBVIOUS
  <2>4. PICK w : w = [m.entry_mapping EXCEPT ![f] = VM!NULL]
    OBVIOUS
  <2>5. x \in [VM!Entries -> Words \cup {VM!NoFile}] /\ w \in [VM!Frames -> Mappings]
    BY <2>1, <2>4 DEF Memories, Mappings
  <2>6. y \in [VM!Entries -> PTE]
    <3>1. PICK p : p = [m.entries[v] EXCEPT !.present = FALSE]
      OBVIOUS
    <3>2. p \in PTE
      <4>1. m.entries[v] \in PTE
        BY DEF Memories
      <4> QED BY <3>1, <4>1 DEF PTE
    <3>3. y = [m.entries EXCEPT ![v] = p]
      BY <2>2, <3>1
    <3> QED BY <3>2, <3>3 DEF Memories
  <2>7. z \in [VM!Entries -> PTE]
    <3>1. PICK p : p = [y[v] EXCEPT !.base_addr = VM!NoFrame]
      OBVIOUS
    <3>2. p \in PTE
      BY <2>6, <3>1 DEF PTE
    <3>3. z = [y EXCEPT ![v] = p]
      BY <2>3, <3>1
    <3> QED BY <2>6, <3>2, <3>3
  <2>8. PICK a : a = [m EXCEPT !.swap = x]
    OBVIOUS
  <2>9. a \in Memories /\ a.entries = m.entries /\ a.entry_mapping = m.entry_mapping
    BY <2>5, <2>8 DEF Memories
  <2>10. PICK b : b = [a EXCEPT !.entries = y]
    OBVIOUS
  <2>11. b \in Memories /\ b.entries = y /\ b.entry_mapping = m.entry_mapping
    BY <2>6, <2>9, <2>10 DEF Memories
  <2>12. PICK c : c = [b EXCEPT !.entries = z]
    OBVIOUS
  <2>13. c \in Memories /\ c.entry_mapping = m.entry_mapping
    BY <2>7, <2>11, <2>12 DEF Memories
  <2>14. PICK d : d = [c EXCEPT !.entry_mapping = w]
    OBVIOUS
  <2>15. d \in Memories
    BY <2>5, <2>13, <2>14 DEF Memories
  <2>16. n = [[[a EXCEPT !.entries = [a.entries EXCEPT ![v].present = FALSE]]
                  EXCEPT !.entries[v].base_addr = VM!NoFrame]
                EXCEPT !.entry_mapping[f] = VM!NULL]
    BY <2>1, <2>8 DEF VM!Evict
  <2>17. n = [[b EXCEPT !.entries = [b.entries EXCEPT ![v].base_addr = VM!NoFrame]]
                EXCEPT !.entry_mapping[f] = VM!NULL]
    BY <2>2, <2>9, <2>10, <2>16
  <2>18. n = [c EXCEPT !.entry_mapping = [c.entry_mapping EXCEPT ![f] = VM!NULL]]
    BY <2>3, <2>11, <2>12, <2>17
  <2>19. n = d
    BY <2>4, <2>13, <2>14, <2>18
  <2> QED BY <2>15, <2>19
<1> HIDE DEF n
<1>6. \A e \in VM!Entries : e # v => n.entries[e] = m.entries[e]
  BY <1>3 DEF Memories
<1>7. ~n.entries[v].present
  <2>1. PICK p : p = [m.entries[v] EXCEPT !.present = FALSE, !.base_addr = VM!NoFrame]
    OBVIOUS
  <2>2. m.entries[v] \in PTE
    BY DEF Memories
  <2>3. ~p.present
    BY <2>1, <2>2 DEF PTE
  <2> QED BY <1>3, <2>1, <2>3 DEF Memories
<1>8. /\ n \in Memories
      /\ n.entry_mapping = [m.entry_mapping EXCEPT ![f] = VM!NULL]
      /\ n.data = m.data
      /\ \A e \in VM!Entries : e # v => n.entries[e] = m.entries[e]
      /\ ~n.entries[v].present
      /\ n.swap = [m.swap EXCEPT ![v] = m.data[f]]
  BY <1>1, <1>2, <1>4, <1>5, <1>6, <1>7
<1> QED BY <1>8 DEF n

\* What is left when the page of frame f, if it holds one, has been paged out.
Vacated(m, f) == IF m.entry_mapping[f] = VM!NULL THEN m ELSE VM!Evict(m, f)

LEMMA VacatedEffect ==
  ASSUME NEW m \in Memories, NEW Z, NEW L, FramesOK(m, Z, L), NEW f \in VM!Frames \ Z,
         NEW v, v = m.entry_mapping[f], v \in VM!Entries \cup {VM!NULL},
         NEW b, b = Vacated(m, f)
  PROVE  /\ b \in Memories /\ b.data = m.data
         /\ \A g \in VM!Frames : g # f => b.entry_mapping[g] = m.entry_mapping[g]
         /\ \A e \in VM!Entries : e # v => b.entries[e] = m.entries[e] /\ b.swap[e] = m.swap[e]
         /\ v \in VM!Entries => ~b.entries[v].present /\ b.swap[v] = m.data[f]
<1>1. CASE v = VM!NULL
  BY <1>1, NoEntry DEF Vacated
<1>2. CASE v # VM!NULL
  <2>1. v \in VM!Entries /\ m.entries[v].base_addr = f
    BY <1>2 DEF FramesOK
  <2>2. b = VM!Evict(m, f)
    BY <1>2 DEF Vacated
  <2>3. /\ b \in Memories
        /\ b.entry_mapping = [m.entry_mapping EXCEPT ![f] = VM!NULL]
        /\ b.data = m.data
        /\ \A e \in VM!Entries : e # v => b.entries[e] = m.entries[e]
        /\ ~b.entries[v].present
        /\ b.swap = [m.swap EXCEPT ![v] = m.data[f]]
    BY <2>1, <2>2, EvictEffect
  <2> QED BY <2>1, <2>3 DEF Memories
<1> QED BY <1>1, <1>2

\* ask_kernel_for_frame: the frame is nobody's directory or page table, and is
\* cleared; no page changes its content, though one may have been paged out.
AskedOK(m, entry, L, f, n) ==
  /\ n \in Memories
  /\ n.entry_mapping = [m.entry_mapping EXCEPT ![f] = IF entry = VM!NULL THEN VM!RESERVED ELSE entry]
  /\ n.data[f] = VM!Zero
  /\ \A e \in VM!Entries : e[1] = f => ~n.entries[e].present
  /\ \A e \in VM!Entries : e[1] \in L /\ n.entries[e].present =>
       /\ m.entries[e].present /\ n.entries[e] = m.entries[e]
       /\ m.entries[e].base_addr # f
  /\ \A g \in VM!Frames : g # f /\ m.entry_mapping[g] \in VM!Entries =>
       n.entries[m.entry_mapping[g]] = m.entries[m.entry_mapping[g]]
  /\ \A e \in VM!Entries : e[1] \in L => Content(n, e) = Content(m, e)
  /\ entry \in VM!Entries => n.entries[entry] = m.entries[entry] /\ n.swap[entry] = m.swap[entry]

LEMMA AskEffect ==
  ASSUME NEW m \in Memories, NEW entry \in VM!Entries \cup {VM!NULL}, NEW Z, NEW L,
         FramesOK(m, Z, L), L \subseteq Z, VM!Frames \ Z # {},
         entry \in VM!Entries => entry[1] \in L /\ ~m.entries[entry].present,
         NEW f, f = VM!ask_kernel_for_frame(m, entry).frame,
         NEW n, n = VM!ask_kernel_for_frame(m, entry).memory
  PROVE  f \in VM!Frames \ Z /\ AskedOK(m, entry, L, f, n)
<1>1. PICK v : v = m.entry_mapping[f]
  OBVIOUS
<1>2. PICK b : b = Vacated(m, f)
  OBVIOUS
<1>3. /\ f \in VM!Frames \ Z /\ v \in VM!Entries \cup {VM!NULL}
      /\ v \in VM!Entries => v # entry
      /\ n = VM!Take(b, f, entry)
  BY <1>1, <1>2, AskedFrame DEF Vacated
<1>4. /\ b \in Memories /\ b.data = m.data
      /\ \A g \in VM!Frames : g # f => b.entry_mapping[g] = m.entry_mapping[g]
      /\ \A e \in VM!Entries : e # v => b.entries[e] = m.entries[e] /\ b.swap[e] = m.swap[e]
      /\ v \in VM!Entries => ~b.entries[v].present /\ b.swap[v] = m.data[f]
  BY <1>1, <1>2, <1>3, VacatedEffect
<1>5. /\ n \in Memories
      /\ n.entry_mapping = [b.entry_mapping EXCEPT ![f] = IF entry = VM!NULL THEN VM!RESERVED ELSE entry]
      /\ n.data = [b.data EXCEPT ![f] = VM!Zero]
      /\ n.entries = [e \in VM!Entries |-> IF e[1] = f THEN VM!NotPresent ELSE b.entries[e]]
      /\ n.swap = b.swap
  <2>1. b \in Memories /\ f \in VM!Frames /\ entry \in VM!Entries \cup {VM!NULL}
    BY <1>3, <1>4
  <2>2. Taken(b, f, entry, VM!Take(b, f, entry))
    BY ONLY <2>1, TakeEffect
  <2>3. Taken(b, f, entry, n)
    BY ONLY <1>3, <2>2
  <2> QED BY ONLY <2>3 DEF Taken
<1>6. n.entry_mapping = [m.entry_mapping EXCEPT ![f] = IF entry = VM!NULL THEN VM!RESERVED ELSE entry]
  BY <1>3, <1>4, <1>5 DEF Memories
<1>7. n.data[f] = VM!Zero /\ \A g \in VM!Frames : g # f => n.data[g] = m.data[g]
  BY <1>3, <1>4, <1>5 DEF Memories
<1>8. \A e \in VM!Entries : e[1] = f => ~n.entries[e].present
  BY <1>5 DEF VM!NotPresent
<1>9. \A e \in VM!Entries : e[1] \in L => n.entries[e] = b.entries[e]
  BY <1>3, <1>5
<1>10. \A e \in VM!Entries : e[1] \in L /\ n.entries[e].present =>
         /\ m.entries[e].present /\ n.entries[e] = m.entries[e]
         /\ m.entries[e].base_addr # f
  <2> SUFFICES ASSUME NEW e \in VM!Entries, e[1] \in L, n.entries[e].present
               PROVE  /\ m.entries[e].present /\ n.entries[e] = m.entries[e]
                      /\ m.entries[e].base_addr # f
    OBVIOUS
  <2>1. e # v
    BY <1>4, <1>9
  <2>2. n.entries[e] = m.entries[e]
    BY <1>4, <1>9, <2>1
  <2>3. m.entry_mapping[m.entries[e].base_addr] = e
    BY <2>2 DEF FramesOK
  <2> QED BY <1>1, <2>1, <2>2, <2>3
<1>11. \A g \in VM!Frames : g # f /\ m.entry_mapping[g] \in VM!Entries =>
         n.entries[m.entry_mapping[g]] = m.entries[m.entry_mapping[g]]
  <2> SUFFICES ASSUME NEW g \in VM!Frames, g # f, m.entry_mapping[g] \in VM!Entries
               PROVE  n.entries[m.entry_mapping[g]] = m.entries[m.entry_mapping[g]]
    OBVIOUS
  <2>1. PICK e : e = m.entry_mapping[g]
    OBVIOUS
  <2>2. e \in VM!Entries /\ e[1] \in L /\ m.entries[e].base_addr = g
    BY <2>1 DEF FramesOK
  <2>3. e # v
    BY <1>1, <1>3, <2>1, <2>2 DEF FramesOK
  <2> QED BY <1>4, <1>9, <2>1, <2>2, <2>3
<1>12. \A e \in VM!Entries : e[1] \in L => Content(n, e) = Content(m, e)
  <2> SUFFICES ASSUME NEW e \in VM!Entries, e[1] \in L PROVE Content(n, e) = Content(m, e)
    OBVIOUS
  <2>1. CASE e = v
    <3>1. m.entries[e].present /\ m.entries[e].base_addr = f
      BY <1>1, <1>3, <2>1 DEF FramesOK
    <3>2. ~n.entries[e].present /\ n.swap[e] = m.data[f]
      BY <1>4, <1>5, <1>9, <2>1
    <3>3. m.data[f] \in Words
      BY <1>3 DEF Memories
    <3>4. m.data[f] # VM!NoFile
      BY <3>3, MemoryOK DEF Words, VM!NoFile, VM!Zero
    <3> QED BY <3>1, <3>2, <3>4 DEF Content
  <2>2. CASE e # v
    <3>1. n.entries[e] = m.entries[e] /\ n.swap[e] = m.swap[e]
      BY <1>4, <1>5, <1>9, <2>2
    <3>2. m.entries[e].present => m.entries[e].base_addr \in VM!Frames /\ m.entries[e].base_addr # f
      BY <1>10, <3>1 DEF FramesOK
    <3> QED BY <1>7, <3>1, <3>2 DEF Content
  <2> QED BY <2>1, <2>2
<1>13. entry \in VM!Entries => n.entries[entry] = m.entries[entry] /\ n.swap[entry] = m.swap[entry]
  BY <1>3, <1>4, <1>5, <1>9
<1>14. AskedOK(m, entry, L, f, n)
  BY <1>5, <1>6, <1>7, <1>8, <1>10, <1>11, <1>12, <1>13 DEF AskedOK
<1> QED BY <1>3, <1>14

\* A frame for a directory or a page table; a new page table has no entries.
LEMMA ReserveOK ==
  ASSUME NEW m \in Memories, NEW Z, NEW L, FramesOK(m, Z, L), NEW f \in VM!Frames \ Z,
         NEW n, AskedOK(m, VM!NULL, L, f, n)
  PROVE  FramesOK(n, Z \cup {f}, L) /\ FramesOK(n, Z \cup {f}, L \cup {f})
<1>1. n.entry_mapping = [m.entry_mapping EXCEPT ![f] = VM!RESERVED]
  BY DEF AskedOK
<1>2. /\ n.entry_mapping[f] = VM!RESERVED
      /\ \A g \in VM!Frames : g # f => n.entry_mapping[g] = m.entry_mapping[g]
  BY <1>1 DEF Memories
<1>3. \A g \in VM!Frames : n.entry_mapping[g] = VM!RESERVED <=> g \in Z \cup {f}
  BY <1>2 DEF FramesOK
<1>4. \A g \in VM!Frames : n.entry_mapping[g] \in VM!Entries =>
        LET e == n.entry_mapping[g]
        IN  e[1] \in L /\ n.entries[e].present /\ n.entries[e].base_addr = g
  BY <1>2, NoEntry DEF FramesOK, AskedOK
<1>5. \A e \in VM!Entries : e[1] \in L /\ n.entries[e].present =>
        /\ n.entries[e].base_addr \in VM!Frames
        /\ n.entry_mapping[n.entries[e].base_addr] = e
  BY <1>2 DEF FramesOK, AskedOK
<1>6. \A e \in VM!Entries : e[1] = f => ~n.entries[e].present
  BY DEF AskedOK
<1> QED BY <1>3, <1>4, <1>5, <1>6 DEF FramesOK

\* A frame for the page of an entry that has none.
LEMMA MapOK ==
  ASSUME NEW m \in Memories, NEW Z, NEW L, FramesOK(m, Z, L), L \subseteq Z,
         NEW f \in VM!Frames \ Z, NEW entry \in VM!Entries, entry[1] \in L, ~m.entries[entry].present,
         NEW n, AskedOK(m, entry, L, f, n),
         NEW pte \in PTE, pte.present, pte.base_addr = f,
         NEW o, o = VM!Put(n, entry, pte)
  PROVE  /\ o \in Memories /\ FramesOK(o, Z, L)
         /\ o.entries[entry] = pte /\ o.data = n.data /\ o.swap = n.swap
         /\ \A e \in VM!Entries : e # entry => o.entries[e] = n.entries[e]
         /\ \A e \in VM!Entries : e[1] \in L /\ e # entry => Content(o, e) = Content(m, e)
<1>1. /\ o \in Memories /\ o.entry_mapping = n.entry_mapping /\ o.data = n.data /\ o.swap = n.swap
      /\ o.entries = [n.entries EXCEPT ![entry] = pte]
  BY DEF VM!Put, Memories, AskedOK
<1>2. o.entries[entry] = pte /\ \A e \in VM!Entries : e # entry => o.entries[e] = n.entries[e]
  BY <1>1 DEF Memories, AskedOK
<1>3. o.entry_mapping[f] = entry /\ \A g \in VM!Frames : g # f => o.entry_mapping[g] = m.entry_mapping[g]
  BY <1>1, NoEntry DEF Memories, AskedOK
<1>4. \A g \in VM!Frames : g # f => m.entry_mapping[g] # entry
  BY DEF FramesOK
<1>5. \A g \in VM!Frames : o.entry_mapping[g] = VM!RESERVED <=> g \in Z
  BY <1>3, NoEntry DEF FramesOK
<1>6. \A g \in VM!Frames : o.entry_mapping[g] \in VM!Entries =>
        LET e == o.entry_mapping[g]
        IN  e[1] \in L /\ o.entries[e].present /\ o.entries[e].base_addr = g
  <2> SUFFICES ASSUME NEW g \in VM!Frames, NEW e \in VM!Entries, e = o.entry_mapping[g]
               PROVE  e[1] \in L /\ o.entries[e].present /\ o.entries[e].base_addr = g
    OBVIOUS
  <2>1. CASE g = f
    BY <1>2, <1>3, <2>1
  <2>2. CASE g # f
    <3>1. e = m.entry_mapping[g] /\ e # entry
      BY <1>3, <1>4, <2>2
    <3>2. o.entries[e] = m.entries[e]
      BY <1>2, <2>2, <3>1 DEF AskedOK
    <3> QED BY <3>1, <3>2 DEF FramesOK
  <2> QED BY <2>1, <2>2
<1>7. \A e \in VM!Entries : e[1] \in L /\ o.entries[e].present =>
        /\ o.entries[e].base_addr \in VM!Frames
        /\ o.entry_mapping[o.entries[e].base_addr] = e
  BY <1>2, <1>3 DEF FramesOK, AskedOK
<1>8. \A e \in VM!Entries : e[1] \in L /\ e # entry => Content(o, e) = Content(m, e)
  BY <1>1, <1>2 DEF Content, AskedOK
<1> QED BY <1>1, <1>2, <1>5, <1>6, <1>7, <1>8 DEF FramesOK

\* Two frames for every process leave one for a page.
LEMMA Spare ==
  ASSUME NEW T \in [Pids -> Tables]
  PROVE  VM!Frames \ Reserved(T) # {}
<1> DEFINE D == [p \in Pids |-> T[p].directory]
           E == [p \in Pids |-> T[p].table]
           both == VM!Range(D) \cup VM!Range(E)
<1>1. IsFiniteSet(VM!Range(D)) /\ Cardinality(VM!Range(D)) <= Cardinality(Pids)
  <2>1. D \in Surjection(Pids, VM!Range(D))
    BY DEF Surjection, VM!Range
  <2> HIDE DEF D
  <2> QED BY <2>1, FS_Surjection, MemoryOK
<1>2. IsFiniteSet(VM!Range(E)) /\ Cardinality(VM!Range(E)) <= Cardinality(Pids)
  <2>1. E \in Surjection(Pids, VM!Range(E))
    BY DEF Surjection, VM!Range
  <2> HIDE DEF E
  <2> QED BY <2>1, FS_Surjection, MemoryOK
<1>3. /\ Cardinality(Pids) \in Nat /\ Cardinality(VM!Range(D)) \in Nat /\ Cardinality(VM!Range(E)) \in Nat
      /\ Cardinality(VM!Range(D) \cap VM!Range(E)) \in Nat
  <2>1. IsFiniteSet(VM!Range(D) \cap VM!Range(E))
    BY <1>1, FS_Subset
  <2> HIDE DEF D, E
  <2> QED BY <1>1, <1>2, <2>1, FS_CardinalityType, MemoryOK
<1>4. IsFiniteSet(both) /\ Cardinality(both) <= 2 * Cardinality(Pids)
  <2>1. /\ IsFiniteSet(both)
        /\ Cardinality(both) = Cardinality(VM!Range(D)) + Cardinality(VM!Range(E))
                                 - Cardinality(VM!Range(D) \cap VM!Range(E))
    <3> HIDE DEF D, E
    <3> QED BY <1>1, <1>2, FS_Union
  <2> HIDE DEF D, E
  <2> QED BY <1>1, <1>2, <1>3, <2>1
<1>5. IsFiniteSet(VM!Frames) /\ Cardinality(VM!Frames) = NUM_PHYSICAL_PAGES
  BY FS_Interval, MemoryOK DEF VM!Frames
<1>6. ASSUME VM!Frames \ Reserved(T) = {} PROVE FALSE
  <2>1. VM!Frames \in SUBSET both
    BY <1>6 DEF Reserved, VM!Range
  <2>2. Cardinality(VM!Frames) <= Cardinality(both) /\ Cardinality(both) \in Nat
    <3> HIDE DEF both
    <3> QED BY <1>4, <2>1, FS_Subset, FS_CardinalityType
  <2> HIDE DEF both
  <2> QED BY <1>3, <1>4, <1>5, <2>2, MemoryOK
<1> QED BY <1>6

---------------------------------------------------------------------------
(* The TLB.                                                                *)

\* The nodes of a process whose page table is in this frame: the one every TLB is
\* made with, and the entries of its pages.
Nodes(frame) == {VM!EmptyTLB[1]} \cup {<<n, <<frame, n>>>> : n \in VM!Pages}
TLBOK(t, frame) == t \in Seq(Nodes(frame)) /\ Len(t) \in 1 .. MAX_NODES

LEMMA EmptyOK == \A frame : TLBOK(VM!EmptyTLB, frame)
<1>1. PICK node : node = <<0, VM!NULL>>
  OBVIOUS
<1>2. VM!EmptyTLB = <<node>>
  BY <1>1 DEF VM!EmptyTLB
<1>3. VM!EmptyTLB[1] = node
  BY <1>2
<1> QED BY <1>2, <1>3, MemoryOK DEF TLBOK, Nodes

\* tlb_get_pte finds an entry of the page that is asked for.
LEMMA FindOK ==
  ASSUME NEW frame, NEW t, TLBOK(t, frame), NEW page \in VM!Pages,
         NEW i, i = VM!tlb_find(t, page), i # 0
  PROVE  i \in 1 .. Len(t) /\ t[i] = <<page, <<frame, page>>>>
<1> DEFINE I == {k \in 1 .. Len(t) : t[k][1] = page}
<1>1. I # {} /\ i = VM!Min(I)
  BY DEF VM!tlb_find, VM!SelectInSeq
<1>2. I \in SUBSET Nat
  OBVIOUS
<1>3. \E n \in I : \A m \in I : n <= m
  <2> HIDE DEF I
  <2> QED BY <1>1, <1>2, LeastNumber
<1>4. i \in I
  <2> HIDE DEF I
  <2> QED BY <1>1, <1>3 DEF VM!Min
<1>5. i \in 1 .. Len(t) /\ t[i][1] = page
  BY <1>4
<1>6. t[i] \in Nodes(frame)
  BY <1>5, ElementOfSeq DEF TLBOK
<1>7. t[i] # VM!EmptyTLB[1]
  BY <1>5 DEF VM!EmptyTLB, VM!Pages
<1>8. PICK n \in VM!Pages : t[i] = <<n, <<frame, n>>>>
  BY <1>6, <1>7 DEF Nodes
<1> QED BY <1>5, <1>8

\* It moves to the front.
LEMMA PromotedOK ==
  ASSUME NEW frame, NEW t, TLBOK(t, frame), NEW i \in 1 .. Len(t)
  PROVE  TLBOK(VM!Promoted(t, i), frame)
<1> DEFINE left == SubSeq(t, 1, i - 1)
           right == SubSeq(t, i + 1, Len(t))
<1>1. t \in Seq(Nodes(frame)) /\ Len(t) \in Nat /\ i \in Int
  BY LenProperties DEF TLBOK
<1>2. left \in Seq(Nodes(frame)) /\ Len(left) = i - 1
  <2>1. 1 \in Int /\ i - 1 \in Int /\ \A k \in 1 .. i - 1 : t[k] \in Nodes(frame)
    BY <1>1, ElementOfSeq
  <2>2. left \in Seq(Nodes(frame)) /\ Len(left) = IF 1 <= i - 1 THEN i - 1 - 1 + 1 ELSE 0
    BY <1>1, <2>1, SubSeqProperties
  <2> HIDE DEF left
  <2> QED BY <1>1, <2>2
<1>3. right \in Seq(Nodes(frame)) /\ Len(right) = Len(t) - i
  <2>1. i + 1 \in Int /\ Len(t) \in Int /\ \A k \in i + 1 .. Len(t) : t[k] \in Nodes(frame)
    BY <1>1, ElementOfSeq
  <2>2. right \in Seq(Nodes(frame)) /\ Len(right) = IF i + 1 <= Len(t) THEN Len(t) - (i + 1) + 1 ELSE 0
    BY <1>1, <2>1, SubSeqProperties
  <2> HIDE DEF right
  <2> QED BY <1>1, <2>2
<1>4. left \o right \in Seq(Nodes(frame)) /\ Len(left \o right) = Len(left) + Len(right)
  <2> HIDE DEF left, right
  <2> QED BY <1>2, <1>3, ConcatProperties
<1>5. PICK rest : rest = left \o right
  OBVIOUS
<1>6. <<t[i]>> \in Seq(Nodes(frame)) /\ Len(<<t[i]>>) = 1
  BY <1>1, ElementOfSeq
<1>7. /\ <<t[i]>> \o rest \in Seq(Nodes(frame))
      /\ Len(<<t[i]>> \o rest) = Len(<<t[i]>>) + Len(rest)
  <2> HIDE DEF left, right
  <2> QED BY <1>4, <1>5, <1>6, ConcatProperties
<1>8. VM!Promoted(t, i) = <<t[i]>> \o rest
  BY <1>5 DEF VM!Promoted, VM!RemoveAt
<1>9. Len(<<t[i]>> \o rest) = Len(t)
  <2>1. Len(rest) = Len(left) + Len(right)
    BY <1>4, <1>5
  <2> HIDE DEF left, right
  <2>2. Len(rest) = Len(t) - 1
    BY <1>1, <1>2, <1>3, <2>1
  <2> QED BY <1>1, <1>6, <1>7, <2>2
<1> QED BY <1>7, <1>8, <1>9 DEF TLBOK

\* tlb_add_pte drops the last node of a TLB that is full.
LEMMA AddedOK ==
  ASSUME NEW frame, NEW t, TLBOK(t, frame), NEW page \in VM!Pages
  PROVE  TLBOK(VM!tlb_add_pte(t, page, <<frame, page>>), frame)
<1>1. PICK u : u = IF Len(t) >= MAX_NODES THEN VM!Front(t) ELSE t
  OBVIOUS
<1>2. u \in Seq(Nodes(frame)) /\ Len(u) < MAX_NODES /\ Len(u) \in Nat
  <2>1. CASE Len(t) >= MAX_NODES
    <3>1. t \in Seq(Nodes(frame)) /\ Len(t) \in Nat /\ Len(t) = MAX_NODES
      BY <2>1, LenProperties, MemoryOK DEF TLBOK
    <3>2. 1 \in Int /\ Len(t) - 1 \in Int /\ \A k \in 1 .. Len(t) - 1 : t[k] \in Nodes(frame)
      BY <3>1, ElementOfSeq
    <3>3. /\ VM!Front(t) \in Seq(Nodes(frame))
          /\ Len(VM!Front(t)) = IF 1 <= Len(t) - 1 THEN Len(t) - 1 - 1 + 1 ELSE 0
      BY <3>1, <3>2, SubSeqProperties DEF VM!Front
    <3> QED BY <1>1, <2>1, <3>1, <3>3, MemoryOK
  <2>2. CASE Len(t) < MAX_NODES
    BY <1>1, <2>2, LenProperties, MemoryOK DEF TLBOK
  <2> QED BY <2>1, <2>2, LenProperties, MemoryOK DEF TLBOK
<1>3. PICK node : node = <<page, <<frame, page>>>>
  OBVIOUS
<1>4. <<node>> \in Seq(Nodes(frame)) /\ Len(<<node>>) = 1
  BY <1>3 DEF Nodes
<1>5. <<node>> \o u \in Seq(Nodes(frame)) /\ Len(<<node>> \o u) = Len(<<node>>) + Len(u)
  BY <1>2, <1>4, ConcatProperties
<1>6. VM!tlb_add_pte(t, page, <<frame, page>>) =
        <<<<page, <<frame, page>>>>>> \o (IF Len(t) >= MAX_NODES THEN VM!Front(t) ELSE t)
  BY DEF VM!tlb_add_pte
<1>7. VM!tlb_add_pte(t, page, <<frame, page>>) = <<node>> \o u
  <2>1. CASE Len(t) >= MAX_NODES
    <3>1. VM!tlb_add_pte(t, page, <<frame, page>>) = <<<<page, <<frame, page>>>>>> \o VM!Front(t)
      BY ONLY <2>1, <1>6
    <3>2. u = VM!Front(t)
      BY <2>1, <1>1
    <3> QED BY ONLY <1>3, <3>1, <3>2
  <2>2. CASE ~(Len(t) >= MAX_NODES)
    <3>1. VM!tlb_add_pte(t, page, <<frame, page>>) = <<<<page, <<frame, page>>>>>> \o t
      BY ONLY <2>2, <1>6
    <3>2. u = t
      BY <2>2, <1>1
    <3> QED BY ONLY <1>3, <3>1, <3>2
  <2> QED BY <2>1, <2>2
<1>8. PICK w : w = <<node>> \o u
  OBVIOUS
<1>9. w \in Seq(Nodes(frame)) /\ Len(w) = Len(<<node>>) + Len(u)
  BY <1>5, <1>8
<1>10. Len(w) = 1 + Len(u) /\ MAX_NODES \in Nat
  BY <1>4, <1>9, MemoryOK
<1>11. TLBOK(w, frame)
  BY <1>2, <1>9, <1>10 DEF TLBOK
<1> QED BY ONLY <1>7, <1>8, <1>11

\* The TLB is that of the current process, if it is still there.
TLBInv == IF curr_pid \in Pids /\ VM!Alive(curr_pid) THEN TLBOK(tlb, tables[curr_pid].table)
          ELSE tlb = VM!EmptyTLB

\* A page is found by way of the TLB where it is found by way of the tables.
LEMMA LookupOK ==
  ASSUME TLBInv, NEW pid \in Pids, VM!Alive(pid), NEW page \in VM!Pages
  PROVE  /\ VM!Lookup(pid, page).entry = <<tables[pid].table, page>>
         /\ TLBOK(VM!Lookup(pid, page).tlb, tables[pid].table)
<1>1. PICK t : t = VM!Switched(pid)
  OBVIOUS
<1>2. PICK i : i = VM!tlb_find(t, page)
  OBVIOUS
<1>3. PICK frame : frame = tables[pid].table
  OBVIOUS
<1>4. TLBOK(t, frame)
  BY <1>1, <1>3, EmptyOK DEF VM!Switched, TLBInv
<1>5. VM!Lookup(pid, page) = IF i # 0 THEN [entry |-> t[i][2], tlb |-> VM!Promoted(t, i)]
                          ELSE [entry |-> <<frame, page>>, tlb |-> VM!tlb_add_pte(t, page, <<frame, page>>)]
  BY <1>1, <1>2, <1>3 DEF VM!Lookup
<1>6. CASE i # 0
  <2>1. i \in 1 .. Len(t) /\ t[i] = <<page, <<frame, page>>>>
    BY <1>2, <1>4, <1>6, FindOK
  <2>2. TLBOK(VM!Promoted(t, i), frame)
    BY <1>4, <2>1, PromotedOK
  <2> QED BY <1>3, <1>5, <1>6, <2>1, <2>2
<1>7. CASE i = 0
  <2>1. TLBOK(VM!tlb_add_pte(t, page, <<frame, page>>), frame)
    BY <1>4, AddedOK
  <2> QED BY <1>3, <1>5, <1>7, <2>1
<1> QED BY <1>6, <1>7

---------------------------------------------------------------------------
(* Reads and writes.                                                       *)

ContentOK == \A p \in Pids : VM!Alive(p) =>
  \A n \in VM!Pages : ~VM!Inherited(p, n) =>
    Content(memory, <<tables[p].table, n>>) = expected[p][n]

\* The inductive invariant.
VMInv == /\ VMShape
         /\ TablesOK(tables)
         /\ FramesOK(memory, Reserved(tables), Live(tables))
         /\ TLBInv
         /\ ContentOK

\* The page of entry e in frame f is overwritten.
StoredAt(m, f, w, o) == o = [m EXCEPT !.data[f] = w]
Overwritten(m, Z, L, entry, w, o) ==
  /\ o \in Memories /\ FramesOK(o, Z, L) /\ o.entries = m.entries
  /\ \A e \in VM!Entries : e[1] \in L =>
       Content(o, e) = IF e = entry THEN w ELSE Content(m, e)

LEMMA StoreEffect ==
  ASSUME NEW m \in Memories, NEW Z, NEW L, FramesOK(m, Z, L),
         NEW entry \in VM!Entries, entry[1] \in L, m.entries[entry].present,
         NEW f, f = m.entries[entry].base_addr, NEW w \in Words,
         NEW o, StoredAt(m, f, w, o)
  PROVE  Overwritten(m, Z, L, entry, w, o)
<1>1. f \in VM!Frames /\ m.entry_mapping[f] = entry
  BY DEF FramesOK
<1>2. PICK x : x = [m.data EXCEPT ![f] = w]
  OBVIOUS
<1>3. x \in [VM!Frames -> Words] /\ x[f] = w /\ \A g \in VM!Frames : g # f => x[g] = m.data[g]
  BY <1>1, <1>2 DEF Memories
<1>4. PICK c : c = [m EXCEPT !.data = x]
  OBVIOUS
<1>5. o = c
  BY <1>2, <1>4 DEF StoredAt
<1>6. /\ c \in Memories /\ c.entries = m.entries /\ c.entry_mapping = m.entry_mapping
      /\ c.swap = m.swap /\ c.data = x
  BY <1>3, <1>4 DEF Memories
<1>7. FramesOK(c, Z, L)
  BY <1>6 DEF FramesOK
<1>8. \A e \in VM!Entries : e[1] \in L => Content(c, e) = IF e = entry THEN w ELSE Content(m, e)
  <2> SUFFICES ASSUME NEW e \in VM!Entries, e[1] \in L
               PROVE  Content(c, e) = IF e = entry THEN w ELSE Content(m, e)
    OBVIOUS
  <2>1. CASE e = entry
    BY <1>3, <1>6, <2>1 DEF Content
  <2>2. CASE e # entry
    <3>1. m.entries[e].present => m.entries[e].base_addr \in VM!Frames /\ m.entries[e].base_addr # f
      BY <1>1, <2>2 DEF FramesOK
    <3> QED BY <1>3, <1>6, <2>2, <3>1 DEF Content
  <2> QED BY <2>1, <2>2
<1> QED BY <1>5, <1>6, <1>7, <1>8 DEF Overwritten

\* A page table is a reserved frame, and a page of it has an entry.
LEMMA LiveReserved == Live(tables) \subseteq Reserved(tables)
BY DEF Live, Reserved

LEMMA LiveEntry ==
  ASSUME TablesOK(tables), NEW pid \in Pids, VM!Alive(pid), NEW page \in VM!Pages
  PROVE  <<tables[pid].table, page>> \in VM!Entries /\ tables[pid].table \in Live(tables)
BY DEF TablesOK, VM!Alive, Live, VM!Entries

\* What an access finds at the entry of a page of a process.
LEMMA FaultedInOK ==
  ASSUME VMInv, NEW entry \in VM!Entries, entry[1] \in Live(tables), NEW writing \in BOOLEAN,
         NEW o, o = VM!FaultedIn(entry, writing)
  PROVE  /\ o \in Memories /\ FramesOK(o, Reserved(tables), Live(tables))
         /\ o.entries[entry].present
         /\ \A e \in VM!Entries : e[1] \in Live(tables) => Content(o, e) = Content(memory, e)
<1>1. CASE memory.entries[entry].present
  <2>1. o = memory
    BY <1>1 DEF VM!FaultedIn
  <2> QED BY <1>1, <2>1 DEF VMInv, VMShape
<1>2. CASE ~memory.entries[entry].present
  <2>1. PICK f : f = VM!ask_kernel_for_frame(memory, entry).frame
    OBVIOUS
  <2>2. PICK n : n = VM!ask_kernel_for_frame(memory, entry).memory
    OBVIOUS
  <2>3. /\ memory \in Memories /\ FramesOK(memory, Reserved(tables), Live(tables))
        /\ VM!Frames \ Reserved(tables) # {}
    BY Spare DEF VMInv, VMShape
  <2>4. f \in VM!Frames \ Reserved(tables) /\ AskedOK(memory, entry, Live(tables), f, n)
    BY <1>2, <2>1, <2>2, <2>3, LiveReserved, AskEffect
  <2>5. PICK rw : rw = (memory.entries[entry].read_write \/ writing)
    OBVIOUS
  <2>6. rw \in BOOLEAN
    BY <2>3, <2>5, Zenon DEF Memories, PTE
  <2>7. PICK pte : pte = [present |-> TRUE, base_addr |-> f, read_write |-> rw]
    OBVIOUS
  <2>8. pte \in PTE /\ pte.present /\ pte.base_addr = f
    BY <2>4, <2>6, <2>7 DEF PTE
  <2>9. PICK m : m = VM!Put(n, entry, pte)
    OBVIOUS
  <2>10. /\ m \in Memories /\ FramesOK(m, Reserved(tables), Live(tables))
         /\ m.entries[entry] = pte /\ m.data = n.data /\ m.swap = n.swap
         /\ \A e \in VM!Entries : e[1] \in Live(tables) /\ e # entry => Content(m, e) = Content(memory, e)
    BY <1>2, <2>3, <2>4, <2>8, <2>9, LiveReserved, MapOK
  <2>11. o = IF m.swap[entry] = VM!NoFile THEN m ELSE [m EXCEPT !.data[f] = m.swap[entry]]
    BY <1>2, <2>1, <2>2, <2>5, <2>7, <2>9 DEF VM!FaultedIn
  <2>12. m.swap[entry] = memory.swap[entry] /\ m.data[f] = VM!Zero
    BY <2>10, <2>4 DEF AskedOK
  <2>13. CASE m.swap[entry] = VM!NoFile
    <3>1. o = m
      BY <2>11, <2>13
    <3>2. Content(m, entry) = Content(memory, entry)
      BY <1>2, <2>8, <2>10, <2>12, <2>13 DEF Content
    <3> QED BY <2>8, <2>10, <3>1, <3>2
  <2>14. CASE m.swap[entry] # VM!NoFile
    <3>1. PICK w : w = m.swap[entry]
      OBVIOUS
    <3>2. StoredAt(m, f, w, o)
      BY <2>11, <2>14, <3>1 DEF StoredAt
    <3>3. w \in Words
      BY <2>10, <2>14, <3>1 DEF Memories
    <3>4. Overwritten(m, Reserved(tables), Live(tables), entry, w, o)
      BY <2>8, <2>10, <3>2, <3>3, StoreEffect
    <3>5. Content(memory, entry) = w
      BY <1>2, <2>12, <2>14, <3>1 DEF Content
    <3> QED BY <2>8, <2>10, <3>4, <3>5 DEF Overwritten
  <2> QED BY <2>13, <2>14
<1> QED BY <1>1, <1>2

---------------------------------------------------------------------------
(* Processes come and go.                                                  *)

\* mmu_add_process maps a page of a new process.
LEMMA MappedOK ==
  ASSUME NEW m \in Memories, NEW Z, NEW L, FramesOK(m, Z, L), L \subseteq Z, VM!Frames \ Z # {},
         NEW entry \in VM!Entries, entry[1] \in L, ~m.entries[entry].present,
         NEW f, f = VM!ask_kernel_for_frame(m, entry).frame,
         NEW n, n = VM!ask_kernel_for_frame(m, entry).memory,
         NEW o, o = VM!Put(n, entry, [present |-> TRUE, base_addr |-> f, read_write |-> TRUE])
  PROVE  /\ o \in Memories /\ FramesOK(o, Z, L)
         /\ Content(o, entry) = VM!Zero
         /\ \A e \in VM!Entries : e[1] \in L /\ e # entry =>
              /\ Content(o, e) = Content(m, e)
              /\ o.entries[e].present => m.entries[e].present
<1>1. f \in VM!Frames \ Z /\ AskedOK(m, entry, L, f, n)
  BY AskEffect
<1>2. PICK pte : pte = [present |-> TRUE, base_addr |-> f, read_write |-> TRUE]
  OBVIOUS
<1>3. pte \in PTE /\ pte.present /\ pte.base_addr = f
  BY <1>1, <1>2 DEF PTE
<1>4. o = VM!Put(n, entry, pte)
  BY <1>2
<1>5. /\ o \in Memories /\ FramesOK(o, Z, L)
      /\ o.entries[entry] = pte /\ o.data = n.data /\ o.swap = n.swap
      /\ \A e \in VM!Entries : e # entry => o.entries[e] = n.entries[e]
      /\ \A e \in VM!Entries : e[1] \in L /\ e # entry => Content(o, e) = Content(m, e)
  <2>1. /\ m \in Memories /\ FramesOK(m, Z, L) /\ L \subseteq Z /\ entry \in VM!Entries
        /\ entry[1] \in L /\ ~m.entries[entry].present
    OBVIOUS
  <2> QED BY ONLY <1>1, <1>3, <1>4, <2>1, MapOK
<1>6. Content(o, entry) = VM!Zero
  BY <1>1, <1>3, <1>5 DEF Content, AskedOK
<1>7. \A e \in VM!Entries : e[1] \in L /\ e # entry /\ o.entries[e].present => m.entries[e].present
  BY <1>1, <1>5 DEF AskedOK
<1> QED BY <1>5, <1>6, <1>7

\* U is T with d and t as pid's directory and page table.
TablesFor(U, T, pid, d, t) == U = [T EXCEPT ![pid] = [directory |-> d, table |-> t]]

\* The tables of a new process are two frames that nobody has.
LEMMA NewTables ==
  ASSUME NEW T \in [Pids -> Tables], NEW pid \in Pids, T[pid] = VM!NoTables,
         NEW d \in VM!Frames, NEW t \in VM!Frames,
         NEW U, TablesFor(U, T, pid, d, t)
  PROVE  /\ U \in [Pids -> Tables]
         /\ U[pid].directory = d /\ U[pid].table = t /\ U[pid] # VM!NoTables
         /\ \A p \in Pids : p # pid => U[p] = T[p]
         /\ Reserved(U) = Reserved(T) \cup {d, t} /\ Live(U) = Live(T) \cup {t}
<1>1. PICK new : new = [directory |-> d, table |-> t]
  OBVIOUS
<1>2. new \in Tables /\ new.directory = d /\ new.table = t
  BY <1>1 DEF Tables
<1>3. U = [T EXCEPT ![pid] = new]
  BY <1>1 DEF TablesFor
<1>4. U \in [Pids -> Tables] /\ U[pid] = new /\ \A p \in Pids : p # pid => U[p] = T[p]
  BY <1>2, <1>3
<1>5. VM!NoFrame \notin VM!Frames
  BY DEF VM!NoFrame, VM!Frames
<1>6. T[pid].directory \notin VM!Frames /\ T[pid].table \notin VM!Frames
  BY <1>5 DEF VM!NoTables
<1>7. Reserved(U) = Reserved(T) \cup {d, t}
  BY <1>2, <1>4, <1>6 DEF Reserved
<1>8. Live(U) = Live(T) \cup {t}
  BY <1>2, <1>4, <1>6 DEF Live
<1>9. new # VM!NoTables
  BY <1>2, <1>5 DEF VM!NoTables
<1> QED BY <1>1, <1>4, <1>7, <1>8, <1>9

LEMMA NewTablesOK ==
  ASSUME NEW T, TablesOK(T), NEW pid \in Pids, NEW d \in VM!Frames \ Reserved(T),
         NEW t \in VM!Frames \ (Reserved(T) \cup {d}),
         NEW U, U[pid].directory = d, U[pid].table = t,
         \A p \in Pids : p # pid => U[p] = T[p]
  PROVE  TablesOK(U)
BY DEF TablesOK, Reserved

\* What a new process should find, its third page at an entry with this file.
NewExpected(pid, left) ==
  /\ expected' = [expected EXCEPT ![pid] = [n \in VM!Pages |-> VM!Zero]]
  /\ inherited' = IF left = VM!NoFile THEN inherited \ {pid} ELSE inherited \cup {pid}

\* The memory after mmu_add_process: directory d, page table t, two pages.
Added(pid, d, t) ==
  /\ d \in VM!Frames \ Reserved(tables) /\ t \in VM!Frames \ (Reserved(tables) \cup {d})
  /\ TablesFor(tables', tables, pid, d, t)
  /\ memory' \in Memories
  /\ FramesOK(memory', Reserved(tables) \cup {d, t}, Live(tables) \cup {t})
  /\ \A e \in VM!Entries : e[1] \in Live(tables) => Content(memory', e) = Content(memory, e)
  /\ Content(memory', <<t, 1>>) = VM!Zero /\ Content(memory', <<t, 2>>) = VM!Zero
  /\ ~memory'.entries[<<t, 3>>].present
  /\ NewExpected(pid, memory'.swap[<<t, 3>>])

LEMMA AddedMemory ==
  ASSUME VMInv, NEW pid \in Pids, VM!mmu_add_process(pid)
  PROVE  \E d, t \in VM!Frames : Added(pid, d, t)
<1> DEFINE L == Live(tables)
           Z == Reserved(tables)
<1>1. PICK d : d = VM!ask_kernel_for_frame(memory, VM!NULL).frame
  OBVIOUS
<1>2. PICK m1 : m1 = VM!ask_kernel_for_frame(memory, VM!NULL).memory
  OBVIOUS
<1>3. PICK t : t = VM!ask_kernel_for_frame(m1, VM!NULL).frame
  OBVIOUS
<1>4. PICK m2 : m2 = VM!ask_kernel_for_frame(m1, VM!NULL).memory
  OBVIOUS
<1>5. PICK f1 : f1 = VM!ask_kernel_for_frame(m2, <<t, 1>>).frame
  OBVIOUS
<1>6. PICK n1 : n1 = VM!ask_kernel_for_frame(m2, <<t, 1>>).memory
  OBVIOUS
<1>7. PICK m3 : m3 = VM!Put(n1, <<t, 1>>, [present |-> TRUE, base_addr |-> f1, read_write |-> TRUE])
  OBVIOUS
<1>8. PICK f2 : f2 = VM!ask_kernel_for_frame(m3, <<t, 2>>).frame
  OBVIOUS
<1>9. PICK n2 : n2 = VM!ask_kernel_for_frame(m3, <<t, 2>>).memory
  OBVIOUS
<1>10. PICK m4 : m4 = VM!Put(n2, <<t, 2>>, [present |-> TRUE, base_addr |-> f2, read_write |-> TRUE])
  OBVIOUS
<1>11. TablesFor(tables', tables, pid, d, t) /\ memory' = m4
  BY <1>1, <1>2, <1>3, <1>4, <1>5, <1>6, <1>7, <1>8, <1>9, <1>10 DEF VM!mmu_add_process, TablesFor
<1>12. /\ tables \in [Pids -> Tables] /\ tables[pid] = VM!NoTables
       /\ memory \in Memories /\ FramesOK(memory, Z, L) /\ L \subseteq Z
  BY LiveReserved DEF VMInv, VMShape, VM!mmu_add_process, VM!Alive
<1> HIDE DEF L, Z
<1>13. d \in VM!Frames \ Z /\ AskedOK(memory, VM!NULL, L, d, m1)
  <2>1. VM!Frames \ Z # {} /\ VM!NULL \in VM!Entries \cup {VM!NULL} /\ VM!NULL \notin VM!Entries
    BY <1>12, Spare, NoEntry DEF Z
  <2> QED BY <1>1, <1>2, <1>12, <2>1, AskEffect
<1>14. m1 \in Memories /\ FramesOK(m1, Z \cup {d}, L)
  BY <1>12, <1>13, ReserveOK DEF AskedOK
<1>15. VM!Frames \ (Z \cup {d}) # {}
  <2>1. PICK U : U = [tables EXCEPT ![pid] = [directory |-> d, table |-> d]]
    OBVIOUS
  <2>2. U \in [Pids -> Tables] /\ Reserved(U) = Z \cup {d}
    <3>1. TablesFor(U, tables, pid, d, d)
      BY <2>1 DEF TablesFor
    <3>2. /\ tables \in [Pids -> Tables] /\ pid \in Pids /\ tables[pid] = VM!NoTables /\ d \in VM!Frames
      BY <1>12, <1>13
    <3>3. U \in [Pids -> Tables] /\ Reserved(U) = Reserved(tables) \cup {d, d}
      BY ONLY <3>1, <3>2, NewTables
    <3> QED BY <3>3 DEF Z
  <2> QED BY <2>2, Spare
<1>16. t \in VM!Frames \ (Z \cup {d}) /\ AskedOK(m1, VM!NULL, L, t, m2)
  <2>1. VM!NULL \in VM!Entries \cup {VM!NULL} /\ VM!NULL \notin VM!Entries /\ L \subseteq Z \cup {d}
    BY <1>12, NoEntry
  <2> QED BY <1>3, <1>4, <1>14, <1>15, <2>1, AskEffect
<1>17. m2 \in Memories /\ FramesOK(m2, Z \cup {d} \cup {t}, L \cup {t})
  BY <1>14, <1>16, ReserveOK DEF AskedOK
<1>18. PICK Y : Y = Z \cup {d, t}
  OBVIOUS
<1>19. PICK K : K = L \cup {t}
  OBVIOUS
<1>20. /\ FramesOK(m2, Y, K) /\ K \subseteq Y /\ t \in K
  <2>1. Y = Z \cup {d} \cup {t}
    BY <1>18
  <2> QED BY <1>12, <1>17, <1>19, <2>1
<1>21. VM!Frames \ Y # {}
  <2>1. PICK U : U = [tables EXCEPT ![pid] = [directory |-> d, table |-> t]]
    OBVIOUS
  <2>2. TablesFor(U, tables, pid, d, t)
    BY <2>1 DEF TablesFor
  <2>3. d \in VM!Frames /\ t \in VM!Frames
    BY <1>13, <1>16
  <2>4. /\ tables \in [Pids -> Tables] /\ pid \in Pids /\ tables[pid] = VM!NoTables
    BY <1>12
  <2>5. U \in [Pids -> Tables] /\ Reserved(U) = Reserved(tables) \cup {d, t}
    BY ONLY <2>2, <2>3, <2>4, NewTables
  <2> QED BY <1>18, <2>5, Spare DEF Z
<1>22. PICK e1 : e1 = <<t, 1>>
  OBVIOUS
<1>23. PICK e2 : e2 = <<t, 2>>
  OBVIOUS
<1>24. PICK e3 : e3 = <<t, 3>>
  OBVIOUS
<1>25. /\ e1 \in VM!Entries /\ e2 \in VM!Entries /\ e3 \in VM!Entries
       /\ e1[1] = t /\ e2[1] = t /\ e3[1] = t /\ e1 # e2 /\ e1 # e3 /\ e2 # e3
  BY <1>16, <1>22, <1>23, <1>24 DEF VM!Entries, VM!Pages
<1>26. /\ ~m2.entries[e1].present /\ ~m2.entries[e2].present /\ ~m2.entries[e3].present
  BY <1>16, <1>25 DEF AskedOK
<1>27. /\ m3 \in Memories /\ FramesOK(m3, Y, K)
       /\ Content(m3, e1) = VM!Zero
       /\ \A e \in VM!Entries : e[1] \in K /\ e # e1 =>
            /\ Content(m3, e) = Content(m2, e)
            /\ m3.entries[e].present => m2.entries[e].present
  <2>1. m3 = VM!Put(n1, e1, [present |-> TRUE, base_addr |-> f1, read_write |-> TRUE])
    BY <1>7, <1>22
  <2>2. f1 = VM!ask_kernel_for_frame(m2, e1).frame /\ n1 = VM!ask_kernel_for_frame(m2, e1).memory
    BY <1>5, <1>6, <1>22
  <2> QED BY <1>17, <1>20, <1>21, <1>25, <1>26, <2>1, <2>2, MappedOK
<1>28. /\ m4 \in Memories /\ FramesOK(m4, Y, K)
       /\ Content(m4, e2) = VM!Zero
       /\ \A e \in VM!Entries : e[1] \in K /\ e # e2 =>
            /\ Content(m4, e) = Content(m3, e)
            /\ m4.entries[e].present => m3.entries[e].present
  <2>1. m4 = VM!Put(n2, e2, [present |-> TRUE, base_addr |-> f2, read_write |-> TRUE])
    BY <1>10, <1>23
  <2>2. f2 = VM!ask_kernel_for_frame(m3, e2).frame /\ n2 = VM!ask_kernel_for_frame(m3, e2).memory
    BY <1>8, <1>9, <1>23
  <2>3. ~m3.entries[e2].present
    BY <1>20, <1>25, <1>26, <1>27
  <2> QED BY <1>20, <1>21, <1>25, <1>27, <2>1, <2>2, <2>3, MappedOK
<1>29. \A e \in VM!Entries : e[1] \in L => Content(m4, e) = Content(memory, e)
  <2> SUFFICES ASSUME NEW e \in VM!Entries, e[1] \in L PROVE Content(m4, e) = Content(memory, e)
    OBVIOUS
  <2>1. e[1] \in K /\ e # e1 /\ e # e2
    BY <1>12, <1>16, <1>19, <1>25
  <2>2. Content(m4, e) = Content(m2, e)
    BY <1>27, <1>28, <2>1
  <2> QED BY <1>13, <1>16, <2>2 DEF AskedOK
<1>30. Content(m4, e1) = VM!Zero /\ ~m4.entries[e3].present
  BY <1>20, <1>25, <1>26, <1>27, <1>28
<1>31. d \in VM!Frames \ Reserved(tables) /\ t \in VM!Frames \ (Reserved(tables) \cup {d})
  BY <1>13, <1>16 DEF Z
<1>32. FramesOK(memory', Reserved(tables) \cup {d, t}, Live(tables) \cup {t})
  BY <1>11, <1>18, <1>19, <1>28 DEF Z, L
<1>33. \A e \in VM!Entries : e[1] \in Live(tables) => Content(memory', e) = Content(memory, e)
  BY <1>11, <1>29 DEF L
<1>34. /\ Content(memory', <<t, 1>>) = VM!Zero /\ Content(memory', <<t, 2>>) = VM!Zero
       /\ ~memory'.entries[<<t, 3>>].present
  BY <1>11, <1>22, <1>23, <1>24, <1>28, <1>30
<1>35. NewExpected(pid, memory'.swap[<<t, 3>>])
  BY <1>1, <1>2, <1>3, <1>4 DEF VM!mmu_add_process, NewExpected
<1>36. Added(pid, d, t)
  BY <1>11, <1>28, <1>31, <1>32, <1>33, <1>34, <1>35 DEF Added
<1> QED BY <1>31, <1>36

\* mmu_add_process keeps the invariant.
LEMMA AddOK ==
  ASSUME VMInv, NEW pid \in Pids, VM!mmu_add_process(pid)
  PROVE  VMInv'
<1>0. PICK d, t \in VM!Frames : Added(pid, d, t)
  BY AddedMemory
<1>1. /\ d \in VM!Frames \ Reserved(tables) /\ t \in VM!Frames \ (Reserved(tables) \cup {d})
      /\ TablesFor(tables', tables, pid, d, t)
      /\ memory' \in Memories
      /\ FramesOK(memory', Reserved(tables) \cup {d, t}, Live(tables) \cup {t})
      /\ \A e \in VM!Entries : e[1] \in Live(tables) => Content(memory', e) = Content(memory, e)
      /\ Content(memory', <<t, 1>>) = VM!Zero /\ Content(memory', <<t, 2>>) = VM!Zero
      /\ ~memory'.entries[<<t, 3>>].present
      /\ NewExpected(pid, memory'.swap[<<t, 3>>])
  BY <1>0 DEF Added
<1>2. PICK U : U = tables'
  OBVIOUS
<1>3. PICK m : m = memory'
  OBVIOUS
<1>4. /\ U \in [Pids -> Tables]
      /\ U[pid].directory = d /\ U[pid].table = t /\ U[pid] # VM!NoTables
      /\ \A p \in Pids : p # pid => U[p] = tables[p]
      /\ Reserved(U) = Reserved(tables) \cup {d, t} /\ Live(U) = Live(tables) \cup {t}
  <2>1. /\ tables \in [Pids -> Tables] /\ tables[pid] = VM!NoTables /\ d \in VM!Frames /\ t \in VM!Frames
        /\ TablesFor(U, tables, pid, d, t)
    BY <1>1, <1>2 DEF VMInv, VMShape, VM!mmu_add_process, VM!Alive
  <2> QED BY <2>1, NewTables
<1>5. TablesOK(U)
  BY <1>1, <1>4, NewTablesOK DEF VMInv
<1>6. PICK left : left = m.swap[<<t, 3>>]
  OBVIOUS
<1>7. inherited' = IF left = VM!NoFile THEN inherited \ {pid} ELSE inherited \cup {pid}
  BY <1>1, <1>3, <1>6 DEF NewExpected
<1>8. Content(m, <<t, 3>>) = IF left = VM!NoFile THEN VM!Zero ELSE left
  BY <1>1, <1>3, <1>6 DEF Content
<1>13. /\ expected' \in [Pids -> [VM!Pages -> Words]]
       /\ \A n \in VM!Pages : expected'[pid][n] = VM!Zero
       /\ \A p \in Pids : p # pid => expected'[p] = expected[p]
  BY <1>1 DEF NewExpected, VMInv, VMShape, Words
<1>14. VMShape'
  BY <1>1, <1>2, <1>4, <1>13 DEF VMShape
<1>15. TablesOK(tables') /\ FramesOK(memory', Reserved(tables'), Live(tables'))
  BY <1>1, <1>2, <1>3, <1>4, <1>5
<1>16. TLBInv'
  <2>1. tlb' = tlb /\ curr_pid' = curr_pid /\ ~VM!Alive(pid)
    BY DEF VM!mmu_add_process
  <2>2. CASE curr_pid = pid
    BY <2>1, <2>2, EmptyOK DEF VMInv, TLBInv
  <2>3. CASE curr_pid # pid
    BY <1>2, <1>4, <2>1, <2>3 DEF VMInv, TLBInv, VM!Alive
  <2> QED BY <2>2, <2>3
<1>17. ContentOK'
  <2> SUFFICES ASSUME NEW p \in Pids, U[p] # VM!NoTables, NEW n \in VM!Pages,
                      ~(n = 3 /\ p \in inherited')
               PROVE  Content(m, <<U[p].table, n>>) = expected'[p][n]
    BY <1>2, <1>3 DEF ContentOK, VM!Alive, VM!Inherited
  <2>1. CASE p = pid
    <3>1. n = 1 \/ n = 2 \/ n = 3
      BY DEF VM!Pages
    <3> QED BY <1>1, <1>3, <1>4, <1>7, <1>8, <1>13, <2>1, <3>1
  <2>2. CASE p # pid
    <3>1. U[p] = tables[p] /\ VM!Alive(p)
      BY <1>4, <2>2 DEF VM!Alive
    <3>2. <<tables[p].table, n>> \in VM!Entries /\ tables[p].table \in Live(tables)
      BY <3>1, LiveEntry DEF VMInv
    <3>3. Content(m, <<tables[p].table, n>>) = Content(memory, <<tables[p].table, n>>)
      BY <1>1, <1>3, <3>2
    <3>4. ~VM!Inherited(p, n)
      BY <1>7, <2>2 DEF VM!Inherited
    <3> QED BY <1>13, <2>2, <3>1, <3>3, <3>4 DEF VMInv, ContentOK
  <2> QED BY <2>1, <2>2
<1> QED BY <1>14, <1>15, <1>16, <1>17 DEF VMInv

\* The frames of a process, and no others, are the pages its table has.
LEMMA PagesOfTable ==
  ASSUME VMInv, NEW pid \in Pids, VM!Alive(pid)
  PROVE  /\ \A f \in VM!PageFrames(pid) :
              /\ f \in VM!Frames /\ memory.entry_mapping[f] \in VM!Entries
              /\ memory.entry_mapping[f][1] = tables[pid].table
         /\ \A f \in VM!Frames : memory.entry_mapping[f] \in VM!Entries
                              /\ memory.entry_mapping[f][1] = tables[pid].table =>
              f \in VM!PageFrames(pid)
<1>1. PICK t : t = tables[pid].table
  OBVIOUS
<1>2. t \in Live(tables) /\ \A n \in VM!Pages : <<t, n>> \in VM!Entries /\ <<t, n>>[1] = t
  <2>1. TablesOK(tables) /\ 1 \in VM!Pages
    BY DEF VMInv, VM!Pages
  <2>2. \A n \in VM!Pages : <<t, n>> \in VM!Entries /\ t \in Live(tables)
    BY <1>1, <2>1, LiveEntry
  <2> QED BY <2>1, <2>2
<1>3. FramesOK(memory, Reserved(tables), Live(tables))
  BY DEF VMInv
<1>4. VM!PageFrames(pid) =
        {memory.entries[<<t, n>>].base_addr : n \in {n \in VM!Pages : memory.entries[<<t, n>>].present}}
  BY <1>1 DEF VM!PageFrames
<1>5. ASSUME NEW n \in VM!Pages, memory.entries[<<t, n>>].present,
             NEW f, f = memory.entries[<<t, n>>].base_addr
      PROVE  f \in VM!Frames /\ memory.entry_mapping[f] = <<t, n>>
  BY <1>2, <1>3, <1>5 DEF FramesOK
<1>6. ASSUME NEW f \in VM!Frames, NEW e \in VM!Entries, memory.entry_mapping[f] = e, e[1] = t
      PROVE  f \in VM!PageFrames(pid)
  <2>1. memory.entries[e].present /\ memory.entries[e].base_addr = f
    BY <1>3, <1>6 DEF FramesOK
  <2>2. PICK n \in VM!Pages : e = <<t, n>>
    BY <1>6 DEF VM!Entries
  <2>3. memory.entries[<<t, n>>].present /\ memory.entries[<<t, n>>].base_addr = f
    BY <2>1, <2>2
  <2>4. n \in {k \in VM!Pages : memory.entries[<<t, k>>].present}
    BY <2>3
  <2>5. memory.entries[<<t, n>>].base_addr \in VM!PageFrames(pid)
    BY ONLY <1>4, <2>4, Zenon
  <2> QED BY <2>3, <2>5
<1>7. ASSUME NEW f \in VM!PageFrames(pid)
      PROVE  f \in VM!Frames /\ memory.entry_mapping[f] \in VM!Entries /\ memory.entry_mapping[f][1] = t
  <2>1. PICK n \in VM!Pages : memory.entries[<<t, n>>].present /\ f = memory.entries[<<t, n>>].base_addr
    BY <1>4
  <2>2. f \in VM!Frames /\ memory.entry_mapping[f] = <<t, n>>
    BY <1>5, <2>1
  <2> QED BY <1>2, <2>2
<1> QED BY <1>1, <1>6, <1>7

\* The frames in F, which are the pages of table t, directory d and t are freed.
LEMMA FreedOK ==
  ASSUME NEW m \in Memories, NEW Z, NEW L, FramesOK(m, Z, L), NEW d \in Z, NEW t \in L, t \in Z,
         NEW F, \A f \in F : /\ f \in VM!Frames /\ m.entry_mapping[f] \in VM!Entries
                             /\ m.entry_mapping[f][1] = t,
         \A f \in VM!Frames : m.entry_mapping[f] \in VM!Entries /\ m.entry_mapping[f][1] = t => f \in F,
         NEW o \in Memories, o.entries = m.entries,
         \A f \in VM!Frames : o.entry_mapping[f] = IF f \in F \cup {d, t} THEN VM!NULL ELSE m.entry_mapping[f]
  PROVE  FramesOK(o, Z \ {d, t}, L \ {t})
<1>1. \A f \in VM!Frames : o.entry_mapping[f] = VM!RESERVED <=> f \in Z \ {d, t}
  BY NoEntry DEF FramesOK
<1>2. \A f \in VM!Frames : o.entry_mapping[f] \in VM!Entries =>
        LET e == o.entry_mapping[f]
        IN  e[1] \in L \ {t} /\ o.entries[e].present /\ o.entries[e].base_addr = f
  BY NoEntry DEF FramesOK
<1>3. \A e \in VM!Entries : e[1] \in L \ {t} /\ o.entries[e].present =>
        /\ o.entries[e].base_addr \in VM!Frames
        /\ o.entry_mapping[o.entries[e].base_addr] = e
  BY NoEntry DEF FramesOK
<1> QED BY <1>1, <1>2, <1>3 DEF FramesOK

\* mmu_remove_process keeps the invariant.
LEMMA RemoveOK ==
  ASSUME VMInv, NEW pid \in Pids, VM!mmu_remove_process(pid)
  PROVE  VMInv'
<1>1. PICK d : d = tables[pid].directory
  OBVIOUS
<1>2. PICK t : t = tables[pid].table
  OBVIOUS
<1>3. PICK U : U = tables'
  OBVIOUS
<1>4. PICK m : m = memory'
  OBVIOUS
<1>5. PICK F : F = VM!PageFrames(pid)
  OBVIOUS
<1>6. VM!Alive(pid) /\ tables \in [Pids -> Tables] /\ memory \in Memories /\ TablesOK(tables)
  BY DEF VM!mmu_remove_process, VMInv, VMShape
<1>7. d \in VM!Frames /\ t \in VM!Frames /\ d # t
  BY <1>1, <1>2, <1>6 DEF TablesOK, VM!Alive
<1>8. /\ m \in Memories /\ m.entries = memory.entries /\ m.data = memory.data /\ m.swap = memory.swap
      /\ \A f \in VM!Frames :
           m.entry_mapping[f] = IF f \in F \cup {d, t} THEN VM!NULL ELSE memory.entry_mapping[f]
  <2>1. PICK x : x = [f \in VM!Frames |-> IF f \in F \cup {d, t} THEN VM!NULL ELSE memory.entry_mapping[f]]
    OBVIOUS
  <2>2. x \in [VM!Frames -> Mappings]
    BY <1>6, <2>1 DEF Memories, Mappings
  <2>3. m = [memory EXCEPT !.entry_mapping = x]
    BY <1>1, <1>2, <1>4, <1>5, <2>1 DEF VM!mmu_remove_process
  <2> QED BY <1>6, <2>1, <2>2, <2>3 DEF Memories
<1>9. U \in [Pids -> Tables] /\ U[pid] = VM!NoTables /\ \A p \in Pids : p # pid => U[p] = tables[p]
  BY <1>3, <1>6 DEF VM!mmu_remove_process, VM!NoTables, Tables
<1>10. Reserved(U) = Reserved(tables) \ {d, t} /\ Live(U) = Live(tables) \ {t}
  <2>1. VM!NoFrame \notin VM!Frames /\ VM!NoTables.directory = VM!NoFrame /\ VM!NoTables.table = VM!NoFrame
    BY DEF VM!NoFrame, VM!Frames, VM!NoTables
  <2>2. ASSUME NEW p \in Pids, p # pid
        PROVE  tables[p].directory \notin {d, t} /\ tables[p].table \notin {d, t}
    BY <1>1, <1>2, <1>6, <1>7, <2>1, <2>2 DEF TablesOK, VM!Alive
  <2>3. Reserved(U) = Reserved(tables) \ {d, t}
    BY <1>1, <1>2, <1>9, <2>1, <2>2 DEF Reserved
  <2>4. Live(U) = Live(tables) \ {t}
    BY <1>2, <1>9, <2>1, <2>2 DEF Live
  <2> QED BY <2>3, <2>4
<1>11. TablesOK(U)
  BY <1>6, <1>9 DEF TablesOK
<1>12. FramesOK(m, Reserved(U), Live(U))
  <2>1. FramesOK(memory, Reserved(tables), Live(tables))
    BY DEF VMInv
  <2>2. d \in Reserved(tables) /\ t \in Reserved(tables) /\ t \in Live(tables)
    BY <1>1, <1>2, <1>7 DEF Reserved, Live
  <2>3. /\ \A f \in F : /\ f \in VM!Frames /\ memory.entry_mapping[f] \in VM!Entries
                        /\ memory.entry_mapping[f][1] = t
        /\ \A f \in VM!Frames : memory.entry_mapping[f] \in VM!Entries
                                /\ memory.entry_mapping[f][1] = t => f \in F
    BY <1>2, <1>5, <1>6, PagesOfTable
  <2>4. FramesOK(m, Reserved(tables) \ {d, t}, Live(tables) \ {t})
    BY <1>6, <1>8, <2>1, <2>2, <2>3, FreedOK
  <2> QED BY <1>10, <2>4
<1>13. /\ expected' \in [Pids -> [VM!Pages -> Words]]
       /\ \A p \in Pids : p # pid => expected'[p] = expected[p]
  BY DEF VM!mmu_remove_process, VMInv, VMShape, Words
<1>14. TLBInv'
  <2>1. curr_pid' = curr_pid /\ tlb' = IF curr_pid = pid THEN VM!EmptyTLB ELSE tlb
    BY DEF VM!mmu_remove_process
  <2>2. CASE curr_pid = pid
    BY <1>3, <1>9, <2>1, <2>2 DEF TLBInv, VM!Alive
  <2>3. CASE curr_pid # pid
    BY <1>3, <1>9, <2>1, <2>3 DEF VMInv, TLBInv, VM!Alive
  <2> QED BY <2>2, <2>3
<1>15. ContentOK'
  <2> SUFFICES ASSUME NEW p \in Pids, U[p] # VM!NoTables, NEW n \in VM!Pages,
                      ~(n = 3 /\ p \in inherited')
               PROVE  Content(m, <<U[p].table, n>>) = expected'[p][n]
    BY <1>3, <1>4 DEF ContentOK, VM!Alive, VM!Inherited
  <2>1. p # pid /\ U[p] = tables[p] /\ VM!Alive(p)
    BY <1>9 DEF VM!Alive
  <2>2. \A e : Content(m, e) = Content(memory, e)
    BY <1>8 DEF Content
  <2>3. ~VM!Inherited(p, n)
    BY <2>1 DEF VM!Inherited, VM!mmu_remove_process
  <2> QED BY <1>13, <2>1, <2>2, <2>3 DEF VMInv, ContentOK
<1>16. VMShape'
  BY <1>3, <1>4, <1>8, <1>9, <1>13 DEF VMShape
<1>17. TablesOK(tables') /\ FramesOK(memory', Reserved(tables'), Live(tables'))
  BY <1>3, <1>4, <1>11, <1>12
<1> QED BY <1>14, <1>15, <1>16, <1>17 DEF VMInv

\* A read keeps the invariant.
LEMMA ReadOK ==
  ASSUME VMInv, NEW pid \in Pids, NEW page \in VM!Pages, VM!mmu_read_from_virtual_address(pid, page)
  PROVE  VMInv'
<1>1. PICK entry : entry = VM!Lookup(pid, page).entry
  OBVIOUS
<1>2. VM!Alive(pid) /\ UNCHANGED <<tables, expected, inherited>> /\ curr_pid' = pid /\ tlb' = VM!Lookup(pid, page).tlb
  BY DEF VM!mmu_read_from_virtual_address
<1>3. entry = <<tables[pid].table, page>> /\ TLBOK(tlb', tables[pid].table)
  BY <1>1, <1>2, LookupOK DEF VMInv
<1>4. entry \in VM!Entries /\ entry[1] \in Live(tables)
  BY <1>2, <1>3, LiveEntry DEF VMInv
<1>5. PICK o : o = VM!FaultedIn(entry, FALSE)
  OBVIOUS
<1>6. memory' = o
  BY <1>1, <1>5 DEF VM!mmu_read_from_virtual_address
<1>7. /\ o \in Memories /\ FramesOK(o, Reserved(tables), Live(tables))
      /\ \A e \in VM!Entries : e[1] \in Live(tables) => Content(o, e) = Content(memory, e)
  BY <1>4, <1>5, FaultedInOK
<1>8. VMShape'
  BY <1>2, <1>6, <1>7 DEF VMInv, VMShape
<1>9. TablesOK(tables') /\ FramesOK(memory', Reserved(tables'), Live(tables'))
  BY <1>2, <1>6, <1>7 DEF VMInv
<1>10. TLBInv'
  BY <1>2, <1>3 DEF TLBInv, VM!Alive
<1>11. ContentOK'
  <2> SUFFICES ASSUME NEW p \in Pids, VM!Alive(p), NEW n \in VM!Pages, ~VM!Inherited(p, n)
               PROVE  Content(o, <<tables[p].table, n>>) = expected[p][n]
    BY <1>2, <1>6 DEF ContentOK, VM!Alive, VM!Inherited
  <2>1. <<tables[p].table, n>> \in VM!Entries /\ <<tables[p].table, n>>[1] \in Live(tables)
    BY LiveEntry DEF VMInv
  <2> QED BY <1>7, <2>1 DEF VMInv, ContentOK
<1> QED BY <1>8, <1>9, <1>10, <1>11 DEF VMInv

\* A write keeps the invariant.
LEMMA WriteOK ==
  ASSUME VMInv, NEW pid \in Pids, NEW page \in VM!Pages, NEW value \in Values,
         VM!mmu_write_to_virtual_address(pid, page, value)
  PROVE  VMInv'
<1>1. PICK entry : entry = VM!Lookup(pid, page).entry
  OBVIOUS
<1>2. VM!Alive(pid) /\ UNCHANGED tables /\ curr_pid' = pid /\ tlb' = VM!Lookup(pid, page).tlb
  BY DEF VM!mmu_write_to_virtual_address
<1>3. entry = <<tables[pid].table, page>> /\ TLBOK(tlb', tables[pid].table)
  BY <1>1, <1>2, LookupOK DEF VMInv
<1>4. entry \in VM!Entries /\ entry[1] \in Live(tables)
  BY <1>2, <1>3, LiveEntry DEF VMInv
<1>5. PICK m : m = VM!FaultedIn(entry, TRUE)
  OBVIOUS
<1>6. IF m.entries[entry].read_write
      THEN /\ memory' = [m EXCEPT !.data[m.entries[entry].base_addr] = value]
           /\ expected' = [expected EXCEPT ![pid][page] = value]
           /\ inherited' = inherited \ {p \in {pid} : page = 3}
      ELSE memory' = m /\ UNCHANGED <<expected, inherited>>
  BY <1>1, <1>5 DEF VM!mmu_write_to_virtual_address
<1>7. /\ m \in Memories /\ FramesOK(m, Reserved(tables), Live(tables)) /\ m.entries[entry].present
      /\ \A e \in VM!Entries : e[1] \in Live(tables) => Content(m, e) = Content(memory, e)
  BY <1>4, <1>5, FaultedInOK
<1>8. TablesOK(tables') /\ TLBInv'
  BY <1>2, <1>3 DEF VMInv, TLBInv, VM!Alive
<1>9. \A p \in Pids, n \in VM!Pages : VM!Alive(p) =>
        /\ <<tables[p].table, n>> \in VM!Entries /\ <<tables[p].table, n>>[1] \in Live(tables)
        /\ ~VM!Inherited(p, n) => Content(m, <<tables[p].table, n>>) = expected[p][n]
  <2> SUFFICES ASSUME NEW p \in Pids, NEW n \in VM!Pages, VM!Alive(p)
               PROVE  /\ <<tables[p].table, n>> \in VM!Entries /\ <<tables[p].table, n>>[1] \in Live(tables)
                      /\ ~VM!Inherited(p, n) => Content(m, <<tables[p].table, n>>) = expected[p][n]
    OBVIOUS
  <2>1. <<tables[p].table, n>> \in VM!Entries /\ <<tables[p].table, n>>[1] \in Live(tables)
    BY LiveEntry DEF VMInv
  <2> QED BY <1>7, <2>1 DEF VMInv, ContentOK
<1>10. CASE ~m.entries[entry].read_write
  <2>1. memory' = m /\ UNCHANGED <<tables, expected, inherited>>
    BY <1>2, <1>6, <1>10
  <2>2. VMShape' /\ FramesOK(memory', Reserved(tables'), Live(tables'))
    BY <1>7, <2>1 DEF VMInv, VMShape
  <2>3. ContentOK'
    BY <1>9, <2>1 DEF ContentOK, VM!Alive, VM!Inherited
  <2> QED BY <1>8, <2>2, <2>3 DEF VMInv
<1>11. CASE m.entries[entry].read_write
  <2>1. PICK f : f = m.entries[entry].base_addr
    OBVIOUS
  <2>2. PICK o : o = memory'
    OBVIOUS
  <2>3. expected' = [expected EXCEPT ![pid][page] = value]
    BY <1>6, <1>11
  <2>4. StoredAt(m, f, value, o)
    BY <1>6, <1>11, <2>1, <2>2 DEF StoredAt
  <2>5. value \in Words
    BY DEF Words
  <2>6. /\ o \in Memories /\ FramesOK(o, Reserved(tables), Live(tables))
        /\ \A e \in VM!Entries : e[1] \in Live(tables) =>
             Content(o, e) = IF e = entry THEN value ELSE Content(m, e)
    <3>1. /\ m \in Memories /\ FramesOK(m, Reserved(tables), Live(tables)) /\ m.entries[entry].present
          /\ entry \in VM!Entries /\ entry[1] \in Live(tables)
      BY <1>4, <1>7
    <3>2. StoredAt(m, f, value, o)
      BY ONLY <2>4
    <3>3. m \in Memories /\ entry \in VM!Entries /\ value \in Words /\ f = m.entries[entry].base_addr
      BY ONLY <2>1, <2>5, <3>1
    <3>4. Overwritten(m, Reserved(tables), Live(tables), entry, value, o)
      BY ONLY <3>1, <3>2, <3>3, StoreEffect
    <3> QED BY <3>4 DEF Overwritten
  <2>7. expected \in [Pids -> [VM!Pages -> Words]]
    BY DEF VMInv, VMShape
  <2>8. /\ expected' \in [Pids -> [VM!Pages -> Words]]
        /\ \A p \in Pids, n \in VM!Pages :
             expected'[p][n] = IF p = pid /\ n = page THEN value ELSE expected[p][n]
    BY <2>3, <2>5, <2>7
  <2>9. VMShape' /\ FramesOK(memory', Reserved(tables'), Live(tables'))
    BY <1>2, <2>2, <2>6, <2>8 DEF VMInv, VMShape
  <2>10. ContentOK'
    <3> SUFFICES ASSUME NEW p \in Pids, VM!Alive(p), NEW n \in VM!Pages,
                        ~(n = 3 /\ p \in inherited')
                 PROVE  Content(o, <<tables[p].table, n>>) = expected'[p][n]
      BY <1>2, <2>2 DEF ContentOK, VM!Alive, VM!Inherited
    <3>1. <<tables[p].table, n>> = entry <=> p = pid /\ n = page
      BY <1>2, <1>3 DEF VMInv, TablesOK, VM!Alive
    <3>2. ~(p = pid /\ n = page) => ~VM!Inherited(p, n)
      <4>1. inherited' = inherited \ {x \in {pid} : page = 3}
        BY <1>6, <1>11
      <4> QED BY <4>1 DEF VM!Inherited
    <3> QED BY <1>9, <2>6, <2>8, <3>1, <3>2
  <2> QED BY <1>8, <2>9, <2>10 DEF VMInv
<1> QED BY <1>10, <1>11

\* A read finds what was last written.
LEMMA ReadsBack ==
  ASSUME VMInv
  PROVE  VM!ReadsBackWrites
<1> SUFFICES ASSUME NEW pid \in Pids, VM!Alive(pid), NEW page \in VM!Pages,
                    ~VM!Inherited(pid, page)
             PROVE  VM!Found(pid, page) = expected[pid][page]
  BY DEF VM!ReadsBackWrites
<1>1. PICK entry : entry = VM!Lookup(pid, page).entry
  OBVIOUS
<1>2. PICK m : m = VM!FaultedIn(entry, FALSE)
  OBVIOUS
<1>3. entry = <<tables[pid].table, page>>
  BY <1>1, LookupOK DEF VMInv
<1>4. entry \in VM!Entries /\ entry[1] \in Live(tables)
  BY <1>3, LiveEntry DEF VMInv
<1>5. m.entries[entry].present /\ Content(m, entry) = Content(memory, entry)
  BY <1>2, <1>4, FaultedInOK
<1>6. Content(memory, entry) = expected[pid][page]
  BY <1>3 DEF VMInv, ContentOK
<1>7. m.data[m.entries[entry].base_addr] = expected[pid][page]
  BY <1>5, <1>6 DEF Content
<1> QED BY <1>1, <1>2, <1>7 DEF VM!Found

\* Every frame has the owner that its mapping and the tables say.
LEMMA Owned ==
  ASSUME VMInv
  PROVE  VM!FramesOwned
<1> DEFINE Running == {p \in Pids : VM!Alive(p)}
           Owns(p) == {tables[p].directory, tables[p].table} \cup VM!PageFrames(p)
<1>1. \A f \in VM!Frames : memory.entry_mapping[f] \in Mappings
  BY DEF VMInv, VMShape, Memories
<1>2. /\ TablesOK(tables) /\ FramesOK(memory, Reserved(tables), Live(tables)) /\ TLBInv
  BY DEF VMInv
<1>3. ASSUME NEW p \in Running
      PROVE  /\ tables[p].directory \in VM!Frames /\ tables[p].table \in VM!Frames
             /\ memory.entry_mapping[tables[p].directory] = VM!RESERVED
             /\ memory.entry_mapping[tables[p].table] = VM!RESERVED
             /\ \A f \in VM!PageFrames(p) : memory.entry_mapping[f] \in VM!Entries
                                         /\ memory.entry_mapping[f][1] = tables[p].table
  <2>1. tables[p].directory \in VM!Frames /\ tables[p].table \in VM!Frames
    BY <1>2 DEF TablesOK, VM!Alive
  <2>2. tables[p].directory \in Reserved(tables) /\ tables[p].table \in Reserved(tables)
    BY <2>1 DEF Reserved
  <2> QED BY <1>2, <2>1, <2>2, PagesOfTable DEF FramesOK
<1>4. ASSUME NEW p \in Running, NEW q \in Running, p # q
      PROVE  Owns(p) \cap Owns(q) = {}
  <2>1. {tables[p].directory, tables[p].table} \cap {tables[q].directory, tables[q].table} = {}
    BY <1>2, <1>4 DEF TablesOK, VM!Alive
  <2>2. ASSUME tables[p].table = tables[q].table PROVE FALSE
    <3>1. tables[p].table \in {tables[p].directory, tables[p].table} \cap {tables[q].directory, tables[q].table}
      BY ONLY <2>2
    <3> QED BY ONLY <2>1, <3>1
  <2>3. VM!PageFrames(p) \cap VM!PageFrames(q) = {}
    BY <1>3, <2>2
  <2>4. VM!PageFrames(p) \cap {tables[q].directory, tables[q].table} = {}
    BY <1>3, NoEntry
  <2>5. VM!PageFrames(q) \cap {tables[p].directory, tables[p].table} = {}
    BY <1>3, NoEntry
  <2> QED BY <2>1, <2>3, <2>4, <2>5
<1>5. ASSUME NEW f \in VM!Frames, NEW e, e = memory.entry_mapping[f], e # VM!NULL
      PROVE  IF e = VM!RESERVED THEN \E p \in Running : f \in {tables[p].directory, tables[p].table}
             ELSE memory.entries[e].base_addr = f /\ \E p \in Running : e[1] = tables[p].table
  <2>1. /\ VM!NoFrame \notin VM!Frames
        /\ \A p \in Pids : ~VM!Alive(p) =>
             tables[p].directory = VM!NoFrame /\ tables[p].table = VM!NoFrame
    BY DEF VM!NoFrame, VM!Frames, VM!Alive, VM!NoTables
  <2>2. CASE e = VM!RESERVED
    <3>1. f \in Reserved(tables)
      BY <1>2, <1>5, <2>2 DEF FramesOK
    <3> QED BY <2>1, <2>2, <3>1 DEF Reserved
  <2>3. CASE e # VM!RESERVED
    <3>1. e \in VM!Entries
      BY <1>1, <1>5, <2>3 DEF Mappings
    <3>2. e[1] \in Live(tables) /\ memory.entries[e].base_addr = f
      BY <1>2, <1>5, <3>1 DEF FramesOK
    <3> QED BY <2>1, <2>3, <3>2 DEF Live
  <2> QED BY <2>2, <2>3
<1>6. ASSUME NEW p \in Running, NEW f \in Owns(p)
      PROVE  memory.entry_mapping[f] # VM!NULL
  BY <1>3, NoEntry
<1>7. /\ \A i \in DOMAIN tlb : tlb[i] # VM!EmptyTLB[1] =>
           curr_pid \in Running /\ tlb[i][2] = <<tables[curr_pid].table, tlb[i][1]>>
      /\ Len(tlb) <= MAX_NODES
  <2>1. CASE curr_pid \in Running
    <3>1. PICK frame : frame = tables[curr_pid].table
      OBVIOUS
    <3>2. tlb \in Seq(Nodes(frame)) /\ Len(tlb) \in 1 .. MAX_NODES
      BY <1>2, <2>1, <3>1 DEF TLBInv, TLBOK
    <3>3. \A i \in DOMAIN tlb : tlb[i] \in Nodes(frame)
      BY <3>2, ElementOfSeq, LenProperties
    <3>4. \A node \in Nodes(frame) : node # VM!EmptyTLB[1] => node[2] = <<frame, node[1]>>
      BY DEF Nodes
    <3>5. \A i \in DOMAIN tlb : tlb[i] # VM!EmptyTLB[1] => tlb[i][2] = <<frame, tlb[i][1]>>
      BY <3>3, <3>4
    <3>6. Len(tlb) <= MAX_NODES
      BY <3>2, MemoryOK
    <3> QED BY <2>1, <3>1, <3>5, <3>6
  <2>2. CASE curr_pid \notin Running
    <3>1. tlb = VM!EmptyTLB
      BY <1>2, <2>2 DEF TLBInv
    <3>2. PICK node : node = <<0, VM!NULL>>
      OBVIOUS
    <3>3. tlb = <<node>> /\ VM!EmptyTLB = <<node>>
      BY <3>1, <3>2 DEF VM!EmptyTLB
    <3> QED BY <3>3, MemoryOK
  <2> QED BY <2>1, <2>2
<1> HIDE DEF Running, Owns
<1>8. /\ \A p, q \in Running : p # q => Owns(p) \cap Owns(q) = {}
      /\ \A f \in VM!Frames : memory.entry_mapping[f] # VM!NULL =>
           LET e == memory.entry_mapping[f]
           IN  IF e = VM!RESERVED THEN \E p \in Running : f \in {tables[p].directory, tables[p].table}
               ELSE memory.entries[e].base_addr = f /\ \E p \in Running : e[1] = tables[p].table
      /\ \A p \in Running : \A f \in Owns(p) : memory.entry_mapping[f] # VM!NULL
  BY <1>4, <1>5, <1>6
<1> QED BY <1>7, <1>8 DEF VM!FramesOwned, Running, Owns

LEMMA VMInitOK == VM!Init => VMInv
<1> SUFFICES ASSUME VM!Init PROVE VMInv
  OBVIOUS
<1>1. tables = [p \in Pids |-> VM!NoTables] /\ expected = [p \in Pids |-> [n \in VM!Pages |-> VM!Zero]]
  BY DEF VM!Init
<1>2. \A p \in Pids : ~VM!Alive(p) /\ tables[p].directory = VM!NoFrame /\ tables[p].table = VM!NoFrame
  BY <1>1 DEF VM!Alive, VM!NoTables
<1>3. Reserved(tables) = {} /\ Live(tables) = {}
  BY <1>2 DEF Reserved, Live, VM!Frames, VM!NoFrame
<1>4. /\ memory \in Memories /\ \A f \in VM!Frames : memory.entry_mapping[f] = VM!NULL
  BY DEF VM!Init, Memories, Mappings, PTE, VM!NotPresent, Words
<1>5. VMShape
  BY <1>1, <1>4 DEF VMShape, VM!NoTables, Tables, Words
<1>6. TablesOK(tables) /\ ContentOK
  BY <1>2 DEF TablesOK, VM!Alive, ContentOK
<1>7. FramesOK(memory, Reserved(tables), Live(tables))
  BY <1>3, <1>4, NoEntry DEF FramesOK
<1>8. TLBInv
  BY <1>2 DEF VM!Init, TLBInv
<1> QED BY <1>5, <1>6, <1>7, <1>8 DEF VMInv

LEMMA VMStepOK == VMInv /\ [VM!Next]_VM!vmVars => VMInv'
<1> SUFFICES ASSUME VMInv, [VM!Next]_VM!vmVars PROVE VMInv'
  OBVIOUS
<1>1. CASE UNCHANGED VM!vmVars
  BY <1>1 DEF VM!vmVars, VMInv, VMShape, TLBInv, ContentOK, VM!Alive, VM!Inherited
<1>2. CASE VM!Next
  <2>1. PICK pid \in Pids :
          \/ VM!mmu_add_process(pid) \/ VM!mmu_remove_process(pid)
          \/ \E page \in VM!Pages :
               \/ VM!mmu_read_from_virtual_address(pid, page)
               \/ \E value \in Values : VM!mmu_write_to_virtual_address(pid, page, value)
    BY <1>2 DEF VM!Next
  <2> QED BY <2>1, AddOK, RemoveOK, ReadOK, WriteOK
<1> QED BY <1>1, <1>2

\* mmu.c:19-261, kernel.c:23-70, tlb.c:12-82: for any number of processes, frames
\* and nodes of the TLB, a process finds what it wrote, in frames of its own.
THEOREM MemoryAlwaysKept == VM!Spec => []MemoryKept
<1>1. VMInv => MemoryKept
  BY ReadsBack, Owned DEF MemoryKept, VM!MemoryKept
<1> QED BY VMInitOK, VMStepOK, <1>1, PTL DEF VM!Spec

---------------------------------------------------------------------------
(* alloc.c: the heap is cut into chunks, and the footers lead back.         *)

\* A unit, a heap, and what the program knows of a pointer.
Unit == [size : Nat, freed : {0, 1}]
Heaps == [unit : [Malloc!Units -> Unit], head : Seq(Malloc!Units), brk : 0 .. HeapSize]
Holding == [size : Nat, known : Nat, word : Unit]

End(h, b) == b + h.unit[b].size + 1
Members(s) == {s[i] : i \in 1 .. Len(s)}
Listed(h) == Members(h.head)
Distinct(s) == \A i, j \in 1 .. Len(s) : s[i] = s[j] => i = j

\* Where free looks for the block in front of the one at s.
Before(h, s) == s - 2 - h.unit[s - 1].size

\* The units up to the break are cut into chunks that begin at the places in S: the
\* blocks at the headers in H, which are held, those on the list, and what free
\* lost.  The footer at the end of a chunk leads to some place within it.
Shape(h, H, S) ==
  /\ S \subseteq 1 .. h.brk + 1 /\ h.brk + 1 \in S
  /\ H \subseteq S /\ Listed(h) \subseteq S
  /\ \A b \in H \cup Listed(h) : /\ b <= h.brk /\ End(h, b) + 1 \in S
                                 /\ \A s \in S : s <= b \/ s > End(h, b)
  /\ \A s \in S : s > 1 => /\ Before(h, s) >= 1
                           /\ \A x \in S : x <= Before(h, s) \/ x >= s
  /\ \A b \in H : h.unit[b].freed = 0
  /\ \A b \in Listed(h) : h.unit[b].freed = 1
  /\ Distinct(h.head)

\* From heap h to heap n, the blocks at the headers in H stay, and so do the words
\* in those whose footer is their own.
Keeps(h, n, H) ==
  \A c \in H : /\ n.unit[c].size = h.unit[c].size
               /\ Malloc!Whole(n, c) <=> Malloc!Whole(h, c)
               /\ Malloc!Whole(h, c) => \A a \in c + 1 .. c + h.unit[c].size : n.unit[a] = h.unit[a]

---------------------------------------------------------------------------
\* What the invariant says of a block.
LEMMA BlockOK ==
  ASSUME NEW h \in Heaps, NEW H, NEW S, Shape(h, H, S), NEW b \in H \cup Listed(h)
  PROVE  /\ b \in Malloc!Units /\ h.unit[b].size \in Nat /\ h.unit[b].freed \in {0, 1}
         /\ End(h, b) \in Malloc!Units /\ End(h, b) <= h.brk /\ End(h, b) >= b + 1
         /\ End(h, b) = b + h.unit[b].size + 1
         /\ \A s \in S : s <= b \/ s >= End(h, b) + 1
<1>1. h.brk \in 0 .. HeapSize /\ HeapSize \in Nat /\ h.unit \in [Malloc!Units -> Unit]
  BY HeapOK DEF Heaps
<1>2. b \in S /\ End(h, b) + 1 \in S /\ S \subseteq 1 .. h.brk + 1
  BY DEF Shape
<1>3. \A s \in S : s <= b \/ s > End(h, b)
  BY DEF Shape
<1>4. b \in 1 .. h.brk + 1 /\ h.brk \in Int /\ b <= h.brk
  BY <1>1, <1>2 DEF Shape
<1>5. b \in Malloc!Units
  BY <1>1, <1>4 DEF Malloc!Units
<1>6. h.unit[b].size \in Nat /\ h.unit[b].freed \in {0, 1}
  BY <1>1, <1>5 DEF Unit
<1>7. End(h, b) = b + h.unit[b].size + 1
  BY DEF End
<1>8. End(h, b) \in Nat /\ b \in Nat /\ End(h, b) >= b + 1
  BY <1>5, <1>6, <1>7 DEF Malloc!Units
<1>9. End(h, b) + 1 <= h.brk + 1
  BY <1>1, <1>2, <1>8
<1>10. End(h, b) \in Malloc!Units /\ End(h, b) <= h.brk
  BY <1>1, <1>8, <1>9 DEF Malloc!Units
<1>11. \A s \in S : s <= b \/ s >= End(h, b) + 1
  BY <1>1, <1>2, <1>3, <1>8
<1> QED BY <1>5, <1>6, <1>7, <1>8, <1>10, <1>11

---------------------------------------------------------------------------
(* The list.                                                               *)

LEMMA Pushed ==
  ASSUME NEW s \in Seq(Malloc!Units), NEW b \in Malloc!Units, NEW t, t = <<b>> \o s
  PROVE  /\ t \in Seq(Malloc!Units) /\ Members(t) = Members(s) \cup {b}
         /\ Distinct(s) /\ b \notin Members(s) => Distinct(t)
<1>1. PICK u : u = <<b>>
  OBVIOUS
<1>2. u \in Seq(Malloc!Units) /\ Len(u) = 1 /\ u[1] = b
  BY <1>1
<1>3. Len(s) \in Nat
  BY LenProperties
<1>4. /\ t \in Seq(Malloc!Units) /\ Len(t) = 1 + Len(s)
      /\ \A i \in 1 .. 1 + Len(s) : t[i] = IF i <= 1 THEN u[i] ELSE s[i - 1]
  <2>1. t = u \o s
    BY <1>1
  <2> QED BY <1>2, <2>1, ConcatProperties
<1>5. t[1] = b /\ \A i \in 1 .. Len(s) : t[i + 1] = s[i]
  BY <1>2, <1>3, <1>4
<1>6. \A i \in 1 .. Len(t) : i = 1 \/ (i - 1 \in 1 .. Len(s) /\ t[i] = s[i - 1])
  BY <1>3, <1>4
<1>7. Members(t) = Members(s) \cup {b}
  <2>1. ASSUME NEW x \in Members(s) PROVE x \in Members(t)
    <3>1. PICK i \in 1 .. Len(s) : x = s[i]
      BY DEF Members
    <3>2. i + 1 \in 1 .. Len(t) /\ t[i + 1] = x
      BY <1>3, <1>4, <1>5, <3>1
    <3> QED BY <3>2 DEF Members
  <2>2. b \in Members(t)
    <3>1. 1 \in 1 .. Len(t)
      BY <1>3, <1>4
    <3> QED BY <1>5, <3>1 DEF Members
  <2>3. ASSUME NEW x \in Members(t) PROVE x \in Members(s) \cup {b}
    BY <1>5, <1>6 DEF Members
  <2> QED BY <2>1, <2>2, <2>3
<1>8. ASSUME Distinct(s), b \notin Members(s) PROVE Distinct(t)
  <2> SUFFICES ASSUME NEW i \in 1 .. Len(t), NEW j \in 1 .. Len(t), t[i] = t[j] PROVE i = j
    BY DEF Distinct
  <2>1. \A k \in 1 .. Len(s) : s[k] # b
    BY <1>8 DEF Members
  <2>2. CASE i = 1 /\ j = 1
    BY <2>2
  <2>3. CASE i = 1 /\ j # 1
    BY <1>5, <1>6, <2>1, <2>3
  <2>4. CASE i # 1 /\ j = 1
    BY <1>5, <1>6, <2>1, <2>4
  <2>5. CASE i # 1 /\ j # 1
    <3>1. i - 1 = j - 1
      BY <1>6, <1>8, <2>5 DEF Distinct
    <3> QED BY <1>3, <1>4, <3>1
  <2> QED BY <2>2, <2>3, <2>4, <2>5
<1> QED BY <1>4, <1>7, <1>8

LEMMA Removed ==
  ASSUME NEW s \in Seq(Malloc!Units), Distinct(s), NEW i \in 1 .. Len(s), NEW t, t = Malloc!RemoveAt(s, i)
  PROVE  t \in Seq(Malloc!Units) /\ Members(t) = Members(s) \ {s[i]} /\ Distinct(t)
<1> DEFINE left == SubSeq(s, 1, i - 1)
           right == SubSeq(s, i + 1, Len(s))
<1>1. Len(s) \in Nat /\ i \in Nat /\ i >= 1 /\ i <= Len(s)
  BY LenProperties
<1>2. /\ left \in Seq(Malloc!Units) /\ Len(left) = i - 1
      /\ \A k \in 1 .. i - 1 : left[k] = s[k]
  <2>1. 1 \in Int /\ i - 1 \in Int /\ \A k \in 1 .. i - 1 : s[k] \in Malloc!Units
    BY <1>1, ElementOfSeq
  <2>2. /\ left \in Seq(Malloc!Units) /\ Len(left) = IF 1 <= i - 1 THEN i - 1 - 1 + 1 ELSE 0
        /\ \A k \in 1 .. i - 1 - 1 + 1 : left[k] = s[1 + k - 1]
    BY <1>1, <2>1, SubSeqProperties
  <2> HIDE DEF left
  <2> QED BY <1>1, <2>2
<1>3. /\ right \in Seq(Malloc!Units) /\ Len(right) = Len(s) - i
      /\ \A k \in 1 .. Len(s) - i : right[k] = s[i + k]
  <2>1. i + 1 \in Int /\ Len(s) \in Int /\ \A k \in i + 1 .. Len(s) : s[k] \in Malloc!Units
    BY <1>1, ElementOfSeq
  <2>2. /\ right \in Seq(Malloc!Units) /\ Len(right) = IF i + 1 <= Len(s) THEN Len(s) - (i + 1) + 1 ELSE 0
        /\ \A k \in 1 .. Len(s) - (i + 1) + 1 : right[k] = s[i + 1 + k - 1]
    BY <1>1, <2>1, SubSeqProperties
  <2> HIDE DEF right
  <2> QED BY <1>1, <2>2
<1>4. t = left \o right
  BY DEF Malloc!RemoveAt
<1> HIDE DEF left, right
<1>5. /\ t \in Seq(Malloc!Units) /\ Len(t) = Len(left) + Len(right)
      /\ \A k \in 1 .. Len(left) + Len(right) : t[k] = IF k <= Len(left) THEN left[k] ELSE right[k - Len(left)]
  BY ONLY <1>2, <1>3, <1>4, ConcatProperties
<1>6. Len(t) = Len(s) - 1
  BY <1>1, <1>2, <1>3, <1>5
<1>7. \A k \in 1 .. Len(t) : t[k] = IF k < i THEN s[k] ELSE s[k + 1]
  <2> SUFFICES ASSUME NEW k \in 1 .. Len(t) PROVE t[k] = IF k < i THEN s[k] ELSE s[k + 1]
    OBVIOUS
  <2>1. k \in 1 .. Len(left) + Len(right)
    BY <1>5
  <2>2. CASE k < i
    BY <1>1, <1>2, <1>5, <2>1, <2>2
  <2>3. CASE k >= i
    <3>1. k - Len(left) \in 1 .. Len(s) - i /\ ~(k <= Len(left))
      BY <1>1, <1>2, <1>6, <2>3
    <3>2. t[k] = right[k - Len(left)]
      BY <1>5, <2>1, <3>1
    <3>4. i + (k - Len(left)) = k + 1
      <4>1. Len(left) = i - 1 /\ k \in Int
        BY <1>2
      <4> QED BY <1>1, <4>1
    <3>5. right[k - Len(left)] = s[i + (k - Len(left))]
      BY <1>3, <3>1
    <3>6. ~(k < i)
      BY <1>1, <2>3
    <3> QED BY <3>2, <3>4, <3>5, <3>6
  <2> QED BY <1>1, <1>6, <2>2, <2>3
<1>8. Distinct(t)
  <2> SUFFICES ASSUME NEW j \in 1 .. Len(t), NEW k \in 1 .. Len(t), t[j] = t[k] PROVE j = k
    BY DEF Distinct
  <2>1. PICK a, b \in 1 .. Len(s) : /\ a = IF j < i THEN j ELSE j + 1
                                    /\ b = IF k < i THEN k ELSE k + 1
    BY <1>1, <1>6
  <2>2. a = b
    BY <1>7, <2>1 DEF Distinct
  <2> QED BY <1>1, <1>6, <2>1, <2>2
<1>9. Members(t) = Members(s) \ {s[i]}
  <2>1. ASSUME NEW x \in Members(t) PROVE x \in Members(s) /\ x # s[i]
    <3>1. PICK k \in 1 .. Len(t) : x = t[k]
      BY DEF Members
    <3>2. PICK a \in 1 .. Len(s) : a = IF k < i THEN k ELSE k + 1
      BY <1>1, <1>6
    <3>3. x = s[a] /\ a # i
      BY <1>1, <1>6, <1>7, <3>1, <3>2
    <3> QED BY <3>3 DEF Members, Distinct
  <2>2. ASSUME NEW x \in Members(s), x # s[i] PROVE x \in Members(t)
    <3>1. PICK a \in 1 .. Len(s) : x = s[a]
      BY DEF Members
    <3>2. PICK k \in 1 .. Len(t) : k = IF a < i THEN a ELSE a - 1
      BY <1>1, <1>6, <2>2, <3>1
    <3>3. t[k] = x
      BY <1>1, <1>6, <1>7, <2>2, <3>1, <3>2
    <3> QED BY <3>3 DEF Members
  <2> QED BY <2>1, <2>2
<1> QED BY <1>5, <1>8, <1>9

---------------------------------------------------------------------------
(* Changes that leave the places where chunks begin.                       *)

LEMMA FooterOK ==
  ASSUME NEW h \in Heaps, NEW H, NEW S, Shape(h, H, S), NEW s \in S, s > 1
  PROVE  /\ s - 1 \in Malloc!Units /\ h.unit[s - 1].size \in Nat
         /\ Before(h, s) = s - 2 - h.unit[s - 1].size
         /\ Before(h, s) \in Malloc!Units /\ Before(h, s) <= s - 2
         /\ \A x \in S : x <= Before(h, s) \/ x >= s
<1>1. h.brk \in 0 .. HeapSize /\ HeapSize \in Nat /\ h.unit \in [Malloc!Units -> Unit]
  BY HeapOK DEF Heaps
<1>2. s \in 1 .. h.brk + 1
  BY DEF Shape
<1>3. s - 1 \in Malloc!Units
  BY <1>1, <1>2 DEF Malloc!Units
<1>4. h.unit[s - 1].size \in Nat
  BY <1>1, <1>3 DEF Unit
<1>5. Before(h, s) = s - 2 - h.unit[s - 1].size
  BY DEF Before
<1>6. Before(h, s) >= 1 /\ \A x \in S : x <= Before(h, s) \/ x >= s
  BY DEF Shape
<1>7. Before(h, s) <= s - 2
  BY <1>2, <1>4, <1>5
<1>8. Before(h, s) \in Malloc!Units
  BY <1>1, <1>2, <1>4, <1>5, <1>6 DEF Malloc!Units
<1> QED BY <1>3, <1>4, <1>5, <1>6, <1>7, <1>8

LEMMA SameTiling ==
  ASSUME NEW h \in Heaps, NEW n \in Heaps, NEW H, NEW H2, NEW S, Shape(h, H, S),
         n.brk = h.brk, H2 \cup Listed(n) \subseteq H \cup Listed(h),
         \A c \in H2 \cup Listed(n) : n.unit[c].size = h.unit[c].size,
         \A s \in S : s > 1 => n.unit[s - 1].size = h.unit[s - 1].size,
         \A c \in H2 : n.unit[c].freed = 0,
         \A c \in Listed(n) : n.unit[c].freed = 1,
         Distinct(n.head)
  PROVE  Shape(n, H2, S)
<1>1. S \subseteq 1 .. n.brk + 1 /\ n.brk + 1 \in S
  BY DEF Shape
<1>2. H2 \subseteq S /\ Listed(n) \subseteq S
  BY DEF Shape
<1>3. ASSUME NEW b \in H2 \cup Listed(n)
      PROVE  b <= n.brk /\ End(n, b) + 1 \in S /\ \A s \in S : s <= b \/ s > End(n, b)
  <2>1. b \in H \cup Listed(h) /\ End(n, b) = End(h, b)
    BY DEF End
  <2> QED BY <2>1 DEF Shape
<1>4. ASSUME NEW s \in S, s > 1
      PROVE  Before(n, s) >= 1 /\ \A x \in S : x <= Before(n, s) \/ x >= s
  <2>1. Before(n, s) = Before(h, s)
    BY <1>4 DEF Before
  <2> QED BY <1>4, <2>1 DEF Shape
<1> QED BY <1>1, <1>2, <1>3, <1>4 DEF Shape

LEMMA KeepsWhen ==
  ASSUME NEW h, NEW n, NEW H,
         \A c \in H : /\ n.unit[c].size = h.unit[c].size
                      /\ n.unit[End(h, c)].size = h.unit[End(h, c)].size
                      /\ Malloc!Whole(h, c) => \A a \in c + 1 .. c + h.unit[c].size : n.unit[a] = h.unit[a]
  PROVE  Keeps(h, n, H)
<1> SUFFICES ASSUME NEW c \in H
             PROVE  /\ n.unit[c].size = h.unit[c].size
                    /\ Malloc!Whole(n, c) <=> Malloc!Whole(h, c)
                    /\ Malloc!Whole(h, c) => \A a \in c + 1 .. c + h.unit[c].size : n.unit[a] = h.unit[a]
  BY DEF Keeps
<1>1. Malloc!Whole(n, c) <=> n.unit[End(h, c)].size = n.unit[c].size
  BY DEF Malloc!Whole, End
<1>2. Malloc!Whole(h, c) <=> h.unit[End(h, c)].size = h.unit[c].size
  BY DEF Malloc!Whole, End
<1> QED BY <1>1, <1>2

\* What is known of a block that is held.
KeptAt(h, x, b) == /\ x.size <= h.unit[b].size /\ x.known <= x.size
                   /\ Malloc!Whole(h, b) => \A a \in b + 1 .. b + x.known : h.unit[a] = x.word

LEMMA KeptOn ==
  ASSUME NEW h, NEW n, NEW H, Keeps(h, n, H), NEW b \in H, b \in Nat,
         NEW x, x.size \in Nat, x.known \in Nat, h.unit[b].size \in Nat, KeptAt(h, x, b)
  PROVE  KeptAt(n, x, b)
<1>1. /\ n.unit[b].size = h.unit[b].size
      /\ Malloc!Whole(n, b) <=> Malloc!Whole(h, b)
      /\ Malloc!Whole(h, b) => \A a \in b + 1 .. b + h.unit[b].size : n.unit[a] = h.unit[a]
  BY DEF Keeps
<1>2. x.size <= h.unit[b].size /\ x.known <= x.size
  BY DEF KeptAt
<1>3. \A a \in b + 1 .. b + x.known : a \in b + 1 .. b + h.unit[b].size
  BY <1>2
<1>4. Malloc!Whole(h, b) => \A a \in b + 1 .. b + x.known : h.unit[a] = x.word
  BY DEF KeptAt
<1> QED BY <1>1, <1>2, <1>3, <1>4 DEF KeptAt

---------------------------------------------------------------------------
(* free.                                                                   *)

\* free puts the block at b on the list.
OnList(h, n, b) ==
  /\ n.brk = h.brk /\ n.head = <<b>> \o h.head
  /\ n.unit[b].size = h.unit[b].size /\ n.unit[b].freed = 1
  /\ \A a \in Malloc!Units : a # b => n.unit[a] = h.unit[a]

LEMMA PushShape ==
  ASSUME NEW h \in Heaps, NEW n \in Heaps, NEW H, NEW S, Shape(h, H, S), NEW b \in H,
         OnList(h, n, b)
  PROVE  Shape(n, H \ {b}, S) /\ Keeps(h, n, H \ {b})
<1>1. b \in Malloc!Units
  BY BlockOK
<1>0. /\ n.brk = h.brk /\ n.head = <<b>> \o h.head
      /\ n.unit[b].size = h.unit[b].size /\ n.unit[b].freed = 1
      /\ \A a \in Malloc!Units : a # b => n.unit[a] = h.unit[a]
  BY DEF OnList
<1>2. b \notin Listed(h)
  BY DEF Shape
<1>3. h.head \in Seq(Malloc!Units) /\ Distinct(h.head)
  BY DEF Heaps, Shape
<1>4. Listed(n) = Listed(h) \cup {b} /\ Distinct(n.head)
  BY <1>0, <1>1, <1>2, <1>3, Pushed DEF Listed
<1>5. \A a \in Malloc!Units : n.unit[a].size = h.unit[a].size
  BY <1>0
<1>6. \A c \in H \cup Listed(h) : c \in Malloc!Units
  BY BlockOK
<1>7. \A s \in S : s > 1 => n.unit[s - 1].size = h.unit[s - 1].size
  BY <1>5, FooterOK
<1>8. \A c \in H \ {b} : n.unit[c].freed = 0
  BY <1>0, <1>6 DEF Shape
<1>9. \A c \in Listed(n) : n.unit[c].freed = 1
  BY <1>0, <1>4, <1>6 DEF Shape
<1>10. (H \ {b}) \cup Listed(n) \subseteq H \cup Listed(h)
  BY <1>4
<1>11. \A c \in (H \ {b}) \cup Listed(n) : n.unit[c].size = h.unit[c].size
  BY <1>5, <1>6, <1>10
<1>12. Shape(n, H \ {b}, S)
  BY <1>0, <1>4, <1>7, <1>8, <1>9, <1>10, <1>11, SameTiling
<1>13. ASSUME NEW c \in H \ {b}
       PROVE  /\ n.unit[c].size = h.unit[c].size
              /\ n.unit[End(h, c)].size = h.unit[End(h, c)].size
              /\ Malloc!Whole(h, c) => \A a \in c + 1 .. c + h.unit[c].size : n.unit[a] = h.unit[a]
  <2>1. c \in H \cup Listed(h)
    OBVIOUS
  <2>2. /\ c \in Malloc!Units /\ h.unit[c].size \in Nat
        /\ End(h, c) \in Malloc!Units /\ End(h, c) = c + h.unit[c].size + 1
        /\ \A s \in S : s <= c \/ s >= End(h, c) + 1
    BY ONLY <2>1, h \in Heaps, Shape(h, H, S), BlockOK
  <2>3. b \in S
    BY DEF Shape
  <2>4. \A a \in c + 1 .. c + h.unit[c].size : a \in Malloc!Units /\ a # b
    <3>1. b \in Int /\ (b <= c \/ b >= End(h, c) + 1)
      BY <1>1, <2>2, <2>3 DEF Malloc!Units
    <3>2. /\ c \in Nat /\ c >= 1 /\ End(h, c) \in Nat /\ End(h, c) <= HeapSize
          /\ HeapSize \in Nat
      BY HeapOK, <2>2 DEF Malloc!Units
    <3>3. \A a \in c + 1 .. c + h.unit[c].size :
            a \in Nat /\ a >= 1 /\ a <= HeapSize /\ a # b
      BY <2>2, <3>1, <3>2
    <3> QED BY <3>2, <3>3 DEF Malloc!Units
  <2> QED BY <1>0, <1>5, <2>2, <2>4
<1>14. Keeps(h, n, H \ {b})
  BY <1>13, KeepsWhen
<1> QED BY <1>12, <1>14
\* free merges the block at b into the place p that the footer before it leads to.
Merged(h, n, b, p) ==
  /\ p = Before(h, b) /\ h.unit[p].freed = 1
  /\ n.brk = h.brk /\ n.head = h.head
  /\ n.unit[p].size = h.unit[p].size + h.unit[b].size + 2 /\ n.unit[p].freed = 1
  /\ \A a \in Malloc!Units : a # p => n.unit[a] = h.unit[a]

LEMMA MergeFacts ==
  ASSUME NEW h \in Heaps, NEW n \in Heaps, NEW H, NEW S, Shape(h, H, S), NEW b \in H, b > 1,
         NEW p, Merged(h, n, b, p)
  PROVE  /\ p \in Malloc!Units /\ p <= b - 2 /\ p \notin H /\ b \in S
         /\ \A x \in S : x <= p \/ x >= b
         /\ \A s \in S : s > 1 => n.unit[s - 1].size = h.unit[s - 1].size
         /\ \A a \in Malloc!Units : n.unit[a].freed = h.unit[a].freed
         /\ \A c \in H \cup Listed(h) : End(h, c) # p
         /\ Keeps(h, n, H \ {b})
<1>0. /\ p = Before(h, b) /\ h.unit[p].freed = 1 /\ n.unit[p].freed = 1
      /\ \A a \in Malloc!Units : a # p => n.unit[a] = h.unit[a]
  BY DEF Merged
<1>1. b \in S
  BY DEF Shape
<1>2. p \in Malloc!Units /\ p <= b - 2 /\ \A x \in S : x <= p \/ x >= b
  BY <1>0, <1>1, FooterOK
<1>3. b \in Malloc!Units /\ S \subseteq Nat
  <2>1. h.brk \in Nat
    BY HeapOK DEF Heaps
  <2>2. S \subseteq 1 .. h.brk + 1
    BY DEF Shape
  <2> QED BY <2>1, <2>2, BlockOK
<1>4. p \notin H
  <2>1. \A c \in H : h.unit[c].freed = 0
    BY DEF Shape
  <2> QED BY <1>0, <2>1
<1>5. ASSUME NEW s \in S, s > 1 PROVE n.unit[s - 1].size = h.unit[s - 1].size
  <2>1. s - 1 \in Malloc!Units
    BY <1>5, FooterOK
  <2>2. s <= p \/ s >= b
    BY <1>2
  <2>3. s - 1 # p
    BY <1>2, <1>3, <2>2 DEF Malloc!Units
  <2> QED BY <1>0, <2>1, <2>3
<1>6. \A a \in Malloc!Units : n.unit[a].freed = h.unit[a].freed
  BY <1>0
<1>7. ASSUME NEW c \in H \cup Listed(h) PROVE End(h, c) # p
  <2>1. End(h, c) \in Malloc!Units
    BY BlockOK
  <2>2. End(h, c) + 1 \in S
    BY DEF Shape
  <2>3. End(h, c) + 1 <= p \/ End(h, c) + 1 >= b
    BY <1>2, <2>2
  <2> QED BY <1>2, <1>3, <2>1, <2>3 DEF Malloc!Units
<1>8. ASSUME NEW c \in H \ {b}
      PROVE  /\ n.unit[c].size = h.unit[c].size
             /\ n.unit[End(h, c)].size = h.unit[End(h, c)].size
             /\ Malloc!Whole(h, c) => \A a \in c + 1 .. c + h.unit[c].size : n.unit[a] = h.unit[a]
  <2>1. c \in H \cup Listed(h)
    OBVIOUS
  <2>2. /\ c \in Malloc!Units /\ h.unit[c].size \in Nat
        /\ End(h, c) \in Malloc!Units /\ End(h, c) = c + h.unit[c].size + 1
        /\ \A s \in S : s <= c \/ s >= End(h, c) + 1
    BY ONLY <2>1, h \in Heaps, Shape(h, H, S), BlockOK
  <2>3. c # p /\ End(h, c) # p /\ c \in S
    BY <1>4, <1>7, <2>1 DEF Shape
  <2>4. ASSUME Malloc!Whole(h, c), NEW a \in c + 1 .. c + h.unit[c].size PROVE a # p
    <3>1. SUFFICES ASSUME a = p PROVE FALSE
      OBVIOUS
    <3>2. c < p /\ p < End(h, c)
      BY <2>2, <3>1 DEF Malloc!Units
    <3>3. End(h, c) + 1 \in S
      BY <2>1 DEF Shape
    <3>4. End(h, c) + 1 >= b
      BY <1>2, <1>3, <2>2, <3>2, <3>3 DEF Malloc!Units
    <3>5. b <= c \/ b >= End(h, c) + 1
      BY <1>1, <2>2
    <3>6. End(h, c) = b - 1
      BY <1>2, <1>3, <2>2, <3>2, <3>4, <3>5 DEF Malloc!Units
    <3>7. h.unit[b - 1].size = h.unit[c].size
      BY <2>2, <2>4, <3>6 DEF Malloc!Whole
    <3>8. p = b - 2 - h.unit[b - 1].size
      BY <1>0 DEF Before
    <3> QED BY <1>3, <2>2, <3>2, <3>6, <3>7, <3>8 DEF Malloc!Units
  <2>5. \A a \in c + 1 .. c + h.unit[c].size : a \in Malloc!Units
    BY HeapOK, <2>2 DEF Malloc!Units
  <2> QED BY <1>0, <2>2, <2>3, <2>4, <2>5
<1>9. Keeps(h, n, H \ {b})
  BY <1>8, KeepsWhen
<1> QED BY <1>1, <1>2, <1>4, <1>5, <1>6, <1>7, <1>9

LEMMA MergeShape ==
  ASSUME NEW h \in Heaps, NEW n \in Heaps, NEW H, NEW S, Shape(h, H, S), NEW b \in H, b > 1,
         NEW p, Merged(h, n, b, p)
  PROVE  /\ \E S2 : Shape(n, H \ {b}, S2)
         /\ Keeps(h, n, H \ {b})
<1>1. /\ p \in Malloc!Units /\ p <= b - 2 /\ p \notin H /\ b \in S
      /\ \A x \in S : x <= p \/ x >= b
      /\ \A s \in S : s > 1 => n.unit[s - 1].size = h.unit[s - 1].size
      /\ \A a \in Malloc!Units : n.unit[a].freed = h.unit[a].freed
      /\ \A c \in H \cup Listed(h) : End(h, c) # p
      /\ Keeps(h, n, H \ {b})
  BY MergeFacts
<1>0. /\ n.brk = h.brk /\ n.head = h.head
      /\ n.unit[p].size = h.unit[p].size + h.unit[b].size + 2
      /\ \A a \in Malloc!Units : a # p => n.unit[a] = h.unit[a]
  BY DEF Merged
<1>2. Listed(n) = Listed(h) /\ Distinct(n.head)
  BY <1>0 DEF Listed, Shape
<1>3. \A c \in H \cup Listed(h) : c \in Malloc!Units
  BY BlockOK
<1>4. /\ \A c \in H \ {b} : n.unit[c].freed = 0
      /\ \A c \in Listed(n) : n.unit[c].freed = 1
  BY <1>1, <1>2, <1>3 DEF Shape
<1>5. CASE p \notin Listed(h)
  <2>1. \A c \in (H \ {b}) \cup Listed(n) : n.unit[c].size = h.unit[c].size
    BY <1>0, <1>1, <1>2, <1>3, <1>5
  <2>2. (H \ {b}) \cup Listed(n) \subseteq H \cup Listed(h)
    BY <1>2
  <2>3. Shape(n, H \ {b}, S)
    BY <1>0, <1>1, <1>2, <1>4, <2>1, <2>2, SameTiling
  <2> QED BY <1>1, <2>3
<1>6. CASE p \in Listed(h)
  <2> DEFINE S2 == S \ {b}
  <2>1. /\ p \in S /\ S \subseteq 1 .. h.brk + 1 /\ h.brk + 1 \in S /\ h.brk \in Nat
        /\ H \subseteq S /\ Listed(h) \subseteq S
    BY HeapOK, <1>6 DEF Shape, Heaps
  <2>2. /\ b \in Malloc!Units /\ h.unit[b].size \in Nat /\ End(h, b) <= h.brk
        /\ End(h, b) = b + h.unit[b].size + 1
        /\ \A s \in S : s <= b \/ s >= End(h, b) + 1
    BY BlockOK
  <2>3. /\ h.unit[p].size \in Nat /\ End(h, p) \in Malloc!Units
        /\ End(h, p) = p + h.unit[p].size + 1
        /\ \A s \in S : s <= p \/ s >= End(h, p) + 1
    BY <1>6, BlockOK
  <2>4. End(h, p) + 1 \in S /\ End(h, b) + 1 \in S
    BY <1>6 DEF Shape
  <2>5. End(h, p) + 1 = b
    <3>1. End(h, p) + 1 >= b
      BY <1>1, <2>3, <2>4 DEF Malloc!Units
    <3>2. b >= End(h, p) + 1
      BY <1>1, <2>2, <2>3 DEF Malloc!Units
    <3> QED BY <2>2, <2>3, <3>1, <3>2 DEF Malloc!Units
  <2>6. End(n, p) = End(h, b)
    <3>1. End(n, p) = p + (h.unit[p].size + h.unit[b].size + 2) + 1
      BY <1>0 DEF End
    <3> QED BY <1>1, <2>2, <2>3, <2>5, <3>1 DEF Malloc!Units
  <2>7. S2 \subseteq 1 .. n.brk + 1 /\ n.brk + 1 \in S2
    <3>1. S \subseteq 1 .. h.brk + 1 /\ h.brk + 1 \in S /\ n.brk = h.brk
      BY <1>0 DEF Shape
    <3>2. b < End(h, b)
      BY <2>2 DEF Malloc!Units
    <3>3. PICK e : e = h.brk + 1
      OBVIOUS
    <3>4. b # e
      BY <2>1, <2>2, <3>1, <3>2, <3>3 DEF Malloc!Units
    <3>5. n.brk + 1 = e
      BY <3>1, <3>3
    <3>6. S \subseteq 1 .. e /\ e \in S
      BY <3>1, <3>3
    <3>7. e \in S2 /\ S2 \subseteq 1 .. e
      BY <3>4, <3>6
    <3> QED BY ONLY <3>5, <3>7
  <2>8. b \notin Listed(h)
    BY DEF Shape
  <2>9. H \ {b} \subseteq S2 /\ Listed(n) \subseteq S2
    BY <1>2, <2>1, <2>8
  <2>10. ASSUME NEW c \in (H \ {b}) \cup Listed(n)
         PROVE  /\ c <= n.brk /\ End(n, c) + 1 \in S2
                /\ \A s \in S2 : s <= c \/ s > End(n, c)
    <3>1. c \in H \cup Listed(h)
      BY <1>2
    <3>2. /\ c \in Malloc!Units /\ c <= h.brk /\ End(h, c) \in Malloc!Units /\ End(h, c) + 1 \in S
          /\ End(h, c) >= c + 1
          /\ \A s \in S : s <= c \/ s >= End(h, c) + 1
      <4>1. /\ c \in Malloc!Units /\ End(h, c) \in Malloc!Units
            /\ End(h, c) >= c + 1
            /\ \A s \in S : s <= c \/ s >= End(h, c) + 1
        BY ONLY <3>1, h \in Heaps, Shape(h, H, S), BlockOK
      <4>2. End(h, c) + 1 \in S /\ c <= h.brk
        BY <3>1 DEF Shape
      <4> QED BY <4>1, <4>2
    <3>3. CASE c = p
      <4>1. End(n, c) + 1 \in S2
        BY <1>0, <2>2, <2>4, <2>6, <3>3 DEF Malloc!Units
      <4>2. \A s \in S2 : s <= c \/ s > End(n, c)
        <5> SUFFICES ASSUME NEW s \in S, s # b PROVE s <= p \/ s > End(h, b)
          BY <2>6, <3>3
        <5>1. s \in Nat
          BY <2>1
        <5>2. s <= p \/ s >= b
          BY <1>1
        <5>3. s <= b \/ s >= End(h, b) + 1
          BY <2>2
        <5>4. End(h, b) \in Nat /\ b \in Nat
          BY <2>2 DEF Malloc!Units
        <5> QED BY <5>1, <5>2, <5>3, <5>4
      <4> QED BY <1>0, <3>2, <4>1, <4>2
    <3>4. CASE c # p
      <4>1. End(n, c) = End(h, c)
        BY <1>0, <3>2, <3>4 DEF End
      <4>2. End(h, c) + 1 # b
        <5>1. SUFFICES ASSUME End(h, c) + 1 = b PROVE FALSE
          OBVIOUS
        <5>2. c \in S
          BY <2>1, <3>1
        <5>3. c <= p
          BY <1>1, <3>2, <5>1, <5>2 DEF Malloc!Units
        <5>4. p <= c \/ p >= End(h, c) + 1
          BY <2>1, <3>2
        <5> QED BY <1>1, <3>2, <3>4, <5>1, <5>3, <5>4 DEF Malloc!Units
      <4>3. \A s \in S2 : s <= c \/ s > End(n, c)
        <5> SUFFICES ASSUME NEW s \in S PROVE s <= c \/ s > End(h, c)
          BY <4>1
        <5>1. s \in Nat /\ (s <= c \/ s >= End(h, c) + 1)
          BY <2>1, <3>2
        <5> QED BY <3>2, <5>1 DEF Malloc!Units
      <4> QED BY <1>0, <3>2, <4>1, <4>2, <4>3
    <3> QED BY <3>3, <3>4
  <2>11. ASSUME NEW s \in S2, s > 1
         PROVE  Before(n, s) >= 1 /\ \A x \in S2 : x <= Before(n, s) \/ x >= s
    <3>1. Before(n, s) = Before(h, s)
      BY <1>1, <2>11 DEF Before
    <3>2. Before(h, s) >= 1 /\ \A x \in S : x <= Before(h, s) \/ x >= s
      BY <2>11 DEF Shape
    <3> QED BY <3>1, <3>2
  <2> HIDE DEF S2
  <2>12. Shape(n, H \ {b}, S2)
    BY <1>0, <1>2, <1>4, <2>7, <2>9, <2>10, <2>11 DEF Shape
  <2> QED BY <1>1, <2>12
<1> QED BY <1>5, <1>6
---------------------------------------------------------------------------
(* malloc, and what is written to a block.                                 *)

\* What the chunks of two blocks share.
LEMMA Apart ==
  ASSUME NEW h \in Heaps, NEW H, NEW S, Shape(h, H, S),
         NEW b \in H \cup Listed(h), NEW c \in H \cup Listed(h), b # c
  PROVE  \A x \in b .. End(h, b), y \in c .. End(h, c) : x # y
<1>1. /\ b \in Malloc!Units /\ End(h, b) \in Malloc!Units
      /\ \A s \in S : s <= b \/ s >= End(h, b) + 1
  BY BlockOK
<1>2. /\ c \in Malloc!Units /\ End(h, c) \in Malloc!Units
      /\ \A s \in S : s <= c \/ s >= End(h, c) + 1
  BY BlockOK
<1>3. b \in S /\ c \in S
  BY DEF Shape
<1>4. c <= b \/ c >= End(h, b) + 1
  BY <1>1, <1>3
<1>5. b <= c \/ b >= End(h, c) + 1
  BY <1>2, <1>3
<1> QED BY <1>1, <1>2, <1>4, <1>5 DEF Malloc!Units

\* malloc takes the block at b, the i-th on the list.
OffList(h, n, i, b) ==
  /\ b = h.head[i]
  /\ n.brk = h.brk /\ n.head = Malloc!RemoveAt(h.head, i)
  /\ n.unit[b].size = h.unit[b].size /\ n.unit[b].freed = 0
  /\ \A a \in Malloc!Units : a # b => n.unit[a] = h.unit[a]

LEMMA TakeShape ==
  ASSUME NEW h \in Heaps, NEW n \in Heaps, NEW H, NEW S, Shape(h, H, S),
         NEW i \in 1 .. Len(h.head), NEW b, OffList(h, n, i, b)
  PROVE  Shape(n, H \cup {b}, S) /\ Keeps(h, n, H) /\ b \notin H
<1>0. /\ b = h.head[i]
      /\ n.brk = h.brk /\ n.head = Malloc!RemoveAt(h.head, i)
      /\ n.unit[b].size = h.unit[b].size /\ n.unit[b].freed = 0
      /\ \A a \in Malloc!Units : a # b => n.unit[a] = h.unit[a]
  BY DEF OffList
<1>1. h.head \in Seq(Malloc!Units) /\ Distinct(h.head)
  BY DEF Heaps, Shape
<1>2. Listed(n) = Listed(h) \ {b} /\ Distinct(n.head)
  BY <1>0, <1>1, Removed DEF Listed
<1>3. b \in Listed(h)
  BY <1>0 DEF Listed, Members
<1>4. b \notin H
  <2>1. /\ \A c \in H : h.unit[c].freed = 0
        /\ \A c \in Listed(h) : h.unit[c].freed = 1
    BY DEF Shape
  <2> QED BY <1>3, <2>1
<1>5. \A c \in H \cup Listed(h) : c \in Malloc!Units
  BY BlockOK
<1>6. \A a \in Malloc!Units : n.unit[a].size = h.unit[a].size
  BY <1>0
<1>7. \A s \in S : s > 1 => n.unit[s - 1].size = h.unit[s - 1].size
  BY <1>6, FooterOK
<1>8. \A c \in H \cup {b} : n.unit[c].freed = 0
  BY <1>0, <1>4, <1>5 DEF Shape
<1>9. \A c \in Listed(n) : n.unit[c].freed = 1
  BY <1>0, <1>2, <1>5 DEF Shape
<1>10. (H \cup {b}) \cup Listed(n) \subseteq H \cup Listed(h)
  BY <1>2, <1>3
<1>11. \A c \in (H \cup {b}) \cup Listed(n) : n.unit[c].size = h.unit[c].size
  BY <1>5, <1>6, <1>10
<1>12. Shape(n, H \cup {b}, S)
  BY <1>0, <1>2, <1>7, <1>8, <1>9, <1>10, <1>11, SameTiling
<1>13. ASSUME NEW c \in H
       PROVE  /\ n.unit[c].size = h.unit[c].size
              /\ n.unit[End(h, c)].size = h.unit[End(h, c)].size
              /\ Malloc!Whole(h, c) => \A a \in c + 1 .. c + h.unit[c].size : n.unit[a] = h.unit[a]
  <2>1. c \in H \cup Listed(h)
    OBVIOUS
  <2>2. /\ c \in Malloc!Units /\ h.unit[c].size \in Nat
        /\ End(h, c) \in Malloc!Units /\ End(h, c) = c + h.unit[c].size + 1
        /\ \A s \in S : s <= c \/ s >= End(h, c) + 1
    BY ONLY <2>1, h \in Heaps, Shape(h, H, S), BlockOK
  <2>3. b \in S
    BY <1>3 DEF Shape
  <2>4. \A a \in c + 1 .. c + h.unit[c].size : a \in Malloc!Units /\ a # b
    <3>1. b \in Int /\ (b <= c \/ b >= End(h, c) + 1)
      <4>1. b \in Malloc!Units
        BY <1>3, <1>5
      <4> QED BY <2>2, <2>3, <4>1 DEF Malloc!Units
    <3>2. /\ c \in Nat /\ c >= 1 /\ End(h, c) \in Nat /\ End(h, c) <= HeapSize
          /\ HeapSize \in Nat
      BY HeapOK, <2>2 DEF Malloc!Units
    <3>3. \A a \in c + 1 .. c + h.unit[c].size :
            a \in Nat /\ a >= 1 /\ a <= HeapSize /\ a # b
      BY <2>2, <3>1, <3>2
    <3> QED BY <3>2, <3>3 DEF Malloc!Units
  <2> QED BY <1>0, <1>6, <2>2, <2>4
<1>14. Keeps(h, n, H)
  BY <1>13, KeepsWhen
<1> QED BY <1>4, <1>12, <1>14

\* The words of the block at b are written.
Rewritten(h, n, b) ==
  /\ n.brk = h.brk /\ n.head = h.head
  /\ \A a \in Malloc!Units : a \notin b + 1 .. b + h.unit[b].size => n.unit[a] = h.unit[a]

LEMMA RewriteShape ==
  ASSUME NEW h \in Heaps, NEW n \in Heaps, NEW H, NEW S, Shape(h, H, S), NEW b \in H,
         Rewritten(h, n, b)
  PROVE  /\ Shape(n, H, S) /\ Keeps(h, n, H \ {b})
         /\ n.unit[b].size = h.unit[b].size
         /\ Malloc!Whole(n, b) <=> Malloc!Whole(h, b)
<1>0. /\ n.brk = h.brk /\ n.head = h.head
      /\ \A a \in Malloc!Units : a \notin b + 1 .. b + h.unit[b].size => n.unit[a] = h.unit[a]
  BY DEF Rewritten
<1>1. /\ b \in Malloc!Units /\ h.unit[b].size \in Nat
      /\ End(h, b) \in Malloc!Units /\ End(h, b) = b + h.unit[b].size + 1
      /\ \A s \in S : s <= b \/ s >= End(h, b) + 1
  BY BlockOK
<1>2. \A c \in H \cup Listed(h) : c \in Malloc!Units /\ c \in S
  BY BlockOK DEF Shape
<1>3. \A c \in H \cup Listed(h) : n.unit[c] = h.unit[c]
  <2> SUFFICES ASSUME NEW c \in H \cup Listed(h) PROVE n.unit[c] = h.unit[c]
    OBVIOUS
  <2>1. c <= b \/ c >= End(h, b) + 1
    BY <1>1, <1>2
  <2>2. c \notin b + 1 .. b + h.unit[b].size
    BY <1>1, <1>2, <2>1 DEF Malloc!Units
  <2> QED BY <1>0, <1>2, <2>2
<1>4. Listed(n) = Listed(h) /\ Distinct(n.head)
  BY <1>0 DEF Listed, Shape
<1>5. ASSUME NEW s \in S, s > 1 PROVE n.unit[s - 1].size = h.unit[s - 1].size
  <2>1. s - 1 \in Malloc!Units
    BY <1>5, FooterOK
  <2>2. s <= b \/ s >= End(h, b) + 1
    BY <1>1
  <2>3. s \in Int
    BY HeapOK DEF Shape, Heaps
  <2>4. s - 1 \notin b + 1 .. b + h.unit[b].size
    BY <1>1, <2>1, <2>2, <2>3 DEF Malloc!Units
  <2> QED BY <1>0, <2>1, <2>4
<1>6. \A c \in H \cup Listed(n) : n.unit[c].size = h.unit[c].size
  BY <1>3, <1>4
<1>7. /\ \A c \in H : n.unit[c].freed = 0
      /\ \A c \in Listed(n) : n.unit[c].freed = 1
  BY <1>3, <1>4 DEF Shape
<1>8. H \cup Listed(n) \subseteq H \cup Listed(h)
  BY <1>4
<1>9. Shape(n, H, S)
  BY <1>0, <1>4, <1>5, <1>6, <1>7, <1>8, SameTiling
<1>10. ASSUME NEW c \in H \ {b}
       PROVE  /\ n.unit[c].size = h.unit[c].size
              /\ n.unit[End(h, c)].size = h.unit[End(h, c)].size
              /\ Malloc!Whole(h, c) => \A a \in c + 1 .. c + h.unit[c].size : n.unit[a] = h.unit[a]
  <2>1. c \in H \cup Listed(h) /\ b \in H \cup Listed(h) /\ b # c
    OBVIOUS
  <2>2. /\ c \in Malloc!Units /\ h.unit[c].size \in Nat
        /\ End(h, c) \in Malloc!Units /\ End(h, c) = c + h.unit[c].size + 1
    BY ONLY <2>1, h \in Heaps, Shape(h, H, S), BlockOK
  <2>3. \A x \in b .. End(h, b), y \in c .. End(h, c) : x # y
    BY ONLY <2>1, h \in Heaps, Shape(h, H, S), Apart
  <2>4. \A a \in c .. End(h, c) : a \in Malloc!Units
    BY HeapOK, <2>2 DEF Malloc!Units
  <2>5. \A a \in b + 1 .. b + h.unit[b].size : a \in b .. End(h, b)
    BY <1>1 DEF Malloc!Units
  <2>6. \A a \in c .. End(h, c) : n.unit[a] = h.unit[a]
    BY <1>0, <2>3, <2>4, <2>5
  <2>7. c \in c .. End(h, c) /\ End(h, c) \in c .. End(h, c)
    BY <2>2 DEF Malloc!Units
  <2>8. \A a \in c + 1 .. c + h.unit[c].size : a \in c .. End(h, c)
    BY <2>2 DEF Malloc!Units
  <2> QED BY <2>6, <2>7, <2>8
<1>11. Keeps(h, n, H \ {b})
  BY <1>10, KeepsWhen
<1>12. n.unit[b] = h.unit[b] /\ n.unit[End(h, b)] = h.unit[End(h, b)]
  <2>1. End(h, b) \notin b + 1 .. b + h.unit[b].size
    BY <1>1 DEF Malloc!Units
  <2> QED BY <1>0, <1>1, <1>3, <2>1
<1>13. Malloc!Whole(n, b) <=> Malloc!Whole(h, b)
  BY <1>12 DEF Malloc!Whole, End
<1> QED BY <1>9, <1>11, <1>12, <1>13

\* split leaves size units to the block at b, which ends at e, and the rest to one at r.
Divided(h, n, b, want, r, e) ==
  /\ r = b + want + 2 /\ e = End(h, b)
  /\ n.brk = h.brk /\ n.head = <<r>> \o h.head
  /\ n.unit[b].size = want /\ n.unit[b].freed = 0 /\ n.unit[r - 1].size = want
  /\ n.unit[r].size = h.unit[b].size - want - 2 /\ n.unit[r].freed = 1
  /\ n.unit[e].size = h.unit[b].size - want - 2
  /\ \A a \in Malloc!Units : a \notin {b, r - 1, r, e} => n.unit[a] = h.unit[a]

LEMMA SplitShape ==
  ASSUME NEW h \in Heaps, NEW n \in Heaps, NEW H, NEW S, Shape(h, H, S), NEW b \in H,
         NEW want \in Nat, want + 2 <= h.unit[b].size,
         NEW r, NEW e, Divided(h, n, b, want, r, e)
  PROVE  Shape(n, H, S \cup {r}) /\ Keeps(h, n, H \ {b})
<1> DEFINE S2 == S \cup {r}
<1>0. PICK total : total = h.unit[b].size
  OBVIOUS
<1>17. /\ r = b + want + 2 /\ e = End(h, b)
       /\ n.brk = h.brk /\ n.head = <<r>> \o h.head
  BY DEF Divided
<1>18. /\ n.unit[b].size = want /\ n.unit[b].freed = 0 /\ n.unit[r - 1].size = want
       /\ n.unit[r].size = total - want - 2 /\ n.unit[r].freed = 1
       /\ n.unit[e].size = total - want - 2
  BY <1>0 DEF Divided
<1>19. \A a \in Malloc!Units : a \notin {b, r - 1, r, e} => n.unit[a] = h.unit[a]
  BY DEF Divided
<1>1. /\ b \in Malloc!Units /\ total \in Nat /\ e \in Malloc!Units /\ e <= h.brk
      /\ e = b + total + 1
      /\ \A s \in S : s <= b \/ s >= e + 1
  BY <1>0, <1>17, BlockOK
<1>2. /\ S \subseteq 1 .. h.brk + 1 /\ h.brk + 1 \in S /\ h.brk \in Nat
      /\ H \subseteq S /\ Listed(h) \subseteq S /\ e + 1 \in S /\ b \in S
  BY HeapOK, <1>17 DEF Shape, Heaps
<1>3. /\ r \in Malloc!Units /\ r - 1 \in Malloc!Units /\ b < r - 1 /\ r < e /\ r \in Nat
      /\ b \in Nat /\ e \in Nat
  <2>1. r = b + want + 2 /\ e = b + total + 1 /\ want + 2 <= total
    BY <1>0, <1>1, <1>17
  <2>2. b \in Nat /\ e \in Nat /\ b >= 1 /\ e <= HeapSize /\ HeapSize \in Nat
    BY HeapOK, <1>1 DEF Malloc!Units
  <2>3. r \in Nat /\ b < r - 1 /\ r < e
    BY <1>1, <2>1, <2>2
  <2>4. r \in Malloc!Units /\ r - 1 \in Malloc!Units
    BY <2>2, <2>3 DEF Malloc!Units
  <2> QED BY <2>2, <2>3, <2>4
<1>4. r \notin S
  BY <1>1, <1>3
<1>5. h.head \in Seq(Malloc!Units) /\ Distinct(h.head) /\ r \notin Members(h.head)
  BY <1>2, <1>4 DEF Heaps, Shape, Listed
<1>6. Listed(n) = Listed(h) \cup {r} /\ Distinct(n.head)
  BY <1>3, <1>5, <1>17, Pushed DEF Listed
<1>7. S2 \subseteq 1 .. n.brk + 1 /\ n.brk + 1 \in S2
  BY <1>1, <1>2, <1>3, <1>17
<1>8. H \subseteq S2 /\ Listed(n) \subseteq S2
  BY <1>2, <1>6
<1>9. ASSUME NEW c \in H \cup Listed(h), c # b
      PROVE  /\ c \in Malloc!Units /\ h.unit[c].size \in Nat /\ End(h, c) \in Malloc!Units
             /\ End(h, c) = c + h.unit[c].size + 1
             /\ \A s \in S : s <= c \/ s >= End(h, c) + 1
             /\ c \in S /\ End(h, c) + 1 \in S /\ c <= h.brk
             /\ \A a \in c .. End(h, c) : n.unit[a] = h.unit[a]
  <2>1. /\ c \in Malloc!Units /\ h.unit[c].size \in Nat /\ End(h, c) \in Malloc!Units
        /\ End(h, c) = c + h.unit[c].size + 1
        /\ \A s \in S : s <= c \/ s >= End(h, c) + 1
    BY ONLY <1>9, h \in Heaps, Shape(h, H, S), BlockOK
  <2>2. c \in S /\ End(h, c) + 1 \in S /\ c <= h.brk
    BY DEF Shape
  <2>3. b \in H \cup Listed(h)
    OBVIOUS
  <2>4. \A x \in b .. e, y \in c .. End(h, c) : x # y
    BY ONLY <1>9, <1>17, <2>3, h \in Heaps, Shape(h, H, S), Apart
  <2>5. \A a \in c .. End(h, c) : a \in Malloc!Units
    BY HeapOK, <2>1 DEF Malloc!Units
  <2>6. b \in b .. e /\ r - 1 \in b .. e /\ r \in b .. e /\ e \in b .. e
    BY <1>3
  <2>7. \A a \in c .. End(h, c) : n.unit[a] = h.unit[a]
    BY <1>19, <2>4, <2>5, <2>6
  <2> QED BY <2>1, <2>2, <2>7
<1>10. ASSUME NEW c \in H \cup Listed(n)
       PROVE  /\ c <= n.brk /\ End(n, c) + 1 \in S2
              /\ \A s \in S2 : s <= c \/ s > End(n, c)
  <2>1. CASE c = b
    <3>1. End(n, b) = r - 1
      BY <1>3, <1>17, <1>18 DEF End
    <3>2. \A s \in S : s <= b \/ s > r - 1
      BY <1>1, <1>2, <1>3
    <3>3. r > r - 1 /\ (r - 1) + 1 = r /\ b <= h.brk
      BY <1>1, <1>2, <1>3
    <3> QED BY <1>17, <2>1, <3>1, <3>2, <3>3
  <2>2. CASE c = r
    <3>1. End(n, r) = e
      <4>1. End(n, r) = r + (total - want - 2) + 1
        BY <1>18 DEF End
      <4> QED BY <1>1, <1>3, <1>17, <4>1
    <3>2. ASSUME NEW s \in S PROVE s <= r \/ s > e
      <4>1. s \in Nat /\ (s <= b \/ s >= e + 1)
        BY <1>1, <1>2
      <4> QED BY <1>3, <4>1
    <3> QED BY <1>1, <1>2, <1>3, <1>17, <2>2, <3>1, <3>2
  <2>3. CASE c # b /\ c # r
    <3>1. c \in H \cup Listed(h)
      BY <1>6, <2>3
    <3>2. /\ c \in Malloc!Units /\ h.unit[c].size \in Nat /\ End(h, c) \in Malloc!Units
          /\ End(h, c) = c + h.unit[c].size + 1
          /\ \A s \in S : s <= c \/ s >= End(h, c) + 1
          /\ c \in S /\ End(h, c) + 1 \in S /\ c <= h.brk
          /\ \A a \in c .. End(h, c) : n.unit[a] = h.unit[a]
      BY <1>9, <2>3, <3>1
    <3>3. c \in c .. End(h, c)
      BY <3>2 DEF Malloc!Units
    <3>4. End(n, c) = End(h, c)
      BY <3>2, <3>3 DEF End
    <3>5. r <= c \/ r > End(h, c)
      <4>1. c <= b \/ c >= e + 1
        BY <1>1, <3>2
      <4>2. b <= c \/ b >= End(h, c) + 1
        BY <1>2, <3>2
      <4> QED BY <1>3, <2>3, <3>2, <4>1, <4>2 DEF Malloc!Units
    <3>6. \A s \in S : s <= c \/ s > End(h, c)
      BY <3>1 DEF Shape
    <3> QED BY <1>17, <3>2, <3>4, <3>5, <3>6
  <2> QED BY <2>1, <2>2, <2>3
<1>11. ASSUME NEW s \in S2, s > 1
       PROVE  Before(n, s) >= 1 /\ \A x \in S2 : x <= Before(n, s) \/ x >= s
  <2>1. CASE s = r
    <3>1. Before(n, s) = b
      <4>1. Before(n, s) = r - 2 - want
        BY <1>18, <2>1 DEF Before
      <4> QED BY <1>3, <1>17, <4>1
    <3>2. ASSUME NEW x \in S PROVE x <= b \/ x >= r
      <4>1. x \in Nat /\ (x <= b \/ x >= e + 1)
        BY <1>1, <1>2
      <4> QED BY <1>3, <4>1
    <3> QED BY <1>1, <1>3, <2>1, <3>1, <3>2 DEF Malloc!Units
  <2>2. CASE s = e + 1
    <3>1. Before(n, s) = r
      <4>1. s - 1 = e
        BY <1>3, <2>2
      <4>2. Before(n, s) = s - 2 - (total - want - 2)
        BY ONLY <1>18, <4>1 DEF Before
      <4>3. r = b + want + 2 /\ e = b + total + 1 /\ b \in Nat /\ total \in Nat
        BY <1>1, <1>3, <1>17
      <4> QED BY ONLY <2>2, <4>2, <4>3, want \in Nat
    <3>2. ASSUME NEW x \in S PROVE x <= r \/ x >= e + 1
      <4>1. x \in Nat /\ (x <= b \/ x >= e + 1)
        BY <1>1, <1>2
      <4> QED BY <1>3, <4>1
    <3> QED BY <1>3, <2>2, <3>1, <3>2
  <2>3. CASE s # r /\ s # e + 1
    <3>1. s \in S /\ s \in Nat
      BY <1>2, <2>3
    <3>2. s <= b \/ s >= e + 1
      BY <1>1, <3>1
    <3>3. /\ s - 1 \in Malloc!Units /\ Before(h, s) = s - 2 - h.unit[s - 1].size
          /\ Before(h, s) \in Malloc!Units
          /\ \A x \in S : x <= Before(h, s) \/ x >= s
      BY <1>11, <3>1, FooterOK
    <3>4. s - 1 \notin {b, r - 1, r, e}
      BY <1>3, <2>3, <3>1, <3>2
    <3>5. Before(n, s) = Before(h, s)
      BY <1>19, <3>3, <3>4 DEF Before
    <3>6. r <= Before(h, s) \/ r >= s
      <4>1. e + 1 <= Before(h, s) \/ e + 1 >= s
        BY <1>2, <3>3
      <4> QED BY <1>3, <2>3, <3>1, <3>2, <3>3, <4>1 DEF Malloc!Units
    <3> QED BY <3>3, <3>5, <3>6 DEF Malloc!Units
  <2> QED BY <2>1, <2>2, <2>3
<1>12. \A c \in H : n.unit[c].freed = 0
  <2> SUFFICES ASSUME NEW c \in H PROVE n.unit[c].freed = 0
    OBVIOUS
  <2>1. CASE c = b
    BY <1>18, <2>1
  <2>2. CASE c # b
    <3>1. n.unit[c] = h.unit[c]
      <4>1. c \in c .. End(h, c)
        BY <1>9, <2>2 DEF Malloc!Units
      <4> QED BY <1>9, <2>2, <4>1
    <3> QED BY <3>1 DEF Shape
  <2> QED BY <2>1, <2>2
<1>13. \A c \in Listed(n) : n.unit[c].freed = 1
  <2> SUFFICES ASSUME NEW c \in Listed(n) PROVE n.unit[c].freed = 1
    OBVIOUS
  <2>1. CASE c = r
    BY <1>18, <2>1
  <2>2. CASE c # r
    <3>1. c \in Listed(h) /\ h.unit[c].freed = 1 /\ c # b
      BY <1>6, <2>2 DEF Shape
    <3>2. n.unit[c] = h.unit[c]
      <4>1. c \in c .. End(h, c)
        BY <1>9, <3>1 DEF Malloc!Units
      <4> QED BY <1>9, <3>1, <4>1
    <3> QED BY <3>1, <3>2
  <2> QED BY <2>1, <2>2
<1>14. ASSUME NEW c \in H \ {b}
       PROVE  /\ n.unit[c].size = h.unit[c].size
              /\ n.unit[End(h, c)].size = h.unit[End(h, c)].size
              /\ Malloc!Whole(h, c) => \A a \in c + 1 .. c + h.unit[c].size : n.unit[a] = h.unit[a]
  <2>1. /\ c \in Malloc!Units /\ h.unit[c].size \in Nat /\ End(h, c) \in Malloc!Units
        /\ End(h, c) = c + h.unit[c].size + 1
        /\ \A a \in c .. End(h, c) : n.unit[a] = h.unit[a]
    BY <1>9
  <2>2. c \in c .. End(h, c) /\ End(h, c) \in c .. End(h, c)
    BY <2>1 DEF Malloc!Units
  <2>3. \A a \in c + 1 .. c + h.unit[c].size : a \in c .. End(h, c)
    BY <2>1 DEF Malloc!Units
  <2> QED BY <2>1, <2>2, <2>3
<1>15. Keeps(h, n, H \ {b})
  BY <1>14, KeepsWhen
<1> HIDE DEF S2
<1>16. Shape(n, H, S2)
  BY <1>6, <1>7, <1>8, <1>17, <1>10, <1>11, <1>12, <1>13 DEF Shape
<1> QED BY <1>15, <1>16 DEF S2

\* malloc makes a block at p, the first unit behind the break.
Extended(h, n, want, p) ==
  /\ p = h.brk + 1 /\ n.brk = h.brk + want + 2 /\ n.head = h.head
  /\ n.unit[p].size = want /\ n.unit[p].freed = 0 /\ n.unit[n.brk].size = want
  /\ \A a \in Malloc!Units : a # p /\ a # n.brk => n.unit[a] = h.unit[a]

LEMMA SbrkShape ==
  ASSUME NEW h \in Heaps, NEW n \in Heaps, NEW H, NEW S, Shape(h, H, S), NEW want \in Nat,
         NEW p, Extended(h, n, want, p)
  PROVE  /\ Shape(n, H \cup {p}, S \cup {n.brk + 1})
         /\ Keeps(h, n, H) /\ p \notin H
<1> DEFINE S2 == S \cup {n.brk + 1}
           H2 == H \cup {p}
<1>0. /\ p = h.brk + 1 /\ n.brk = h.brk + want + 2 /\ n.head = h.head
      /\ n.unit[p].size = want /\ n.unit[p].freed = 0 /\ n.unit[n.brk].size = want
      /\ \A a \in Malloc!Units : a # p /\ a # n.brk => n.unit[a] = h.unit[a]
  BY DEF Extended
<1>1. /\ h.brk \in Nat /\ n.brk \in Nat /\ n.brk <= HeapSize /\ p \in Nat
      /\ h.brk < p /\ p < n.brk
  BY <1>0, HeapOK DEF Heaps
<1>2. /\ S \subseteq 1 .. h.brk + 1 /\ h.brk + 1 \in S /\ H \subseteq S
      /\ Listed(h) \subseteq S
  BY DEF Shape
<1>3. Listed(n) = Listed(h) /\ Distinct(n.head)
  BY <1>0 DEF Listed, Shape
<1>4. ASSUME NEW c \in H \cup Listed(h)
      PROVE  /\ c \in Malloc!Units /\ h.unit[c].size \in Nat /\ End(h, c) \in Malloc!Units
             /\ End(h, c) <= h.brk /\ c < p
             /\ End(h, c) = c + h.unit[c].size + 1
             /\ \A a \in c .. End(h, c) : n.unit[a] = h.unit[a]
  <2>1. /\ c \in Malloc!Units /\ h.unit[c].size \in Nat /\ End(h, c) \in Malloc!Units
        /\ End(h, c) <= h.brk
        /\ End(h, c) = c + h.unit[c].size + 1
    BY BlockOK
  <2>2. c < p /\ \A a \in c .. End(h, c) : a \in Malloc!Units /\ a # p /\ a # n.brk
    BY <1>0, HeapOK, <1>1, <2>1 DEF Malloc!Units
  <2> QED BY <1>0, <2>1, <2>2
<1>5. p \notin H
  BY <1>0, <1>1, <1>4 DEF Malloc!Units
<1>6. S2 \subseteq 1 .. n.brk + 1 /\ n.brk + 1 \in S2
  <2>1. S \subseteq 1 .. n.brk + 1
    BY <1>1, <1>2
  <2>2. n.brk + 1 \in 1 .. n.brk + 1
    BY <1>1
  <2> QED BY <2>1, <2>2
<1>7. H2 \subseteq S2 /\ Listed(n) \subseteq S2
  BY <1>0, <1>2, <1>3
<1>8. ASSUME NEW c \in H2 \cup Listed(n)
      PROVE  /\ c <= n.brk /\ End(n, c) + 1 \in S2
             /\ \A s \in S2 : s <= c \/ s > End(n, c)
  <2>1. CASE c = p
    <3>1. End(n, p) = n.brk
      <4>1. End(n, p) = p + want + 1
        BY <1>0 DEF End
      <4> QED BY <1>0, <1>1, <4>1
    <3>2. \A s \in S : s <= p
      BY <1>0, <1>1, <1>2
    <3> QED BY <1>0, <1>1, <2>1, <3>1, <3>2
  <2>2. CASE c # p
    <3>1. c \in H \cup Listed(h)
      BY <1>0, <1>3, <2>2
    <3>2. /\ c \in Malloc!Units /\ End(h, c) \in Malloc!Units /\ End(h, c) <= h.brk
          /\ End(h, c) = c + h.unit[c].size + 1 /\ h.unit[c].size \in Nat
          /\ \A a \in c .. End(h, c) : n.unit[a] = h.unit[a]
      BY <1>0, <1>4, <3>1
    <3>3. c \in c .. End(h, c)
      BY <1>0, <3>2 DEF Malloc!Units
    <3>4. End(n, c) = End(h, c)
      BY <1>0, <3>2, <3>3 DEF End
    <3>5. c <= h.brk /\ End(h, c) + 1 \in S /\ \A s \in S : s <= c \/ s > End(h, c)
      BY <1>0, <3>1 DEF Shape
    <3>6. n.brk + 1 > End(h, c) /\ c <= n.brk
      BY <1>0, <1>1, <3>2, <3>5 DEF Malloc!Units
    <3> QED BY <1>0, <3>4, <3>5, <3>6
  <2> QED BY <1>0, <2>1, <2>2
<1>9. ASSUME NEW s \in S2, s > 1
      PROVE  Before(n, s) >= 1 /\ \A x \in S2 : x <= Before(n, s) \/ x >= s
  <2>1. CASE s = n.brk + 1
    <3>1. Before(n, s) = p
      <4>1. s - 1 = n.brk
        BY <1>0, <1>1, <2>1
      <4>2. Before(n, s) = s - 2 - want
        BY <1>0, <4>1 DEF Before
      <4> QED BY <1>0, <1>1, <2>1, <4>2
    <3>2. \A x \in S : x <= p
      BY <1>0, <1>1, <1>2
    <3> QED BY <1>0, <1>1, <2>1, <3>1, <3>2
  <2>2. CASE s # n.brk + 1
    <3>1. s \in S /\ s \in Nat /\ s <= h.brk + 1
      BY <1>0, <1>1, <1>2, <2>2
    <3>2. /\ s - 1 \in Malloc!Units /\ Before(h, s) = s - 2 - h.unit[s - 1].size
          /\ Before(h, s) \in Malloc!Units
          /\ \A x \in S : x <= Before(h, s) \/ x >= s
      BY <1>0, <1>9, <3>1, FooterOK
    <3>3. s - 1 # p /\ s - 1 # n.brk
      BY <1>0, <1>1, <3>1
    <3>4. Before(n, s) = Before(h, s)
      BY <1>0, <3>2, <3>3 DEF Before
    <3>5. n.brk + 1 >= s
      BY <1>0, <1>1, <3>1
    <3> QED BY <1>0, <3>2, <3>4, <3>5 DEF Malloc!Units
  <2> QED BY <1>0, <2>1, <2>2
<1>10. \A c \in H \cup Listed(h) : n.unit[c] = h.unit[c]
  <2> SUFFICES ASSUME NEW c \in H \cup Listed(h) PROVE n.unit[c] = h.unit[c]
    OBVIOUS
  <2>1. c \in c .. End(h, c)
    BY <1>0, <1>4 DEF Malloc!Units
  <2> QED BY <1>0, <1>4, <2>1
<1>11. /\ \A c \in H2 : n.unit[c].freed = 0
       /\ \A c \in Listed(n) : n.unit[c].freed = 1
  BY <1>0, <1>3, <1>10 DEF Shape
<1>12. ASSUME NEW c \in H
       PROVE  /\ n.unit[c].size = h.unit[c].size
              /\ n.unit[End(h, c)].size = h.unit[End(h, c)].size
              /\ Malloc!Whole(h, c) => \A a \in c + 1 .. c + h.unit[c].size : n.unit[a] = h.unit[a]
  <2>1. /\ c \in Malloc!Units /\ h.unit[c].size \in Nat /\ End(h, c) \in Malloc!Units
        /\ End(h, c) = c + h.unit[c].size + 1
        /\ \A a \in c .. End(h, c) : n.unit[a] = h.unit[a]
    BY <1>0, <1>4
  <2>2. End(h, c) \in c .. End(h, c)
    BY <1>0, <2>1 DEF Malloc!Units
  <2>3. \A a \in c + 1 .. c + h.unit[c].size : a \in c .. End(h, c)
    BY <1>0, <2>1 DEF Malloc!Units
  <2> QED BY <1>0, <1>10, <2>1, <2>2, <2>3
<1>13. Keeps(h, n, H)
  BY <1>0, <1>12, KeepsWhen
<1> HIDE DEF S2, H2
<1>14. Shape(n, H2, S2)
  BY <1>0, <1>3, <1>6, <1>7, <1>8, <1>9, <1>11 DEF Shape
<1> QED BY <1>0, <1>5, <1>13, <1>14 DEF S2, H2
---------------------------------------------------------------------------
(* The calls on heaps.                                                     *)

LEMMA FreeOK ==
  ASSUME NEW h \in Heaps, NEW H, NEW S, Shape(h, H, S), NEW b \in H, NEW n, n = Malloc!Freed(h, b + 1)
  PROVE  /\ n \in Heaps
         /\ \E S2 : Shape(n, H \ {b}, S2)
         /\ Keeps(h, n, H \ {b})
<1>1. b \in Malloc!Units /\ b \in Nat /\ h.unit[b].size \in Nat /\ b \in S
  <2>1. b \in Malloc!Units /\ h.unit[b].size \in Nat
    BY BlockOK
  <2>2. b \in S
    BY DEF Shape
  <2> QED BY <2>1, <2>2 DEF Malloc!Units
<1>2. h.unit[b].freed = 0
  BY DEF Shape
<1>3. (b + 1) - 1 = b /\ (b + 1) - 2 = b - 1
  BY <1>1
<1>4. h.unit \in [Malloc!Units -> Unit] /\ h.head \in Seq(Malloc!Units) /\ h.brk \in 0 .. HeapSize
  BY DEF Heaps
<1>5. h = [unit |-> h.unit, head |-> h.head, brk |-> h.brk]
  BY DEF Heaps
<1>6. CASE Malloc!Merges(h, b + 1)
  <2> DEFINE p == Malloc!LeftOf(h, b + 1)
  <2>1. Malloc!Read(h, p).freed # 0
    BY <1>6 DEF Malloc!Merges
  <2>2. p = b - 1 - Malloc!Read(h, b - 1).size - 1
    BY <1>3 DEF Malloc!LeftOf
  <2> HIDE DEF p
  <2>3. b > 1
    <3> SUFFICES ASSUME b = 1 PROVE FALSE
      BY <1>1 DEF Malloc!Units
    <3>1. b - 1 \notin Malloc!Units
      BY DEF Malloc!Units
    <3>2. Malloc!Read(h, b - 1).size = 0
      BY <3>1 DEF Malloc!Read, Malloc!Zero, Malloc!Meta
    <3>3. p \notin Malloc!Units
      BY <2>2, <3>2 DEF Malloc!Units
    <3> QED BY <2>1, <3>3 DEF Malloc!Read, Malloc!Zero, Malloc!Meta
  <2>4. b - 1 \in Malloc!Units /\ h.unit[b - 1].size \in Nat /\ Before(h, b) = b - 2 - h.unit[b - 1].size
        /\ Before(h, b) \in Malloc!Units
    BY <1>1, <2>3, FooterOK
  <2>5. p = Before(h, b) /\ p \in Malloc!Units
    <3>1. p = b - 1 - h.unit[b - 1].size - 1
      BY <2>2, <2>4 DEF Malloc!Read
    <3> QED BY <1>1, <2>4, <3>1
  <2>6. h.unit[p] \in Unit /\ h.unit[p].freed = 1
    BY <1>4, <2>1, <2>5 DEF Malloc!Read, Unit
  <2>7. n = [h EXCEPT !.unit[p].size = @ + h.unit[b].size + 2]
    BY <1>2, <1>3, <1>6 DEF Malloc!Freed, p
  <2>8. PICK v : v = [h.unit[p] EXCEPT !.size = h.unit[p].size + h.unit[b].size + 2]
    OBVIOUS
  <2>9. v \in Unit /\ v.size = h.unit[p].size + h.unit[b].size + 2 /\ v.freed = 1
    BY <1>1, <2>6, <2>8 DEF Unit
  <2>10. n.unit = [h.unit EXCEPT ![p] = v] /\ n.head = h.head /\ n.brk = h.brk
    BY <1>5, <2>7, <2>8
  <2>11. n.unit \in [Malloc!Units -> Unit] /\ n.unit[p] = v /\ \A a \in Malloc!Units : a # p => n.unit[a] = h.unit[a]
    BY <1>4, <2>5, <2>9, <2>10
  <2>12. n = [unit |-> n.unit, head |-> n.head, brk |-> n.brk]
    BY <1>5, <2>7
  <2>13. n \in Heaps
    BY <1>4, <2>10, <2>11, <2>12 DEF Heaps
  <2>14. Merged(h, n, b, p)
    BY <2>5, <2>6, <2>9, <2>10, <2>11 DEF Merged
  <2> QED BY <2>3, <2>13, <2>14, MergeShape
<1>7. CASE ~Malloc!Merges(h, b + 1)
  <2>1. n = [h EXCEPT !.head = <<b>> \o @, !.unit[b].freed = 1]
    BY <1>2, <1>3, <1>7 DEF Malloc!Freed
  <2>2. PICK v : v = [h.unit[b] EXCEPT !.freed = 1]
    OBVIOUS
  <2>3. v \in Unit /\ v.size = h.unit[b].size /\ v.freed = 1
    BY <1>1, <1>4, <2>2 DEF Unit
  <2>4. n.unit = [h.unit EXCEPT ![b] = v] /\ n.head = <<b>> \o h.head /\ n.brk = h.brk
    BY <1>5, <2>1, <2>2
  <2>5. n.unit \in [Malloc!Units -> Unit] /\ n.unit[b] = v /\ \A a \in Malloc!Units : a # b => n.unit[a] = h.unit[a]
    BY <1>1, <1>4, <2>3, <2>4
  <2>6. n = [unit |-> n.unit, head |-> n.head, brk |-> n.brk]
    BY <1>5, <2>1
  <2>7. n.head \in Seq(Malloc!Units)
    BY <1>1, <1>4, <2>4, Pushed
  <2>8. n \in Heaps
    BY <1>4, <2>4, <2>5, <2>6, <2>7 DEF Heaps
  <2>9. OnList(h, n, b)
    BY <2>3, <2>4, <2>5 DEF OnList
  <2> QED BY <2>8, <2>9, PushShape
<1> QED BY <1>6, <1>7

LEMMA FirstFits ==
  ASSUME NEW h \in Heaps, NEW want, Malloc!FirstFit(h, want) # 0
  PROVE  /\ Malloc!FirstFit(h, want) \in 1 .. Len(h.head)
         /\ h.unit[h.head[Malloc!FirstFit(h, want)]].size >= want
<1> DEFINE I == {i \in 1 .. Len(h.head) : h.unit[h.head[i]].size >= want}
<1>1. Malloc!FirstFit(h, want) = IF I # {} THEN Malloc!Min(I) ELSE 0
  BY DEF Malloc!FirstFit, Malloc!SelectInSeq
<1>2. I \in SUBSET Nat /\ I # {}
  BY <1>1
<1>3. \E i \in I : \A j \in I : i <= j
  <2> HIDE DEF I
  <2> QED BY <1>2, LeastNumber
<1>4. Malloc!FirstFit(h, want) \in I
  <2> HIDE DEF I
  <2> QED BY <1>1, <1>2, <1>3 DEF Malloc!Min
<1> QED BY <1>4

\* A call that gives ptr and leaves n where h was.
Gives(h, n, H, ptr, want) ==
  /\ n \in Heaps /\ ptr \in Malloc!Units /\ ptr - 1 \in Nat /\ ptr - 1 \notin H
  /\ \E S : Shape(n, H \cup {ptr - 1}, S)
  /\ Keeps(h, n, H)
  /\ want <= n.unit[ptr - 1].size

\* What split makes of h, its places and the size of the rest given.
SplitAt(h, b, want, f, r, e, k) ==
  [h EXCEPT !.unit = [@ EXCEPT ![b] = Malloc!Meta(want, 0), ![f] = Malloc!Meta(want, 0),
                               ![r] = Malloc!Meta(k, 1), ![e] = Malloc!Meta(k, 1)],
            !.head = <<r>> \o @]

LEMMA SplitOK ==
  ASSUME NEW h \in Heaps, NEW H, NEW S, Shape(h, H, S), NEW b \in H,
         NEW want \in Nat, want + 2 <= h.unit[b].size, NEW n, n = Malloc!split(h, b, want)
  PROVE  /\ n \in Heaps
         /\ \E S2 : Shape(n, H, S2)
         /\ Keeps(h, n, H \ {b})
         /\ n.unit[b].size = want
<1>1. PICK total : total = h.unit[b].size
  OBVIOUS
<1>2. PICK e : e = End(h, b)
  OBVIOUS
<1>3. PICK r : r = b + want + 2
  OBVIOUS
<1>4. PICK k : k = total - want - 2
  OBVIOUS
<1>5. PICK f : f = r - 1
  OBVIOUS
<1>6. /\ b \in Nat /\ b \in Malloc!Units /\ total \in Nat /\ e \in Malloc!Units /\ e \in Nat /\ e <= HeapSize
      /\ e = b + total + 1
  BY <1>1, <1>2, BlockOK DEF Malloc!Units
<1>7. /\ r \in Nat /\ f \in Nat /\ b < f /\ f < r /\ r < e /\ k \in Nat /\ k < WORD /\ b >= 1
  BY HeapOK, <1>1, <1>3, <1>4, <1>5, <1>6 DEF Malloc!Units
<1>8. r \in Malloc!Units /\ f \in Malloc!Units
  BY HeapOK, <1>6, <1>7 DEF Malloc!Units
<1>9. k % WORD = k
  BY HeapOK, <1>7
<1>10. b + 1 + want = f /\ f + 1 = r /\ b + 1 + total = e
  BY <1>3, <1>5, <1>6
<1>11. n = [h EXCEPT !.unit = [@ EXCEPT ![b] = Malloc!Meta(want, 0), ![f] = Malloc!Meta(want, 0),
                                        ![r] = Malloc!Meta(k, 1), ![e] = Malloc!Meta(k, 1)],
                     !.head = <<r>> \o @]
  <2>1. n = SplitAt(h, b, want, b + 1 + want, b + 1 + want + 1, b + 1 + h.unit[b].size,
                    (h.unit[b].size - want - 2) % WORD)
    BY DEF Malloc!split, SplitAt
  <2>2. n = SplitAt(h, b, want, f, r, e, k)
    BY <1>1, <1>4, <1>9, <1>10, <2>1
  <2> QED BY <2>2 DEF SplitAt
<1>12. h.unit \in [Malloc!Units -> Unit] /\ h.head \in Seq(Malloc!Units) /\ h.brk \in 0 .. HeapSize
  BY DEF Heaps
<1>13. h = [unit |-> h.unit, head |-> h.head, brk |-> h.brk]
  BY DEF Heaps
<1>14. PICK u : u = [h.unit EXCEPT ![b] = Malloc!Meta(want, 0), ![f] = Malloc!Meta(want, 0),
                                   ![r] = Malloc!Meta(k, 1), ![e] = Malloc!Meta(k, 1)]
  OBVIOUS
<1>15. n.unit = u /\ n.head = <<r>> \o h.head /\ n.brk = h.brk
  BY <1>11, <1>13, <1>14
<1>16. /\ u \in [Malloc!Units -> Unit] /\ u[b] = Malloc!Meta(want, 0) /\ u[f] = Malloc!Meta(want, 0)
       /\ u[r] = Malloc!Meta(k, 1) /\ u[e] = Malloc!Meta(k, 1)
       /\ \A a \in Malloc!Units : a \notin {b, f, r, e} => u[a] = h.unit[a]
  <2>1. Malloc!Meta(want, 0) \in Unit /\ Malloc!Meta(k, 1) \in Unit
    BY <1>7 DEF Malloc!Meta, Unit
  <2>2. b # f /\ b # r /\ b # e /\ f # r /\ f # e /\ r # e
    BY <1>6, <1>7
  <2> QED BY <1>6, <1>8, <1>12, <1>14, <2>1, <2>2
<1>17. n = [unit |-> n.unit, head |-> n.head, brk |-> n.brk]
  BY <1>11, <1>13
<1>18. n.head \in Seq(Malloc!Units)
  BY <1>8, <1>12, <1>15, Pushed
<1>19. n \in Heaps
  BY <1>12, <1>15, <1>16, <1>17, <1>18 DEF Heaps
<1>20. Divided(h, n, b, want, r, e)
  <2>1. /\ n.unit[b].size = want /\ n.unit[b].freed = 0 /\ n.unit[r - 1].size = want
        /\ n.unit[r].size = h.unit[b].size - want - 2 /\ n.unit[r].freed = 1
        /\ n.unit[e].size = h.unit[b].size - want - 2
    BY <1>1, <1>4, <1>5, <1>15, <1>16 DEF Malloc!Meta
  <2>2. \A a \in Malloc!Units : a \notin {b, r - 1, r, e} => n.unit[a] = h.unit[a]
    BY <1>5, <1>15, <1>16
  <2> QED BY <1>2, <1>3, <1>15, <2>1, <2>2 DEF Divided
<1>21. Shape(n, H, S \cup {r}) /\ Keeps(h, n, H \ {b})
  BY <1>19, <1>20, SplitShape
<1>22. n.unit[b].size = want
  BY <1>15, <1>16 DEF Malloc!Meta
<1> QED BY <1>19, <1>21, <1>22
LEMMA AllocFits ==
  ASSUME NEW h \in Heaps, NEW H, NEW S, Shape(h, H, S), NEW want \in Nat,
         Malloc!FirstFit(h, want) # 0,
         Malloc!Splits(h, want) => h.unit[h.head[Malloc!FirstFit(h, want)]].size - want >= 2
  PROVE  Gives(h, Malloc!Allocated(h, want).heap, H, Malloc!Allocated(h, want).ptr, want)
<1>1. PICK i : i = Malloc!FirstFit(h, want)
  OBVIOUS
<1>2. i \in 1 .. Len(h.head) /\ i # 0
  BY <1>1, FirstFits
<1>3. PICK b : b = h.head[i]
  OBVIOUS
<1>4. h.unit[b].size >= want
  BY <1>1, <1>3, FirstFits
<1>5. b \in Listed(h)
  BY <1>2, <1>3 DEF Listed, Members
<1>6. /\ b \in Malloc!Units /\ h.unit[b].size \in Nat /\ h.unit[b].freed = 1
      /\ End(h, b) \in Malloc!Units /\ End(h, b) = b + h.unit[b].size + 1
  <2>1. h.unit[b].freed = 1
    BY <1>5 DEF Shape
  <2> QED BY <1>5, <2>1, BlockOK
<1>7. h.unit \in [Malloc!Units -> Unit] /\ h.head \in Seq(Malloc!Units) /\ h.brk \in 0 .. HeapSize
  BY DEF Heaps
<1>8. h = [unit |-> h.unit, head |-> h.head, brk |-> h.brk]
  BY DEF Heaps
<1>9. PICK m : m = [h EXCEPT !.head = Malloc!RemoveAt(@, i), !.unit[b].freed = 0]
  OBVIOUS
<1>10. PICK v : v = [h.unit[b] EXCEPT !.freed = 0]
  OBVIOUS
<1>11. v \in Unit /\ v.size = h.unit[b].size /\ v.freed = 0
  BY <1>6, <1>7, <1>10 DEF Unit
<1>12. m.unit = [h.unit EXCEPT ![b] = v] /\ m.head = Malloc!RemoveAt(h.head, i) /\ m.brk = h.brk
  BY <1>8, <1>9, <1>10
<1>13. m.unit \in [Malloc!Units -> Unit] /\ m.unit[b] = v /\ \A a \in Malloc!Units : a # b => m.unit[a] = h.unit[a]
  BY <1>6, <1>7, <1>11, <1>12
<1>14. m = [unit |-> m.unit, head |-> m.head, brk |-> m.brk]
  BY <1>8, <1>9
<1>15. m.head \in Seq(Malloc!Units)
  <2>1. Distinct(h.head)
    BY DEF Shape
  <2> QED BY <1>2, <1>7, <1>12, <2>1, Removed
<1>16. m \in Heaps
  BY <1>7, <1>12, <1>13, <1>14, <1>15 DEF Heaps
<1>17. OffList(h, m, i, b)
  BY <1>3, <1>11, <1>12, <1>13 DEF OffList
<1>18. Shape(m, H \cup {b}, S) /\ Keeps(h, m, H) /\ b \notin H
  BY <1>2, <1>16, <1>17, TakeShape
<1>19. PICK n : n = IF Malloc!Splits(h, want) THEN Malloc!split(m, b, want) ELSE m
  OBVIOUS
<1>20. Malloc!Allocated(h, want).ptr = b + 1 /\ Malloc!Allocated(h, want).heap = n
  <2>1. Malloc!Allocated(h, want) = [ptr |-> b + 1, heap |-> n]
    BY <1>1, <1>2, <1>3, <1>9, <1>19 DEF Malloc!Allocated
  <2> QED BY <2>1
<1>21. m.unit[b].size = h.unit[b].size
  BY <1>11, <1>13
<1>22. b + 1 \in Malloc!Units /\ (b + 1) - 1 = b /\ b \in Nat
  BY HeapOK, <1>6 DEF Malloc!Units
<1>23. /\ n \in Heaps /\ \E S2 : Shape(n, H \cup {b}, S2)
       /\ Keeps(h, n, H) /\ want <= n.unit[b].size
  <2>1. CASE ~Malloc!Splits(h, want)
    BY <1>4, <1>16, <1>18, <1>19, <1>21, <2>1
  <2>2. CASE Malloc!Splits(h, want)
    <3>1. want + 2 <= m.unit[b].size
      BY <1>1, <1>3, <1>6, <1>21, <2>2
    <3>2. n = Malloc!split(m, b, want) /\ b \in H \cup {b}
      BY <1>19, <2>2
    <3>3. /\ n \in Heaps
          /\ \E S2 : Shape(n, H \cup {b}, S2)
          /\ Keeps(m, n, (H \cup {b}) \ {b})
          /\ n.unit[b].size = want
      BY ONLY <1>16, <1>18, <3>1, <3>2, want \in Nat, SplitOK
    <3>4. (H \cup {b}) \ {b} = H
      BY <1>18
    <3>5. Keeps(h, n, H)
      <4>1. Keeps(m, n, H) /\ Keeps(h, m, H)
        BY <1>18, <3>3, <3>4
      <4> QED BY <4>1 DEF Keeps
    <3> QED BY <3>3, <3>5
  <2> QED BY <2>1, <2>2
<1> QED BY <1>18, <1>20, <1>22, <1>23 DEF Gives

LEMMA AllocExtends ==
  ASSUME NEW h \in Heaps, NEW H, NEW S, Shape(h, H, S), NEW want \in Nat,
         Malloc!FirstFit(h, want) = 0, h.brk + want + 2 <= HeapSize
  PROVE  Gives(h, Malloc!Allocated(h, want).heap, H, Malloc!Allocated(h, want).ptr, want)
<1>1. PICK p : p = h.brk + 1
  OBVIOUS
<1>2. PICK e : e = h.brk + want + 2
  OBVIOUS
<1>3. h.unit \in [Malloc!Units -> Unit] /\ h.head \in Seq(Malloc!Units) /\ h.brk \in 0 .. HeapSize
  BY DEF Heaps
<1>4. h = [unit |-> h.unit, head |-> h.head, brk |-> h.brk]
  BY DEF Heaps
<1>5. p \in Malloc!Units /\ e \in Malloc!Units /\ p # e /\ p + 1 + want = e /\ e \in 0 .. HeapSize
  <2>1. h.brk \in Nat /\ HeapSize \in Nat
    BY HeapOK, <1>3
  <2>2. p \in Nat /\ e \in Nat /\ 1 <= p /\ p < e /\ e <= HeapSize /\ p + 1 + want = e
    BY ONLY <1>1, <1>2, <2>1, want \in Nat, h.brk + want + 2 <= HeapSize
  <2> QED BY <2>1, <2>2 DEF Malloc!Units
<1>6. PICK n : n = [h EXCEPT !.unit = [@ EXCEPT ![p] = Malloc!Meta(want, 0), ![e] = Malloc!Meta(want, 0)],
                             !.brk = @ + want + 2]
  OBVIOUS
<1>7. Malloc!Allocated(h, want).ptr = p + 1 /\ Malloc!Allocated(h, want).heap = n
  <2>1. ~(h.brk + want + 2 > HeapSize)
    BY HeapOK, <1>3
  <2>2. Malloc!Allocated(h, want) = [ptr |-> p + 1, heap |-> n]
    BY <1>1, <1>5, <1>6, <2>1 DEF Malloc!Allocated
  <2> QED BY <2>2
<1>8. PICK u : u = [h.unit EXCEPT ![p] = Malloc!Meta(want, 0), ![e] = Malloc!Meta(want, 0)]
  OBVIOUS
<1>9. n.unit = u /\ n.head = h.head /\ n.brk = e
  BY <1>2, <1>4, <1>6, <1>8
<1>10. /\ u \in [Malloc!Units -> Unit] /\ u[p] = Malloc!Meta(want, 0) /\ u[e] = Malloc!Meta(want, 0)
       /\ \A a \in Malloc!Units : a # p /\ a # e => u[a] = h.unit[a]
  <2>1. Malloc!Meta(want, 0) \in Unit
    BY DEF Malloc!Meta, Unit
  <2> QED BY <1>3, <1>5, <1>8, <2>1
<1>11. n = [unit |-> n.unit, head |-> n.head, brk |-> n.brk]
  BY <1>4, <1>6
<1>12. n \in Heaps
  BY <1>3, <1>5, <1>9, <1>10, <1>11 DEF Heaps
<1>13. Extended(h, n, want, p)
  BY <1>1, <1>2, <1>9, <1>10 DEF Extended, Malloc!Meta
<1>14. /\ Shape(n, H \cup {p}, S \cup {n.brk + 1})
       /\ Keeps(h, n, H) /\ p \notin H
  BY <1>12, <1>13, SbrkShape
<1>15. p + 1 \in Malloc!Units /\ (p + 1) - 1 = p /\ p \in Nat
  <2>1. p \in Nat /\ e \in Nat /\ HeapSize \in Nat /\ e <= HeapSize /\ 1 <= p
    BY HeapOK, <1>5 DEF Malloc!Units
  <2>2. p + 1 \in Nat /\ p + 1 <= HeapSize /\ 1 <= p + 1 /\ (p + 1) - 1 = p
    BY ONLY <1>5, <2>1, want \in Nat
  <2> QED BY <2>1, <2>2 DEF Malloc!Units
<1>16. want <= n.unit[p].size
  BY <1>9, <1>10 DEF Malloc!Meta
<1> QED BY <1>7, <1>12, <1>14, <1>15, <1>16 DEF Gives

LEMMA AllocOK ==
  ASSUME NEW h \in Heaps, NEW H, NEW S, Shape(h, H, S), NEW want \in Nat,
         Malloc!Splits(h, want) => h.unit[h.head[Malloc!FirstFit(h, want)]].size - want >= 2
  PROVE  \/ Malloc!Allocated(h, want).ptr = Malloc!NULL /\ Malloc!Allocated(h, want).heap = h
         \/ /\ Malloc!Allocated(h, want).ptr # Malloc!NULL
            /\ Gives(h, Malloc!Allocated(h, want).heap, H, Malloc!Allocated(h, want).ptr, want)
<1>1. ASSUME Gives(h, Malloc!Allocated(h, want).heap, H, Malloc!Allocated(h, want).ptr, want)
      PROVE  Malloc!Allocated(h, want).ptr # Malloc!NULL
  BY <1>1 DEF Gives, Malloc!Units, Malloc!NULL
<1>2. CASE Malloc!FirstFit(h, want) # 0
  BY <1>1, <1>2, AllocFits
<1>3. CASE Malloc!FirstFit(h, want) = 0 /\ h.brk + want + 2 <= HeapSize
  BY <1>1, <1>3, AllocExtends
<1>4. CASE Malloc!FirstFit(h, want) = 0 /\ ~(h.brk + want + 2 <= HeapSize)
  <2>1. h.brk + want + 2 > HeapSize
    BY HeapOK, <1>4 DEF Heaps
  <2>2. Malloc!Allocated(h, want) = [ptr |-> Malloc!NULL, heap |-> h]
    BY <1>4, <2>1 DEF Malloc!Allocated
  <2> QED BY <2>2
<1> QED BY <1>2, <1>3, <1>4
---------------------------------------------------------------------------
(* The invariant, and how the calls keep it.                               *)

Headers(x) == {ptr - 1 : ptr \in {a \in Malloc!Units : x[a] # Malloc!NotHeld}}

\* A heap h, and what the program holds of it.
Kept(h, x) ==
  /\ h \in Heaps /\ x \in [Malloc!Units -> Holding \cup {Malloc!NotHeld}]
  /\ \E S : Shape(h, Headers(x), S)
  /\ \A ptr \in Malloc!Units : x[ptr] # Malloc!NotHeld => KeptAt(h, x[ptr], ptr - 1)

HeapInv == ~wrapped => Kept(heap, held)

LEMMA HeldHeaders ==
  ASSUME NEW x \in [Malloc!Units -> Holding \cup {Malloc!NotHeld}], NEW ptr \in Malloc!Units
  PROVE  /\ \A w \in Holding : Headers([x EXCEPT ![ptr] = w]) = Headers(x) \cup {ptr - 1}
         /\ Headers([x EXCEPT ![ptr] = Malloc!NotHeld]) = Headers(x) \ {ptr - 1}
         /\ x[ptr] # Malloc!NotHeld <=> ptr - 1 \in Headers(x)
<1>1. \A a \in Malloc!Units : a \in Int
  BY DEF Malloc!Units
<1>2. \A w \in Holding : w # Malloc!NotHeld
  <2>1. \A w \in Holding : w.size \in Nat
    BY DEF Holding
  <2>2. Malloc!NotHeld.size = -1
    BY DEF Malloc!NotHeld
  <2> QED BY <2>1, <2>2
<1>3. ASSUME NEW w \in Holding PROVE Headers([x EXCEPT ![ptr] = w]) = Headers(x) \cup {ptr - 1}
  <2>1. PICK y : y = [x EXCEPT ![ptr] = w]
    OBVIOUS
  <2>2. y[ptr] # Malloc!NotHeld /\ \A a \in Malloc!Units : a # ptr => y[a] = x[a]
    BY <1>2, <2>1
  <2>3. \A a \in Malloc!Units : y[a] # Malloc!NotHeld <=> (x[a] # Malloc!NotHeld \/ a = ptr)
    BY <2>2
  <2>4. Headers(y) = Headers(x) \cup {ptr - 1}
    BY <2>3 DEF Headers
  <2> QED BY <2>1, <2>4
<1>4. Headers([x EXCEPT ![ptr] = Malloc!NotHeld]) = Headers(x) \ {ptr - 1}
  <2>1. PICK y : y = [x EXCEPT ![ptr] = Malloc!NotHeld]
    OBVIOUS
  <2>2. \A a \in Malloc!Units : y[a] # Malloc!NotHeld <=> (x[a] # Malloc!NotHeld /\ a # ptr)
    BY <2>1
  <2>3. \A a \in Malloc!Units : a - 1 = ptr - 1 <=> a = ptr
    BY <1>1
  <2>4. Headers(y) = Headers(x) \ {ptr - 1}
    <3>1. ASSUME NEW c \in Headers(y) PROVE c \in Headers(x) \ {ptr - 1}
      BY <2>2, <2>3 DEF Headers
    <3>2. ASSUME NEW c \in Headers(x), c # ptr - 1 PROVE c \in Headers(y)
      BY <2>2, <2>3, <3>2 DEF Headers
    <3> QED BY <3>1, <3>2
  <2> QED BY <2>1, <2>4
<1>5. x[ptr] # Malloc!NotHeld <=> ptr - 1 \in Headers(x)
  <2>1. \A a \in Malloc!Units : a - 1 = ptr - 1 <=> a = ptr
    BY <1>1
  <2> QED BY <2>1 DEF Headers
<1> QED BY <1>3, <1>4, <1>5

\* What the other pointers hold is kept.
LEMMA OthersKept ==
  ASSUME NEW h, NEW x, Kept(h, x), NEW n, NEW H, Keeps(h, n, H), H \subseteq Headers(x)
  PROVE  \A a \in Malloc!Units : x[a] # Malloc!NotHeld /\ a - 1 \in H => KeptAt(n, x[a], a - 1)
<1> SUFFICES ASSUME NEW a \in Malloc!Units, x[a] # Malloc!NotHeld, a - 1 \in H PROVE KeptAt(n, x[a], a - 1)
  OBVIOUS
<1>1. KeptAt(h, x[a], a - 1) /\ h \in Heaps
  BY DEF Kept
<1>2. x[a] \in Holding
  BY DEF Kept
<1>3. x[a].size \in Nat /\ x[a].known \in Nat
  BY <1>2 DEF Holding
<1>4. a - 1 \in Nat /\ h.unit[a - 1].size \in Nat
  <2>1. PICK S : Shape(h, Headers(x), S)
    BY DEF Kept
  <2>2. a - 1 \in Malloc!Units /\ h.unit[a - 1].size \in Nat
    BY <1>1, <2>1, BlockOK
  <2> QED BY <2>2 DEF Malloc!Units
<1> QED BY <1>1, <1>3, <1>4, KeptOn

LEMMA GivenKept ==
  ASSUME NEW h, NEW x, Kept(h, x), NEW n, NEW ptr, NEW want \in Nat,
         Gives(h, n, Headers(x), ptr, want), NEW w \in Holding, KeptAt(n, w, ptr - 1)
  PROVE  Kept(n, [x EXCEPT ![ptr] = w])
<1>1. /\ n \in Heaps /\ ptr \in Malloc!Units /\ ptr - 1 \notin Headers(x)
      /\ \E S : Shape(n, Headers(x) \cup {ptr - 1}, S)
      /\ Keeps(h, n, Headers(x))
  BY DEF Gives
<1>2. x \in [Malloc!Units -> Holding \cup {Malloc!NotHeld}]
  BY DEF Kept
<1>3. PICK y : y = [x EXCEPT ![ptr] = w]
  OBVIOUS
<1>4. /\ y \in [Malloc!Units -> Holding \cup {Malloc!NotHeld}] /\ y[ptr] = w
      /\ \A a \in Malloc!Units : a # ptr => y[a] = x[a]
  BY <1>1, <1>2, <1>3
<1>5. Headers(y) = Headers(x) \cup {ptr - 1}
  BY <1>1, <1>2, <1>3, HeldHeaders
<1>6. \A a \in Malloc!Units : x[a] # Malloc!NotHeld => KeptAt(n, x[a], a - 1)
  <2>1. \A a \in Malloc!Units : x[a] # Malloc!NotHeld => a - 1 \in Headers(x)
    BY DEF Headers
  <2> QED BY <1>1, <2>1, OthersKept
<1>7. \A a \in Malloc!Units : y[a] # Malloc!NotHeld => KeptAt(n, y[a], a - 1)
  BY <1>4, <1>6
<1>8. Kept(n, y)
  BY <1>1, <1>4, <1>5, <1>7 DEF Kept
<1> QED BY <1>3, <1>8

LEMMA WrittenKept ==
  ASSUME NEW h, NEW x, Kept(h, x), NEW n \in Heaps, NEW ptr \in Malloc!Units, x[ptr] # Malloc!NotHeld,
         Rewritten(h, n, ptr - 1), NEW w \in Holding, KeptAt(n, w, ptr - 1)
  PROVE  Kept(n, [x EXCEPT ![ptr] = w])
<1>1. h \in Heaps /\ x \in [Malloc!Units -> Holding \cup {Malloc!NotHeld}]
  BY DEF Kept
<1>2. PICK S : Shape(h, Headers(x), S)
  BY DEF Kept
<1>3. ptr - 1 \in Headers(x)
  BY <1>1, HeldHeaders
<1>4. Shape(n, Headers(x), S) /\ Keeps(h, n, Headers(x) \ {ptr - 1})
  BY <1>1, <1>2, <1>3, RewriteShape
<1>5. PICK y : y = [x EXCEPT ![ptr] = w]
  OBVIOUS
<1>6. /\ y \in [Malloc!Units -> Holding \cup {Malloc!NotHeld}] /\ y[ptr] = w
      /\ \A a \in Malloc!Units : a # ptr => y[a] = x[a]
  BY <1>1, <1>5
<1>7. Headers(y) = Headers(x)
  <2>1. Headers(y) = Headers(x) \cup {ptr - 1}
    BY <1>1, <1>5, HeldHeaders
  <2> QED BY <1>3, <2>1
<1>8. \A a \in Malloc!Units : x[a] # Malloc!NotHeld /\ a # ptr => KeptAt(n, x[a], a - 1)
  <2>1. \A a \in Malloc!Units : a - 1 = ptr - 1 => a = ptr
    BY DEF Malloc!Units
  <2>2. \A a \in Malloc!Units : x[a] # Malloc!NotHeld /\ a # ptr => a - 1 \in Headers(x) \ {ptr - 1}
    BY <2>1 DEF Headers
  <2>3. Headers(x) \ {ptr - 1} \subseteq Headers(x)
    OBVIOUS
  <2> QED BY <1>4, <2>2, <2>3, OthersKept
<1>9. \A a \in Malloc!Units : y[a] # Malloc!NotHeld => KeptAt(n, y[a], a - 1)
  BY <1>6, <1>8
<1>10. Kept(n, y)
  BY <1>4, <1>6, <1>7, <1>9 DEF Kept
<1> QED BY <1>5, <1>10

LEMMA FreedKept ==
  ASSUME NEW h, NEW x, Kept(h, x), NEW ptr \in Malloc!Units, x[ptr] # Malloc!NotHeld
  PROVE  Kept(Malloc!Freed(h, ptr), [x EXCEPT ![ptr] = Malloc!NotHeld])
<1>1. h \in Heaps /\ x \in [Malloc!Units -> Holding \cup {Malloc!NotHeld}]
  BY DEF Kept
<1>2. PICK S : Shape(h, Headers(x), S)
  BY DEF Kept
<1>3. ptr - 1 \in Headers(x) /\ (ptr - 1) + 1 = ptr
  <2>1. ptr - 1 \in Headers(x)
    BY <1>1, HeldHeaders
  <2> QED BY <2>1 DEF Malloc!Units
<1>4. PICK n : n = Malloc!Freed(h, ptr)
  OBVIOUS
<1>5. /\ n \in Heaps
      /\ \E S2 : Shape(n, Headers(x) \ {ptr - 1}, S2)
      /\ Keeps(h, n, Headers(x) \ {ptr - 1})
  <2>1. n = Malloc!Freed(h, (ptr - 1) + 1)
    BY <1>3, <1>4
  <2> QED BY <1>1, <1>2, <1>3, <2>1, FreeOK
<1>6. PICK y : y = [x EXCEPT ![ptr] = Malloc!NotHeld]
  OBVIOUS
<1>7. /\ y \in [Malloc!Units -> Holding \cup {Malloc!NotHeld}] /\ y[ptr] = Malloc!NotHeld
      /\ \A a \in Malloc!Units : a # ptr => y[a] = x[a]
  BY <1>1, <1>6
<1>8. Headers(y) = Headers(x) \ {ptr - 1}
  BY <1>1, <1>6, HeldHeaders
<1>9. \A a \in Malloc!Units : x[a] # Malloc!NotHeld /\ a # ptr => KeptAt(n, x[a], a - 1)
  <2>1. \A a \in Malloc!Units : a - 1 = ptr - 1 => a = ptr
    BY DEF Malloc!Units
  <2>2. \A a \in Malloc!Units : x[a] # Malloc!NotHeld /\ a # ptr => a - 1 \in Headers(x) \ {ptr - 1}
    BY <2>1 DEF Headers
  <2>3. Headers(x) \ {ptr - 1} \subseteq Headers(x)
    OBVIOUS
  <2> QED BY <1>5, <2>2, <2>3, OthersKept
<1>10. \A a \in Malloc!Units : y[a] # Malloc!NotHeld => KeptAt(n, y[a], a - 1)
  BY <1>7, <1>9
<1>11. Kept(n, y)
  BY <1>5, <1>7, <1>8, <1>10 DEF Kept
<1> QED BY <1>4, <1>6, <1>11

---------------------------------------------------------------------------
(* Each call keeps the invariant.                                          *)

LEMMA HeapInvInit == Malloc!Init => HeapInv
<1> SUFFICES ASSUME Malloc!Init PROVE Kept(heap, held)
  BY DEF HeapInv
<1>1. /\ heap.unit = [a \in Malloc!Units |-> Malloc!Zero] /\ heap.head = <<>> /\ heap.brk = 0
      /\ heap = [unit |-> heap.unit, head |-> heap.head, brk |-> heap.brk]
      /\ held = [a \in Malloc!Units |-> Malloc!NotHeld]
  BY DEF Malloc!Init
<1>2. Malloc!Zero \in Unit
  BY DEF Malloc!Zero, Malloc!Meta, Unit
<1>3. heap \in Heaps
  <2>1. heap.head \in Seq(Malloc!Units) /\ heap.unit \in [Malloc!Units -> Unit] /\ heap.brk \in 0 .. HeapSize
    BY HeapOK, <1>1, <1>2
  <2> QED BY <1>1, <2>1 DEF Heaps
<1>4. held \in [Malloc!Units -> Holding \cup {Malloc!NotHeld}] /\ \A a \in Malloc!Units : held[a] = Malloc!NotHeld
  BY <1>1
<1>5. Headers(held) = {} /\ Listed(heap) = {} /\ Distinct(heap.head)
  <2>1. Len(heap.head) = 0
    BY <1>1
  <2> QED BY <1>4, <2>1 DEF Headers, Listed, Members, Distinct
<1>6. Shape(heap, Headers(held), {1})
  BY <1>1, <1>5 DEF Shape
<1> QED BY <1>3, <1>4, <1>6 DEF Kept

\* A word written to what ptr holds.
LEMMA WrittenOK ==
  ASSUME NEW h \in Heaps, NEW ptr \in Malloc!Units, ptr - 1 \in Malloc!Units, NEW want \in Nat,
         want <= h.unit[ptr - 1].size, NEW word \in Unit, NEW n, n = Malloc!Written(h, ptr, want, word)
  PROVE  /\ n \in Heaps /\ Rewritten(h, n, ptr - 1)
         /\ n.unit[ptr - 1].size = h.unit[ptr - 1].size
         /\ \A a \in ptr .. ptr + want - 1 : a \in Malloc!Units => n.unit[a] = word
<1>1. h.unit \in [Malloc!Units -> Unit] /\ h.head \in Seq(Malloc!Units) /\ h.brk \in 0 .. HeapSize
  BY DEF Heaps
<1>2. h = [unit |-> h.unit, head |-> h.head, brk |-> h.brk]
  BY DEF Heaps
<1>3. PICK u : u = [a \in Malloc!Units |-> IF a \in ptr .. ptr + want - 1 THEN word ELSE h.unit[a]]
  OBVIOUS
<1>4. /\ u \in [Malloc!Units -> Unit]
      /\ \A a \in Malloc!Units : u[a] = IF a \in ptr .. ptr + want - 1 THEN word ELSE h.unit[a]
  BY <1>1, <1>3
<1>5. n = [h EXCEPT !.unit = u]
  BY <1>3 DEF Malloc!Written
<1>6. n.unit = u /\ n.head = h.head /\ n.brk = h.brk
  BY <1>2, <1>5
<1>7. n = [unit |-> n.unit, head |-> n.head, brk |-> n.brk]
  BY <1>2, <1>5
<1>8. n \in Heaps
  BY <1>1, <1>4, <1>6, <1>7 DEF Heaps
<1>9. ptr \in Nat /\ ptr - 1 \in Nat /\ h.unit[ptr - 1].size \in Nat
  <2>1. h.unit[ptr - 1].size \in Nat
    BY <1>1 DEF Unit
  <2> QED BY <2>1 DEF Malloc!Units
<1>10. \A a \in ptr .. ptr + want - 1 : a \in (ptr - 1) + 1 .. (ptr - 1) + h.unit[ptr - 1].size
  BY <1>9
<1>11. Rewritten(h, n, ptr - 1)
  BY <1>4, <1>6, <1>10 DEF Rewritten
<1>12. n.unit[ptr - 1].size = h.unit[ptr - 1].size
  BY <1>4, <1>6, <1>9
<1>13. \A a \in ptr .. ptr + want - 1 : a \in Malloc!Units => n.unit[a] = word
  BY <1>4, <1>6
<1> QED BY <1>8, <1>11, <1>12, <1>13
LEMMA AllocStep ==
  ASSUME Kept(heap, held), NEW want \in Nat, ~Malloc!Wraps(want)
  PROVE  \/ Malloc!Allocated(heap, want).ptr = Malloc!NULL /\ Malloc!Allocated(heap, want).heap = heap
         \/ /\ Malloc!Allocated(heap, want).ptr # Malloc!NULL
            /\ Gives(heap, Malloc!Allocated(heap, want).heap, Headers(held),
                     Malloc!Allocated(heap, want).ptr, want)
<1>1. heap \in Heaps
  BY DEF Kept
<1>2. PICK S : Shape(heap, Headers(held), S)
  BY DEF Kept
<1>3. ASSUME Malloc!Splits(heap, want)
      PROVE  heap.unit[heap.head[Malloc!FirstFit(heap, want)]].size - want >= 2
  <2>1. PICK left : left = heap.unit[heap.head[Malloc!FirstFit(heap, want)]].size - want
    OBVIOUS
  <2>2. ~(left < 2)
    BY <1>3, <2>1 DEF Malloc!Wraps
  <2>3. Malloc!FirstFit(heap, want) \in 1 .. Len(heap.head)
    BY <1>1, <1>3, FirstFits DEF Malloc!Splits
  <2>4. heap.head[Malloc!FirstFit(heap, want)] \in Listed(heap)
    BY <2>3 DEF Listed, Members
  <2>5. heap.unit[heap.head[Malloc!FirstFit(heap, want)]].size \in Nat
    BY <1>1, <1>2, <2>4, BlockOK
  <2> QED BY <2>1, <2>2, <2>5
<1> QED BY <1>1, <1>2, <1>3, AllocOK

\* A block just given: nothing is known of its words.
LEMMA GivenStep ==
  ASSUME Kept(heap, held), NEW want \in Nat, NEW n, NEW ptr,
         Gives(heap, n, Headers(held), ptr, want),
         NEW w, w = [size |-> want, known |-> 0, word |-> Malloc!Zero]
  PROVE  /\ w \in Holding /\ Kept(n, [held EXCEPT ![ptr] = w])
         /\ n \in Heaps /\ ptr \in Malloc!Units /\ ptr - 1 \in Nat
         /\ want <= n.unit[ptr - 1].size
<1>1. n \in Heaps /\ ptr \in Malloc!Units /\ ptr - 1 \in Nat /\ want <= n.unit[ptr - 1].size
  BY DEF Gives
<1>2. w \in Holding
  BY DEF Holding, Malloc!Zero, Malloc!Meta, Unit
<1>3. \A a \in (ptr - 1) + 1 .. (ptr - 1) + w.known : FALSE
  BY <1>1
<1>4. KeptAt(n, w, ptr - 1)
  BY <1>1, <1>3 DEF KeptAt
<1> QED BY <1>1, <1>2, <1>4, GivenKept

LEMMA MallocStep ==
  ASSUME Kept(heap, held), NEW want \in Nat, Malloc!malloc(want), ~wrapped'
  PROVE  Kept(heap', held')
<1>1. ~Malloc!Wraps(want)
  BY DEF Malloc!malloc, Malloc!Counted
<1>2. /\ heap' = Malloc!Allocated(heap, want).heap
      /\ IF Malloc!Allocated(heap, want).ptr = Malloc!NULL THEN held' = held
         ELSE held' = [held EXCEPT ![Malloc!Allocated(heap, want).ptr] =
                          [size |-> want, known |-> 0, word |-> Malloc!Zero]]
  BY DEF Malloc!malloc, Malloc!Given
<1> QED BY <1>1, <1>2, AllocStep, GivenStep

LEMMA CallocStep ==
  ASSUME Kept(heap, held), NEW want \in Nat, Malloc!calloc(want), ~wrapped'
  PROVE  Kept(heap', held')
<1>1. PICK got : got = Malloc!Allocated(heap, want)
  OBVIOUS
<1>2. PICK ptr : ptr = got.ptr
  OBVIOUS
<1>3. /\ ptr # Malloc!NULL /\ heap' = Malloc!Written(got.heap, ptr, want, Malloc!Zero)
      /\ held' = [held EXCEPT ![ptr] = [size |-> want, known |-> want, word |-> Malloc!Zero]]
  BY <1>1, <1>2 DEF Malloc!calloc, Malloc!Given
<1>4. Gives(heap, got.heap, Headers(held), ptr, want)
  <2>1. ~Malloc!Wraps(want)
    BY DEF Malloc!calloc, Malloc!Counted
  <2> QED BY <1>1, <1>2, <1>3, <2>1, AllocStep
<1>5. PICK v : v = [size |-> want, known |-> 0, word |-> Malloc!Zero]
  OBVIOUS
<1>6. PICK w : w = [size |-> want, known |-> want, word |-> Malloc!Zero]
  OBVIOUS
<1>7. PICK x : x = [held EXCEPT ![ptr] = v]
  OBVIOUS
<1>8. /\ Kept(got.heap, x) /\ got.heap \in Heaps /\ ptr \in Malloc!Units /\ ptr - 1 \in Nat
      /\ want <= got.heap.unit[ptr - 1].size
  BY <1>4, <1>5, <1>7, GivenStep
<1>9. w \in Holding /\ Malloc!Zero \in Unit
  BY <1>6 DEF Holding, Malloc!Zero, Malloc!Meta, Unit
<1>10. x[ptr] = v /\ v # Malloc!NotHeld
  <2>1. v.size \in Nat /\ Malloc!NotHeld.size = -1
    BY <1>5 DEF Malloc!NotHeld
  <2>2. v # Malloc!NotHeld
    BY <2>1
  <2>3. held \in [Malloc!Units -> Holding \cup {Malloc!NotHeld}]
    BY DEF Kept
  <2> QED BY <1>7, <1>8, <2>2, <2>3
<1>11. PICK S : Shape(got.heap, Headers(x), S)
  BY <1>8 DEF Kept
<1>12. ptr - 1 \in Headers(x)
  BY <1>8, <1>10 DEF Headers
<1>13. /\ ptr - 1 \in Malloc!Units /\ got.heap.unit[ptr - 1].size \in Nat
       /\ (ptr - 1) + got.heap.unit[ptr - 1].size + 1 \in Malloc!Units
  <2>1. /\ ptr - 1 \in Malloc!Units /\ got.heap.unit[ptr - 1].size \in Nat
        /\ End(got.heap, ptr - 1) \in Malloc!Units
    BY <1>8, <1>11, <1>12, BlockOK
  <2> QED BY <2>1 DEF End
<1>14. PICK n : n = Malloc!Written(got.heap, ptr, want, Malloc!Zero)
  OBVIOUS
<1>15. /\ n \in Heaps /\ Rewritten(got.heap, n, ptr - 1)
       /\ n.unit[ptr - 1].size = got.heap.unit[ptr - 1].size
       /\ \A a \in ptr .. ptr + want - 1 : a \in Malloc!Units => n.unit[a] = Malloc!Zero
  BY <1>8, <1>9, <1>13, <1>14, WrittenOK
<1>16. KeptAt(n, w, ptr - 1)
  <2>1. w.size = want /\ w.known = want /\ w.word = Malloc!Zero
    BY <1>6
  <2>2. \A a \in (ptr - 1) + 1 .. (ptr - 1) + want : a \in ptr .. ptr + want - 1 /\ a \in Malloc!Units
    BY HeapOK, <1>8, <1>13 DEF Malloc!Units
  <2> QED BY <1>8, <1>15, <2>1, <2>2 DEF KeptAt
<1>17. Kept(n, [x EXCEPT ![ptr] = w])
  BY <1>8, <1>9, <1>10, <1>15, <1>16, WrittenKept
<1>18. [x EXCEPT ![ptr] = w] = held'
  <2>1. held \in [Malloc!Units -> Holding \cup {Malloc!NotHeld}]
    BY DEF Kept
  <2> QED BY <1>3, <1>6, <1>7, <1>8, <2>1
<1> QED BY <1>3, <1>14, <1>17, <1>18

LEMMA FreeStep ==
  ASSUME Kept(heap, held), NEW ptr \in Malloc!Pointers, Malloc!free(ptr)
  PROVE  Kept(heap', held')
<1>1. ptr \in Malloc!Units /\ held[ptr] # Malloc!NotHeld
  BY DEF Malloc!Pointers
<1>2. heap' = Malloc!Freed(heap, ptr) /\ held' = [held EXCEPT ![ptr] = Malloc!NotHeld]
  BY DEF Malloc!free
<1> QED BY <1>1, <1>2, FreedKept
\* A block that is held, at its pointer.
LEMMA AtPointer ==
  ASSUME NEW h, NEW x, Kept(h, x), NEW ptr \in Malloc!Units, x[ptr] # Malloc!NotHeld
  PROVE  /\ h \in Heaps /\ ptr - 1 \in Malloc!Units /\ ptr - 1 \in Nat /\ ptr - 1 \in Headers(x)
         /\ h.unit[ptr - 1].size \in Nat
         /\ ptr + h.unit[ptr - 1].size \in Malloc!Units
         /\ x[ptr] \in Holding /\ x[ptr].size \in Nat /\ x[ptr].known \in Nat
         /\ x[ptr].size <= h.unit[ptr - 1].size /\ x[ptr].known <= x[ptr].size
         /\ Malloc!Whole(h, ptr - 1) => \A a \in ptr .. ptr + x[ptr].known - 1 : h.unit[a] = x[ptr].word
<1>1. h \in Heaps /\ x \in [Malloc!Units -> Holding \cup {Malloc!NotHeld}] /\ KeptAt(h, x[ptr], ptr - 1)
  BY DEF Kept
<1>2. PICK S : Shape(h, Headers(x), S)
  BY DEF Kept
<1>3. ptr - 1 \in Headers(x)
  BY <1>1, HeldHeaders
<1>4. /\ ptr - 1 \in Malloc!Units /\ h.unit[ptr - 1].size \in Nat
      /\ (ptr - 1) + h.unit[ptr - 1].size + 1 \in Malloc!Units
  <2>1. /\ ptr - 1 \in Malloc!Units /\ h.unit[ptr - 1].size \in Nat
        /\ End(h, ptr - 1) \in Malloc!Units
    BY <1>1, <1>2, <1>3, BlockOK
  <2> QED BY <2>1 DEF End
<1>5. ptr \in Nat /\ ptr - 1 \in Nat
  BY <1>4 DEF Malloc!Units
<1>6. (ptr - 1) + h.unit[ptr - 1].size + 1 = ptr + h.unit[ptr - 1].size
  BY <1>4, <1>5
<1>7. x[ptr] \in Holding /\ x[ptr].size \in Nat /\ x[ptr].known \in Nat
  <2>1. x[ptr] \in Holding
    BY <1>1
  <2> QED BY <2>1 DEF Holding
<1>8. /\ x[ptr].size <= h.unit[ptr - 1].size /\ x[ptr].known <= x[ptr].size
      /\ Malloc!Whole(h, ptr - 1) =>
           \A a \in (ptr - 1) + 1 .. (ptr - 1) + x[ptr].known : h.unit[a] = x[ptr].word
  BY <1>1 DEF KeptAt
<1>9. (ptr - 1) + 1 = ptr /\ (ptr - 1) + x[ptr].known = ptr + x[ptr].known - 1
  BY <1>5, <1>7
<1> QED BY <1>1, <1>3, <1>4, <1>5, <1>6, <1>7, <1>8, <1>9

LEMMA FillStep ==
  ASSUME Kept(heap, held), NEW ptr \in Malloc!Pointers, Malloc!Fill(ptr)
  PROVE  Kept(heap', held')
<1>1. ptr \in Malloc!Units /\ held[ptr] # Malloc!NotHeld
  BY DEF Malloc!Pointers
<1>2. PICK want : want = held[ptr].size
  OBVIOUS
<1>3. PICK w : w = [size |-> want, known |-> want, word |-> Malloc!Data]
  OBVIOUS
<1>4. PICK n : n = Malloc!Written(heap, ptr, want, Malloc!Data)
  OBVIOUS
<1>5. heap' = n /\ held' = [held EXCEPT ![ptr] = w]
  BY <1>2, <1>3, <1>4 DEF Malloc!Fill
<1>6. /\ heap \in Heaps /\ ptr - 1 \in Malloc!Units /\ ptr - 1 \in Nat /\ want \in Nat
      /\ heap.unit[ptr - 1].size \in Nat /\ ptr + heap.unit[ptr - 1].size \in Malloc!Units
      /\ want <= heap.unit[ptr - 1].size
  BY <1>1, <1>2, AtPointer
<1>7. Malloc!Data \in Unit /\ w \in Holding
  BY <1>3, <1>6 DEF Malloc!Data, Malloc!Meta, Unit, Holding
<1>8. /\ n \in Heaps /\ Rewritten(heap, n, ptr - 1)
      /\ n.unit[ptr - 1].size = heap.unit[ptr - 1].size
      /\ \A a \in ptr .. ptr + want - 1 : a \in Malloc!Units => n.unit[a] = Malloc!Data
  BY <1>1, <1>4, <1>6, <1>7, WrittenOK
<1>9. KeptAt(n, w, ptr - 1)
  <2>1. w.size = want /\ w.known = want /\ w.word = Malloc!Data
    BY <1>3
  <2>2. \A a \in (ptr - 1) + 1 .. (ptr - 1) + want : a \in ptr .. ptr + want - 1 /\ a \in Malloc!Units
    BY HeapOK, <1>1, <1>6 DEF Malloc!Units
  <2> QED BY <1>6, <1>8, <2>1, <2>2 DEF KeptAt
<1>10. Kept(n, [held EXCEPT ![ptr] = w])
  BY <1>1, <1>7, <1>8, <1>9, WrittenKept
<1> QED BY <1>5, <1>10

\* realloc copies old_size units from ptr to p.
CopyOf(h, ptr, p, old_size) ==
  [h EXCEPT !.unit = [a \in Malloc!Units |-> IF a \in p .. p + old_size - 1
                                      THEN h.unit[ptr + a - p] ELSE @[a]]]

LEMMA CopiedOK ==
  ASSUME NEW h \in Heaps, NEW ptr \in Malloc!Units, NEW p \in Malloc!Units, NEW old_size \in Nat,
         ptr + old_size \in Malloc!Units, p - 1 \in Malloc!Units, old_size <= h.unit[p - 1].size,
         p + h.unit[p - 1].size \in Malloc!Units, NEW n, n = CopyOf(h, ptr, p, old_size)
  PROVE  /\ n \in Heaps /\ Rewritten(h, n, p - 1)
         /\ n.unit[p - 1].size = h.unit[p - 1].size
         /\ \A a \in p .. p + old_size - 1 : n.unit[a] = h.unit[ptr + a - p]
<1>1. h.unit \in [Malloc!Units -> Unit] /\ h.head \in Seq(Malloc!Units) /\ h.brk \in 0 .. HeapSize
  BY DEF Heaps
<1>2. h = [unit |-> h.unit, head |-> h.head, brk |-> h.brk]
  BY DEF Heaps
<1>3. PICK u : u = [a \in Malloc!Units |-> IF a \in p .. p + old_size - 1
                                    THEN h.unit[ptr + a - p] ELSE h.unit[a]]
  OBVIOUS
<1>4. h.unit[p - 1].size \in Nat
  BY <1>1 DEF Unit
<1>5. p \in Nat /\ ptr \in Nat /\ p - 1 \in Nat
  BY DEF Malloc!Units
<1>6. \A a \in p .. p + old_size - 1 : a \in Malloc!Units /\ ptr + a - p \in Malloc!Units
  <2> SUFFICES ASSUME NEW a \in p .. p + old_size - 1 PROVE a \in Malloc!Units /\ ptr + a - p \in Malloc!Units
    OBVIOUS
  <2>1. /\ p >= 1 /\ p + h.unit[p - 1].size <= HeapSize
        /\ ptr >= 1 /\ ptr + old_size <= HeapSize /\ HeapSize \in Nat
    BY HeapOK DEF Malloc!Units
  <2>2. a \in Nat /\ a >= p /\ a <= p + old_size - 1
    BY <1>5
  <2>3. a >= 1 /\ a <= HeapSize
    BY <1>4, <1>5, <2>1, <2>2
  <2>4. ptr + a - p \in Nat /\ ptr + a - p >= 1 /\ ptr + a - p <= HeapSize
    BY <1>5, <2>1, <2>2
  <2> QED BY <2>2, <2>3, <2>4 DEF Malloc!Units
<1>7. /\ u \in [Malloc!Units -> Unit]
      /\ \A a \in Malloc!Units : u[a] = IF a \in p .. p + old_size - 1 THEN h.unit[ptr + a - p] ELSE h.unit[a]
  BY <1>1, <1>3, <1>6
<1>8. n = [h EXCEPT !.unit = u]
  BY <1>3 DEF CopyOf
<1>9. n.unit = u /\ n.head = h.head /\ n.brk = h.brk
  BY <1>2, <1>8
<1>10. n = [unit |-> n.unit, head |-> n.head, brk |-> n.brk]
  BY <1>2, <1>8
<1>11. n \in Heaps
  BY <1>1, <1>7, <1>9, <1>10 DEF Heaps
<1>12. \A a \in p .. p + old_size - 1 : a \in (p - 1) + 1 .. (p - 1) + h.unit[p - 1].size
  BY <1>4, <1>5
<1>13. Rewritten(h, n, p - 1)
  BY <1>7, <1>9, <1>12 DEF Rewritten
<1>14. n.unit[p - 1].size = h.unit[p - 1].size
  BY <1>5, <1>7, <1>9
<1>15. \A a \in p .. p + old_size - 1 : n.unit[a] = h.unit[ptr + a - p]
  BY <1>6, <1>7, <1>9
<1> QED BY <1>11, <1>13, <1>14, <1>15

LEMMA ReallocStep ==
  ASSUME Kept(heap, held), NEW ptr \in Malloc!Pointers, NEW want \in Nat, Malloc!realloc(ptr, want), ~wrapped'
  PROVE  Kept(heap', held')
<1>1. ptr \in Malloc!Units /\ held[ptr] # Malloc!NotHeld /\ held \in [Malloc!Units -> Holding \cup {Malloc!NotHeld}]
  BY DEF Malloc!Pointers, Kept
<1>2. PICK old_size : old_size = heap.unit[ptr - 1].size
  OBVIOUS
<1>3. /\ heap \in Heaps /\ ptr - 1 \in Malloc!Units /\ ptr - 1 \in Nat /\ ptr - 1 \in Headers(held)
      /\ old_size \in Nat /\ ptr + old_size \in Malloc!Units
      /\ held[ptr] \in Holding /\ held[ptr].size \in Nat /\ held[ptr].known \in Nat
      /\ held[ptr].size <= old_size /\ held[ptr].known <= held[ptr].size
      /\ Malloc!Whole(heap, ptr - 1) =>
           \A a \in ptr .. ptr + held[ptr].known - 1 : heap.unit[a] = held[ptr].word
  BY <1>1, <1>2, AtPointer
<1>4. CASE want <= old_size
  <2>1. PICK w : w = Malloc!Resized(held[ptr], want)
    OBVIOUS
  <2>2. /\ w \in Holding /\ w.size = want /\ w.known \in Nat /\ w.word = held[ptr].word
        /\ w.known <= want /\ w.known <= held[ptr].known
    <3>1. PICK k : k = IF held[ptr].known < want THEN held[ptr].known ELSE want
      OBVIOUS
    <3>2. w = [held[ptr] EXCEPT !.size = want, !.known = k]
      BY <2>1, <3>1 DEF Malloc!Resized
    <3>3. k \in Nat /\ k <= want /\ k <= held[ptr].known
      BY <1>3, <3>1
    <3>4. held[ptr] = [size |-> held[ptr].size, known |-> held[ptr].known, word |-> held[ptr].word]
          /\ held[ptr].word \in Unit
      BY <1>3 DEF Holding
    <3>5. w = [size |-> want, known |-> k, word |-> held[ptr].word]
      BY <3>2, <3>4
    <3> QED BY <3>3, <3>4, <3>5 DEF Holding
  <2>3. heap' = heap /\ held' = [held EXCEPT ![ptr] = w]
    BY <1>2, <1>4, <2>1 DEF Malloc!realloc
  <2>4. KeptAt(heap, w, ptr - 1)
    <3>1. \A a \in (ptr - 1) + 1 .. (ptr - 1) + w.known : a \in ptr .. ptr + held[ptr].known - 1
      BY <1>1, <1>3, <2>2 DEF Malloc!Units
    <3> QED BY <1>2, <1>3, <1>4, <2>2, <3>1 DEF KeptAt
  <2>5. Rewritten(heap, heap, ptr - 1)
    BY DEF Rewritten
  <2> QED BY <1>1, <1>3, <2>2, <2>3, <2>4, <2>5, WrittenKept
<1>5. CASE ~(want <= old_size)
  <2>1. PICK got : got = Malloc!Allocated(heap, want)
    OBVIOUS
  <2>2. PICK p : p = got.ptr
    OBVIOUS
  <2>3. PICK n : n = CopyOf(got.heap, ptr, p, old_size)
    OBVIOUS
  <2>4. PICK w : w = Malloc!Resized(Malloc!Copied(ptr), want)
    OBVIOUS
  <2>5. /\ p # Malloc!NULL /\ heap' = Malloc!Freed(n, ptr)
        /\ held' = [held EXCEPT ![ptr] = Malloc!NotHeld, ![p] = w]
        /\ ~Malloc!Wraps(want)
    BY <1>2, <1>5, <2>1, <2>2, <2>3, <2>4 DEF Malloc!realloc, Malloc!Counted, CopyOf
  <2>6. Gives(heap, got.heap, Headers(held), p, want)
    BY <2>1, <2>2, <2>5, AllocStep
  <2>7. PICK v : v = [size |-> want, known |-> 0, word |-> Malloc!Zero]
    OBVIOUS
  <2>8. PICK x : x = [held EXCEPT ![p] = v]
    OBVIOUS
  <2>9. /\ v \in Holding /\ Kept(got.heap, x) /\ got.heap \in Heaps /\ p \in Malloc!Units
        /\ p - 1 \in Nat /\ want <= got.heap.unit[p - 1].size
    BY <2>6, <2>7, <2>8, GivenStep
  <2>10. p - 1 \notin Headers(held) /\ Keeps(heap, got.heap, Headers(held))
    BY <2>6 DEF Gives
  <2>11. p # ptr
    BY <1>3, <2>10
  <2>12. x[p] = v /\ v # Malloc!NotHeld
    <3>1. v.size \in Nat /\ Malloc!NotHeld.size = -1
      BY <2>7 DEF Malloc!NotHeld
    <3> QED BY <1>1, <2>8, <2>9, <3>1
  <2>13. /\ p - 1 \in Malloc!Units /\ got.heap.unit[p - 1].size \in Nat
         /\ p + got.heap.unit[p - 1].size \in Malloc!Units
    BY <2>9, <2>12, AtPointer
  <2>14. old_size <= got.heap.unit[p - 1].size /\ old_size < want
    BY <1>3, <1>5, <2>9, <2>13
  <2>15. /\ n \in Heaps /\ Rewritten(got.heap, n, p - 1)
         /\ n.unit[p - 1].size = got.heap.unit[p - 1].size
         /\ \A a \in p .. p + old_size - 1 : n.unit[a] = got.heap.unit[ptr + a - p]
    BY ONLY <1>1, <1>3, <2>3, <2>9, <2>13, <2>14, CopiedOK
  <2>16. /\ w \in Holding /\ w.size = want /\ w.known \in Nat /\ w.word = held[ptr].word
         /\ w.known <= want /\ w.known <= held[ptr].known
         /\ ~Malloc!Whole(heap, ptr - 1) => w.known = 0
    <3>1. PICK c : c = IF Malloc!Whole(heap, ptr - 1) THEN held[ptr].known ELSE 0
      OBVIOUS
    <3>2. PICK k : k = IF c < want THEN c ELSE want
      OBVIOUS
    <3>3. held[ptr] = [size |-> held[ptr].size, known |-> held[ptr].known, word |-> held[ptr].word]
          /\ held[ptr].word \in Unit
      BY <1>3 DEF Holding
    <3>4. Malloc!Copied(ptr) = [size |-> held[ptr].size, known |-> c, word |-> held[ptr].word]
      <4>1. Malloc!Copied(ptr) = [held[ptr] EXCEPT !.known = c]
        BY <3>1 DEF Malloc!Copied
      <4> QED BY <3>3, <4>1
    <3>5. w = [Malloc!Copied(ptr) EXCEPT !.size = want, !.known = k]
      <4>1. Malloc!Copied(ptr).known = c
        BY <3>4
      <4> QED BY <2>4, <3>2, <4>1 DEF Malloc!Resized
    <3>6. w = [size |-> want, known |-> k, word |-> held[ptr].word]
      <4>1. PICK d : d = Malloc!Copied(ptr)
        OBVIOUS
      <4>2. d = [size |-> held[ptr].size, known |-> c, word |-> held[ptr].word]
        BY <3>4, <4>1
      <4>3. w = [d EXCEPT !.size = want, !.known = k]
        BY <3>5, <4>1
      <4> QED BY ONLY <4>2, <4>3
    <3>7. c \in Nat /\ c <= held[ptr].known /\ k \in Nat /\ k <= want /\ k <= c
      BY <1>3, <3>1, <3>2
    <3>8. ~Malloc!Whole(heap, ptr - 1) => k = 0
      BY <3>1, <3>7
    <3> QED BY <1>3, <3>3, <3>6, <3>7, <3>8 DEF Holding
  <2>17. Malloc!Whole(heap, ptr - 1) =>
           \A a \in ptr .. ptr + old_size - 1 : got.heap.unit[a] = heap.unit[a]
    <3>1. \A a \in ptr .. ptr + old_size - 1 : a \in (ptr - 1) + 1 .. (ptr - 1) + old_size
      BY <1>1, <1>3 DEF Malloc!Units
    <3>2. Malloc!Whole(heap, ptr - 1) =>
            \A a \in (ptr - 1) + 1 .. (ptr - 1) + old_size : got.heap.unit[a] = heap.unit[a]
      BY <1>2, <1>3, <2>10 DEF Keeps
    <3> QED BY <3>1, <3>2
  <2>18. KeptAt(n, w, p - 1)
    <3>1. ASSUME NEW a \in (p - 1) + 1 .. (p - 1) + w.known PROVE n.unit[a] = w.word
      <4>1. a \in p .. p + old_size - 1 /\ ptr + a - p \in ptr .. ptr + held[ptr].known - 1
            /\ w.known > 0
        <5>1. /\ ptr \in Nat /\ p \in Nat /\ w.known \in Nat /\ w.known <= held[ptr].known
              /\ held[ptr].known \in Nat /\ held[ptr].known <= old_size /\ old_size \in Nat
          BY <1>1, <1>3, <2>9, <2>16 DEF Malloc!Units
        <5>2. a \in Int /\ a >= p /\ a <= p - 1 + w.known
          BY <5>1
        <5> QED BY ONLY <5>1, <5>2
      <4>2. ptr + a - p \in ptr .. ptr + old_size - 1
        BY <1>1, <1>3, <4>1 DEF Malloc!Units
      <4>3. Malloc!Whole(heap, ptr - 1)
        BY <2>16, <4>1
      <4>4. got.heap.unit[ptr + a - p] = heap.unit[ptr + a - p]
        BY <2>17, <4>2, <4>3
      <4>5. heap.unit[ptr + a - p] = held[ptr].word
        BY <1>3, <4>1, <4>3
      <4> QED BY <2>15, <2>16, <4>1, <4>4, <4>5
    <3>2. w.size <= n.unit[p - 1].size /\ w.known <= w.size
      BY <2>9, <2>15, <2>16
    <3> QED BY <3>1, <3>2 DEF KeptAt
  <2>19. PICK y : y = [x EXCEPT ![p] = w]
    OBVIOUS
  <2>20. Kept(n, y)
    BY <2>9, <2>12, <2>15, <2>16, <2>18, <2>19, WrittenKept
  <2>21. y[ptr] # Malloc!NotHeld
    BY <1>1, <2>8, <2>11, <2>19
  <2>22. Kept(Malloc!Freed(n, ptr), [y EXCEPT ![ptr] = Malloc!NotHeld])
    BY <1>1, <2>20, <2>21, FreedKept
  <2>23. [y EXCEPT ![ptr] = Malloc!NotHeld] = held'
    BY <1>1, <2>5, <2>8, <2>9, <2>11, <2>19
  <2> QED BY <2>5, <2>22, <2>23
<1> QED BY <1>4, <1>5

LEMMA HeapInvNext == HeapInv /\ [Malloc!Next]_Malloc!heapVars => HeapInv'
<1> SUFFICES ASSUME HeapInv, [Malloc!Next]_Malloc!heapVars, ~wrapped' PROVE Kept(heap', held')
  BY DEF HeapInv
<1>1. CASE UNCHANGED Malloc!heapVars
  BY <1>1 DEF HeapInv, Malloc!heapVars
<1>2. CASE Malloc!Next
  <2>1. Kept(heap, held)
    BY <1>2 DEF HeapInv, Malloc!Next
  <2>2. \A want \in Sizes : want \in Nat
    BY HeapOK
  <2>3. CASE \E want \in Sizes : Malloc!malloc(want)
    BY <2>1, <2>2, <2>3, MallocStep
  <2>4. CASE \E want \in Sizes : Malloc!calloc(want)
    BY <2>1, <2>2, <2>4, CallocStep
  <2>5. CASE \E ptr \in Malloc!Pointers : Malloc!free(ptr)
    BY <2>1, <2>5, FreeStep
  <2>6. CASE \E ptr \in Malloc!Pointers : Malloc!Fill(ptr)
    BY <2>1, <2>6, FillStep
  <2>7. CASE \E ptr \in Malloc!Pointers, want \in Sizes : Malloc!realloc(ptr, want)
    BY <2>1, <2>2, <2>7, ReallocStep
  <2>8. \/ \E want \in Sizes : Malloc!malloc(want) \/ Malloc!calloc(want)
        \/ \E ptr \in Malloc!Pointers : Malloc!free(ptr) \/ Malloc!Fill(ptr)
        \/ \E ptr \in Malloc!Pointers, want \in Sizes : Malloc!realloc(ptr, want)
    BY <1>2 DEF Malloc!Next
  <2> QED BY <2>3, <2>4, <2>5, <2>6, <2>7, <2>8
<1> QED BY <1>1, <1>2

LEMMA KeptIsBlocksKept == HeapInv => BlocksKept
<1> SUFFICES ASSUME Kept(heap, held)
             PROVE  LET Block(b) == b .. b + heap.unit[b].size + 1
                        Blocks == {ptr - 1 : ptr \in Malloc!Pointers} \cup Malloc!ToSet(heap.head)
                    IN  /\ \A b, c \in Blocks : b # c => Block(b) \cap Block(c) = {}
                        /\ \A b \in Blocks : b + heap.unit[b].size + 1 <= heap.brk
                        /\ \A b \in Blocks : (heap.unit[b].freed # 0) <=> (b \in Malloc!ToSet(heap.head))
                        /\ Malloc!IsInjective(heap.head)
                        /\ \A ptr \in Malloc!Pointers :
                             /\ held[ptr].size <= heap.unit[ptr - 1].size
                             /\ Malloc!Whole(heap, ptr - 1) =>
                                  \A a \in ptr .. ptr + held[ptr].known - 1 : heap.unit[a] = held[ptr].word
  BY DEF HeapInv, BlocksKept, Malloc!BlocksKept
<1> DEFINE Block(b) == b .. b + heap.unit[b].size + 1
           Blocks == {ptr - 1 : ptr \in Malloc!Pointers} \cup Malloc!ToSet(heap.head)
<1>1. heap \in Heaps /\ heap.head \in Seq(Malloc!Units)
  BY DEF Kept, Heaps
<1>2. PICK S : Shape(heap, Headers(held), S)
  BY DEF Kept
<1>3. Malloc!ToSet(heap.head) = Listed(heap)
  <2>1. DOMAIN heap.head = 1 .. Len(heap.head)
    BY <1>1
  <2> QED BY <2>1 DEF Malloc!ToSet, Listed, Members
<1>4. Blocks = Headers(held) \cup Listed(heap)
  BY <1>3 DEF Headers, Malloc!Pointers
<1> HIDE DEF Blocks
<1>5. \A b, c \in Blocks : b # c => Block(b) \cap Block(c) = {}
  <2> SUFFICES ASSUME NEW b \in Blocks, NEW c \in Blocks, b # c PROVE Block(b) \cap Block(c) = {}
    OBVIOUS
  <2>1. \A x \in b .. End(heap, b), y \in c .. End(heap, c) : x # y
    BY <1>1, <1>2, <1>4, Apart
  <2>2. Block(b) = b .. End(heap, b) /\ Block(c) = c .. End(heap, c)
    <3>1. /\ End(heap, b) = b + heap.unit[b].size + 1
          /\ End(heap, c) = c + heap.unit[c].size + 1
      BY DEF End
    <3> QED BY <3>1
  <2> QED BY <2>1, <2>2
<1>6. \A b \in Blocks : b + heap.unit[b].size + 1 <= heap.brk
  <2> SUFFICES ASSUME NEW b \in Blocks PROVE b + heap.unit[b].size + 1 <= heap.brk
    OBVIOUS
  <2>1. End(heap, b) <= heap.brk
    BY <1>1, <1>2, <1>4, BlockOK
  <2> QED BY <2>1 DEF End
<1>7. \A b \in Blocks : (heap.unit[b].freed # 0) <=> (b \in Malloc!ToSet(heap.head))
  <2>1. /\ \A b \in Headers(held) : heap.unit[b].freed = 0
        /\ \A b \in Listed(heap) : heap.unit[b].freed = 1
    BY <1>2 DEF Shape
  <2> QED BY <1>3, <1>4, <2>1
<1>8. Malloc!IsInjective(heap.head)
  <2>1. Distinct(heap.head) /\ DOMAIN heap.head = 1 .. Len(heap.head)
    BY <1>1, <1>2 DEF Shape
  <2> QED BY <2>1 DEF Distinct, Malloc!IsInjective
<1>9. \A ptr \in Malloc!Pointers :
        /\ held[ptr].size <= heap.unit[ptr - 1].size
        /\ Malloc!Whole(heap, ptr - 1) =>
             \A a \in ptr .. ptr + held[ptr].known - 1 : heap.unit[a] = held[ptr].word
  <2> SUFFICES ASSUME NEW ptr \in Malloc!Pointers
               PROVE /\ held[ptr].size <= heap.unit[ptr - 1].size
                     /\ Malloc!Whole(heap, ptr - 1) =>
                          \A a \in ptr .. ptr + held[ptr].known - 1 : heap.unit[a] = held[ptr].word
    OBVIOUS
  <2>1. ptr \in Malloc!Units /\ held[ptr] # Malloc!NotHeld
    BY DEF Malloc!Pointers
  <2> QED BY <2>1, AtPointer
<1> QED BY <1>5, <1>6, <1>7, <1>8, <1>9 DEF Blocks

\* alloc.c:118-292: for any heap and any sizes, however calls follow each other,
\* blocks held and blocks on the list share no unit, and what the program wrote
\* to a block with a footer of its own stays.
THEOREM BlocksAlwaysKept == Malloc!Spec => []BlocksKept
<1> QED BY HeapInvInit, HeapInvNext, KeptIsBlocksKept, PTL DEF Malloc!Spec

---------------------------------------------------------------------------
(* mini_valgrind.                                                          *)

BlockData == [request_size : Nat, next : Addresses \cup {Leaks!NULL}]

LeakTypes == /\ head \in Addresses \cup {Leaks!NULL} /\ meta_data \in [Addresses -> BlockData]
             /\ total_memory_requested \in Nat /\ total_memory_freed \in Nat
             /\ invalid_addresses \in Nat /\ errors \in Nat
             /\ owned \in Seq(Addresses) /\ moved \in BOOLEAN

\* The next fields lead through the sequence s, from h to the end.
ChainOK(s, h, f) ==
  /\ \A j, k \in 1 .. Len(s) : s[j] = s[k] => j = k
  /\ h = IF Len(s) = 0 THEN Leaks!NULL ELSE s[1]
  /\ \A j \in 1 .. Len(s) : f[s[j]].next = IF j = Len(s) THEN Leaks!NULL ELSE s[j + 1]

\* What the blocks of S add up to, as FoldSet picks one after the other.
Weight(f, S) == Leaks!FoldSet(LAMBDA a, sum : sum + f[a].request_size, 0, S)

LeakInv == /\ LeakTypes
           /\ ~moved => /\ ChainOK(owned, head, meta_data)
                        /\ total_memory_requested - total_memory_freed = Weight(meta_data, Leaks!Held)
                        /\ invalid_addresses = errors

---------------------------------------------------------------------------
(* Sums over blocks.                                                       *)

PickBlock(s) == CHOOSE x \in s : TRUE
AddsUp(it, f, S) ==
  it = [s \in SUBSET S |-> IF s = {} THEN 0 ELSE it[s \ {PickBlock(s)}] + f[PickBlock(s)].request_size]

\* A block stands for the bytes 1 .. request_size.
Room(f, a) == {a} \X (1 .. f[a].request_size)
Bytes(f, S) == UNION {Room(f, a) : a \in S}

LEMMA RoomSize ==
  ASSUME NEW f \in [Addresses -> BlockData], NEW a \in Addresses
  PROVE  /\ IsFiniteSet(Room(f, a)) /\ Cardinality(Room(f, a)) = f[a].request_size
         /\ f[a].request_size \in Nat
<1>1. f[a].request_size \in Nat
  BY DEF BlockData
<1>2. IsFiniteSet({a}) /\ Cardinality({a}) = 1
  BY FS_Singleton
<1>3. PICK n \in Nat : n = f[a].request_size
  BY <1>1
<1>4. IsFiniteSet(1 .. n) /\ Cardinality(1 .. n) = n
  BY FS_Interval
<1>5. PICK I : I = 1 .. n
  OBVIOUS
<1>6. IsFiniteSet({a} \X I) /\ Cardinality({a} \X I) = 1 * Cardinality(I)
  BY <1>2, <1>4, <1>5, FS_Product
<1> QED BY <1>1, <1>3, <1>4, <1>5, <1>6 DEF Room

LEMMA BytesFinite ==
  ASSUME NEW f \in [Addresses -> BlockData], NEW S \in SUBSET Addresses
  PROVE  IsFiniteSet(S) /\ IsFiniteSet(Bytes(f, S))
<1> DEFINE T == {Room(f, a) : a \in S}
           g == [a \in S |-> Room(f, a)]
<1>1. IsFiniteSet(Addresses)
  BY LeaksOK DEF Leaks!MiniValgrindAssumption, Leaks!IsFiniteSet, IsFiniteSet
<1>2. IsFiniteSet(S)
  BY <1>1, FS_Subset
<1>3. g \in Surjection(S, T)
  BY DEF Surjection
<1>4. IsFiniteSet(T)
  <2> HIDE DEF T, g
  <2> QED BY <1>2, <1>3, FS_Surjection
<1>5. \A R \in T : IsFiniteSet(R)
  BY RoomSize
<1>6. Bytes(f, S) = UNION T
  BY DEF Bytes
<1> QED
  <2> HIDE DEF T, g
  <2> QED BY <1>2, <1>4, <1>5, <1>6, FS_UNION

LEMMA OneMore ==
  ASSUME NEW f \in [Addresses -> BlockData], NEW S \in SUBSET Addresses, NEW a \in S
  PROVE  /\ Cardinality(Bytes(f, S \ {a})) \in Nat
         /\ Cardinality(Bytes(f, S)) = Cardinality(Bytes(f, S \ {a})) + f[a].request_size
<1>1. PICK T : T = S \ {a}
  OBVIOUS
<1>2. IsFiniteSet(Bytes(f, T)) /\ Cardinality(Bytes(f, T)) \in Nat
  BY <1>1, BytesFinite, FS_CardinalityType
<1>3. /\ IsFiniteSet(Room(f, a)) /\ Cardinality(Room(f, a)) = f[a].request_size
      /\ f[a].request_size \in Nat
  BY RoomSize
<1>4. Bytes(f, S) = Bytes(f, T) \cup Room(f, a)
  BY <1>1 DEF Bytes
<1>5. Bytes(f, T) \cap Room(f, a) = {}
  BY <1>1 DEF Bytes, Room
<1>6. Cardinality(Bytes(f, T) \cap Room(f, a)) = 0
  BY <1>5, FS_EmptySet
<1>7. Cardinality(Bytes(f, T) \cup Room(f, a)) =
        Cardinality(Bytes(f, T)) + Cardinality(Room(f, a)) - Cardinality(Bytes(f, T) \cap Room(f, a))
  BY <1>2, <1>3, FS_Union
<1> QED BY <1>1, <1>2, <1>3, <1>4, <1>6, <1>7

LEMMA NoBytes == \A f : Cardinality(Bytes(f, {})) = 0
<1>1. \A f : Bytes(f, {}) = {}
  BY DEF Bytes
<1> QED BY <1>1, FS_EmptySet

\* Whatever is picked first, the sum is their number.
LEMMA AddsUpToBytes ==
  ASSUME NEW f \in [Addresses -> BlockData], NEW S \in SUBSET Addresses,
         NEW it, AddsUp(it, f, S), NEW t \in SUBSET S
  PROVE  it[t] = Cardinality(Bytes(f, t))
<1> SUFFICES ASSUME it[t] # Cardinality(Bytes(f, t)) PROVE FALSE
  OBVIOUS
<1> DEFINE Bad == {s \in SUBSET S : it[s] # Cardinality(Bytes(f, s))}
           R == StrictSubsetOrdering(S)
<1>1. IsWellFoundedOn(R, FiniteSubsetsOf(S))
  BY FS_StrictSubsetOrderingWellFounded
<1>2. Bad # {} /\ Bad \subseteq FiniteSubsetsOf(S)
  BY BytesFinite DEF FiniteSubsetsOf
<1>3. PICK s \in Bad : \A u \in Bad : <<u, s>> \notin R
  <2> HIDE DEF Bad, R
  <2> QED BY <1>1, <1>2, WFMin
<1>4. s \in SUBSET S /\ it[s] # Cardinality(Bytes(f, s)) /\ s \in SUBSET Addresses
  OBVIOUS
<1>5. it[s] = IF s = {} THEN 0 ELSE it[s \ {PickBlock(s)}] + f[PickBlock(s)].request_size
  BY <1>4 DEF AddsUp
<1>6. s # {}
  BY <1>4, <1>5, NoBytes
<1>7. PICK x : x = PickBlock(s)
  OBVIOUS
<1>8. x \in s
  BY <1>6, <1>7 DEF PickBlock
<1>9. Cardinality(Bytes(f, s)) = Cardinality(Bytes(f, s \ {x})) + f[x].request_size
  BY <1>4, <1>8, OneMore
<1>10. it[s \ {x}] = Cardinality(Bytes(f, s \ {x}))
  <2>1. s \ {x} \in SUBSET S /\ s \ {x} \subseteq s /\ s \ {x} # s
    BY <1>4, <1>8
  <2>2. <<s \ {x}, s>> \in R
    BY <1>4, <2>1, BytesFinite DEF StrictSubsetOrdering
  <2> QED BY <1>3, <2>1, <2>2
<1> QED BY <1>4, <1>5, <1>6, <1>7, <1>9, <1>10

LEMMA WeightIsBytes ==
  ASSUME NEW f \in [Addresses -> BlockData], NEW S \in SUBSET Addresses
  PROVE  Weight(f, S) = Cardinality(Bytes(f, S))
<1> DEFINE count == [s \in SUBSET S |-> Cardinality(Bytes(f, s))]
           step(s) == IF s = {} THEN 0 ELSE count[s \ {PickBlock(s)}] + f[PickBlock(s)].request_size
           c == CHOOSE it : AddsUp(it, f, S)
<1>1. ASSUME NEW s \in SUBSET S PROVE count[s] = step(s)
  <2>1. CASE s = {}
    BY <2>1, NoBytes
  <2>2. CASE s # {}
    <3>1. PICK x : x = PickBlock(s)
      OBVIOUS
    <3>2. x \in s /\ s \in SUBSET Addresses
      BY <2>2, <3>1 DEF PickBlock
    <3>3. Cardinality(Bytes(f, s)) = Cardinality(Bytes(f, s \ {x})) + f[x].request_size
      BY <3>2, OneMore
    <3> QED BY <2>2, <3>1, <3>2, <3>3
  <2> QED BY <2>1, <2>2
<1>2. AddsUp(count, f, S)
  BY <1>1 DEF AddsUp
<1>3. AddsUp(c, f, S)
  <2> HIDE DEF count
  <2> QED BY <1>2
<1>4. Weight(f, S) = c[S]
  <2> HIDE DEF count
  <2> QED BY <1>3 DEF Weight, Leaks!FoldSet, Leaks!MapThenFoldSet, AddsUp, PickBlock
<1>5. c[S] = Cardinality(Bytes(f, S))
  <2> HIDE DEF count, c
  <2> QED BY <1>3, AddsUpToBytes
<1> QED BY <1>4, <1>5

\* A block more, a block less; and blocks whose sizes are the same.
LEMMA WeightEffect ==
  ASSUME NEW f \in [Addresses -> BlockData], NEW S \in SUBSET Addresses
  PROVE  /\ Weight(f, S) \in Nat
         /\ \A a \in S : Weight(f, S) = Weight(f, S \ {a}) + f[a].request_size
         /\ S = {} => Weight(f, S) = 0
<1>1. Weight(f, S) = Cardinality(Bytes(f, S)) /\ Weight(f, S) \in Nat
  BY WeightIsBytes, BytesFinite, FS_CardinalityType
<1>2. ASSUME NEW a \in S PROVE Weight(f, S) = Weight(f, S \ {a}) + f[a].request_size
  <2>1. S \ {a} \in SUBSET Addresses
    OBVIOUS
  <2> QED BY <1>1, <2>1, OneMore, WeightIsBytes
<1>3. S = {} => Weight(f, S) = 0
  BY <1>1, NoBytes
<1> QED BY <1>1, <1>2, <1>3

LEMMA SameWeight ==
  ASSUME NEW f \in [Addresses -> BlockData], NEW g \in [Addresses -> BlockData],
         NEW S \in SUBSET Addresses, \A a \in S : f[a].request_size = g[a].request_size
  PROVE  Weight(f, S) = Weight(g, S)
<1>1. \A a \in S : Room(f, a) = Room(g, a)
  BY DEF Room
<1>2. Bytes(f, S) = Bytes(g, S)
  BY <1>1 DEF Bytes
<1> QED BY <1>2, WeightIsBytes

---------------------------------------------------------------------------
(* The list as the loops walk it.                                          *)

Walks(w, f) ==
  w = [n \in Nat |-> [a \in Addresses \cup {Leaks!NULL} |->
        IF n = 0 \/ a = Leaks!NULL THEN <<>> ELSE <<a>> \o w[n - 1][f[a].next]]]

\* What a walk of n steps at most from a goes through.
Path(s, n, a, f) ==
  /\ s \in Seq(Addresses) /\ Len(s) <= n
  /\ Len(s) = 0 => n = 0 \/ a = Leaks!NULL
  /\ Len(s) # 0 => s[1] = a /\ (Len(s) = n \/ f[s[Len(s)]].next = Leaks!NULL)
  /\ \A j \in 1 .. Len(s) - 1 : f[s[j]].next = s[j + 1]

LEMMA NullIsNone == Leaks!NULL \notin Addresses /\ RequestSizes \subseteq Nat
BY LeaksOK DEF Leaks!MiniValgrindAssumption

LEMMA Prefixed ==
  ASSUME NEW S, NEW a \in S, NEW t \in Seq(S), NEW s, s = <<a>> \o t
  PROVE  /\ s \in Seq(S) /\ Len(s) = Len(t) + 1 /\ Len(t) \in Nat /\ s[1] = a
         /\ \A j \in 1 .. Len(t) : s[j + 1] = t[j]
<1>1. PICK u : u = <<a>>
  OBVIOUS
<1>2. u \in Seq(S) /\ Len(u) = 1 /\ u[1] = a
  BY <1>1
<1>3. Len(t) \in Nat
  BY LenProperties
<1>4. /\ s \in Seq(S) /\ Len(s) = Len(u) + Len(t)
      /\ \A i \in 1 .. Len(u) + Len(t) : s[i] = IF i <= Len(u) THEN u[i] ELSE t[i - Len(u)]
  BY ONLY <1>1, <1>2, s = <<a>> \o t, t \in Seq(S), ConcatProperties
<1>5. \A i \in 1 .. Len(t) + 1 : s[i] = IF i <= 1 THEN u[i] ELSE t[i - 1]
  BY <1>2, <1>3, <1>4
<1>6. ASSUME NEW j \in 1 .. Len(t) PROVE s[j + 1] = t[j]
  <2>1. PICK i : i = j + 1
    OBVIOUS
  <2>2. i \in 1 .. Len(t) + 1 /\ ~(i <= 1) /\ i - 1 = j
    BY <1>3, <2>1
  <2> QED BY <1>5, <2>1, <2>2
<1>7. s[1] = a
  <2>1. 1 \in 1 .. Len(t) + 1
    BY <1>3
  <2> QED BY <1>2, <1>5, <2>1
<1> QED BY <1>2, <1>3, <1>4, <1>6, <1>7

LEMMA PathLonger ==
  ASSUME NEW f \in [Addresses -> BlockData], NEW n \in Nat \ {0}, NEW a \in Addresses,
         NEW t, Path(t, n - 1, f[a].next, f), NEW s, s = <<a>> \o t
  PROVE  Path(s, n, a, f)
<1>1. t \in Seq(Addresses)
  BY DEF Path
<1>2. PICK m \in Nat : m = Len(t)
  BY <1>1, LenProperties
<1>3. /\ s \in Seq(Addresses) /\ Len(s) = m + 1 /\ s[1] = a
      /\ \A j \in 1 .. m : s[j + 1] = t[j]
  BY <1>1, <1>2, Prefixed
<1>4. /\ m <= n - 1
      /\ m = 0 => n - 1 = 0 \/ f[a].next = Leaks!NULL
      /\ m # 0 => t[1] = f[a].next /\ (m = n - 1 \/ f[t[m]].next = Leaks!NULL)
      /\ \A j \in 1 .. m - 1 : f[t[j]].next = t[j + 1]
  BY <1>2 DEF Path
<1>5. m + 1 <= n /\ m + 1 # 0 /\ m + 1 - 1 = m
  BY <1>4
<1>6. m + 1 = n \/ f[s[m + 1]].next = Leaks!NULL
  <2>1. CASE m = 0
    BY <1>3, <1>4, <2>1
  <2>2. CASE m # 0
    <3>1. s[m + 1] = t[m]
      BY <1>3, <2>2
    <3>2. m = n - 1 \/ f[t[m]].next = Leaks!NULL
      BY <1>4, <2>2
    <3>3. m = n - 1 => m + 1 = n
      OBVIOUS
    <3> QED BY ONLY <3>1, <3>2, <3>3
  <2> QED BY <2>1, <2>2
<1>7. ASSUME NEW j \in 1 .. m PROVE f[s[j]].next = s[j + 1]
  <2>1. CASE j = 1
    <3>1. m # 0 /\ s[j] = a
      BY <1>3, <2>1
    <3>2. s[j + 1] = t[1]
      BY <1>3, <2>1
    <3> QED BY <1>4, <3>1, <3>2
  <2>2. CASE j # 1
    <3>1. PICK i : i = j - 1
      OBVIOUS
    <3>2. i \in 1 .. m - 1 /\ i \in 1 .. m /\ i + 1 = j
      BY <2>2, <3>1
    <3>3. s[j] = t[i] /\ s[j + 1] = t[j]
      BY <1>3, <3>2
    <3>4. f[t[i]].next = t[i + 1]
      BY <1>4, <3>2
    <3> QED BY <3>2, <3>3, <3>4
  <2> QED BY <2>1, <2>2
<1> QED BY <1>3, <1>5, <1>6, <1>7 DEF Path

LEMMA PathRest ==
  ASSUME NEW f \in [Addresses -> BlockData], NEW n \in Nat \ {0}, NEW a \in Addresses,
         NEW s, Path(s, n, a, f)
  PROVE  \E t : Path(t, n - 1, f[a].next, f) /\ s = <<a>> \o t
<1>1. s \in Seq(Addresses)
  BY DEF Path
<1>2. PICK m \in Nat : m = Len(s)
  BY <1>1, LenProperties
<1>3. /\ m <= n /\ m # 0 /\ s[1] = a /\ (m = n \/ f[s[m]].next = Leaks!NULL)
      /\ \A j \in 1 .. m - 1 : f[s[j]].next = s[j + 1]
  BY <1>2, NullIsNone DEF Path
<1>4. PICK t : t = Tail(s)
  OBVIOUS
<1>5. s # <<>> /\ Head(s) = a
  BY <1>1, <1>2, <1>3
<1>6. /\ t \in Seq(Addresses) /\ Len(t) = m - 1
      /\ \A j \in 1 .. m - 1 : t[j] = s[j + 1]
  <2>1. /\ Tail(s) \in Seq(Addresses) /\ Len(Tail(s)) = Len(s) - 1
        /\ \A i \in 1 .. Len(Tail(s)) : Tail(s)[i] = s[i+1]
    BY <1>1, <1>5, HeadTailProperties
  <2> QED BY <1>2, <1>4, <2>1
<1>7. s = <<a>> \o t
  <2>1. PICK u : u = <<a>> \o t
    OBVIOUS
  <2>2. /\ u \in Seq(Addresses) /\ Len(u) = m - 1 + 1 /\ u[1] = a
        /\ \A j \in 1 .. m - 1 : u[j + 1] = t[j]
    BY <1>6, <2>1, Prefixed
  <2>3. Len(u) = m
    BY <2>2
  <2>4. ASSUME NEW i \in 1 .. m PROVE s[i] = u[i]
    <3>1. CASE i = 1
      BY <1>3, <2>2, <3>1
    <3>2. CASE i # 1
      <4>1. PICK j : j = i - 1
        OBVIOUS
      <4>2. j \in 1 .. m - 1 /\ j + 1 = i
        BY <3>2, <4>1
      <4> QED BY <1>6, <2>2, <4>2
    <3> QED BY <3>1, <3>2
  <2> QED BY <1>1, <1>2, <2>1, <2>2, <2>3, <2>4, SeqEqual
<1>8. Path(t, n - 1, f[a].next, f)
  <2>1. m - 1 <= n - 1 /\ Len(t) \in Nat
    BY <1>3, <1>6
  <2>2. ASSUME m - 1 = 0 PROVE n - 1 = 0 \/ f[a].next = Leaks!NULL
    BY <1>3, <2>2
  <2>3. ASSUME m - 1 # 0 PROVE t[1] = f[a].next /\ (m - 1 = n - 1 \/ f[t[m - 1]].next = Leaks!NULL)
    <3>1. 1 \in 1 .. m - 1 /\ m - 1 \in 1 .. m - 1 /\ m - 1 + 1 = m
      BY <1>3, <2>3
    <3>2. t[1] = s[2] /\ f[s[1]].next = s[2] /\ t[m - 1] = s[m]
      BY <1>3, <1>6, <3>1
    <3> QED BY <1>3, <3>2
  <2>4. ASSUME NEW j \in 1 .. m - 1 - 1 PROVE f[t[j]].next = t[j + 1]
    <3>1. PICK i : i = j + 1
      OBVIOUS
    <3>2. j \in 1 .. m - 1 /\ i \in 1 .. m - 1
      BY <3>1
    <3>3. t[j] = s[i] /\ t[i] = s[i + 1] /\ f[s[i]].next = s[i + 1]
      BY <1>3, <1>6, <3>1, <3>2
    <3> QED BY <3>1, <3>3
  <2> QED BY <1>6, <2>1, <2>2, <2>3, <2>4 DEF Path
<1> QED BY <1>7, <1>8

LEMMA PathOfNone ==
  ASSUME NEW f, NEW n \in Nat, NEW a, n = 0 \/ a = Leaks!NULL
  PROVE  Path(<<>>, n, a, f) /\ \A s : Path(s, n, a, f) => s = <<>>
<1>1. Path(<<>>, n, a, f)
  BY EmptySeq DEF Path
<1>2. ASSUME NEW s, Path(s, n, a, f) PROVE s = <<>>
  <2>1. s \in Seq(Addresses) /\ Len(s) \in Nat /\ Len(s) <= n /\ (Len(s) # 0 => s[1] = a)
    BY <1>2, LenProperties DEF Path
  <2>2. Len(s) = 0
    <3>1. CASE n = 0
      BY <2>1, <3>1
    <3>2. CASE a = Leaks!NULL
      <4>1. Len(s) # 0 => s[1] \in Addresses
        BY <2>1, ElementOfSeq
      <4> QED BY <2>1, <3>2, <4>1, NullIsNone
    <3> QED BY <3>1, <3>2
  <2> QED BY <2>1, <2>2, EmptySeq
<1> QED BY <1>1, <1>2

\* Two walks of the same length are the same: the shortest that are not differ
\* after their first step.
LEMMA OnePath ==
  ASSUME NEW f \in [Addresses -> BlockData], NEW n \in Nat, NEW a \in Addresses \cup {Leaks!NULL},
         NEW s, NEW t, Path(s, n, a, f), Path(t, n, a, f)
  PROVE  s = t
<1> SUFFICES ASSUME s # t PROVE FALSE
  OBVIOUS
<1> DEFINE Two == {m \in Nat : \E b \in Addresses \cup {Leaks!NULL} : \E u, v :
                      Path(u, m, b, f) /\ Path(v, m, b, f) /\ u # v}
<1>1. n \in Two /\ Two \in SUBSET Nat
  OBVIOUS
<1>2. PICK m \in Two : \A k \in Two : m <= k
  <2> HIDE DEF Two
  <2> QED BY <1>1, LeastNumber
<1>3. PICK b \in Addresses \cup {Leaks!NULL} : \E u, v : Path(u, m, b, f) /\ Path(v, m, b, f) /\ u # v
  BY <1>2
<1>4. PICK u, v : Path(u, m, b, f) /\ Path(v, m, b, f) /\ u # v
  BY <1>3
<1>5. m \in Nat /\ m # 0 /\ b \in Addresses
  BY <1>1, <1>2, <1>3, <1>4, PathOfNone
<1> HIDE DEF Two
<1>6. PICK u2 : Path(u2, m - 1, f[b].next, f) /\ u = <<b>> \o u2
  <2>1. m \in Nat \ {0} /\ Path(u, m, b, f)
    BY <1>4, <1>5
  <2> QED BY ONLY f \in [Addresses -> BlockData], <1>5, <2>1, PathRest
<1>7. PICK v2 : Path(v2, m - 1, f[b].next, f) /\ v = <<b>> \o v2
  <2>1. m \in Nat \ {0} /\ Path(v, m, b, f)
    BY <1>4, <1>5
  <2> QED BY ONLY f \in [Addresses -> BlockData], <1>5, <2>1, PathRest
<1>8. u2 # v2
  BY <1>4, <1>6, <1>7
<1>9. f[b].next \in Addresses \cup {Leaks!NULL} /\ m - 1 \in Nat
  BY <1>5 DEF BlockData
<1>10. m - 1 \in Two
  BY <1>6, <1>7, <1>8, <1>9 DEF Two
<1>11. m <= m - 1
  BY <1>2, <1>10
<1> QED BY <1>5, <1>11

LEMMA SomePath ==
  ASSUME NEW f \in [Addresses -> BlockData], NEW n \in Nat, NEW a \in Addresses \cup {Leaks!NULL}
  PROVE  \E s : Path(s, n, a, f)
<1> SUFFICES ASSUME ~\E s : Path(s, n, a, f) PROVE FALSE
  OBVIOUS
<1> DEFINE None == {m \in Nat : \E b \in Addresses \cup {Leaks!NULL} : ~\E u : Path(u, m, b, f)}
<1>1. n \in None /\ None \in SUBSET Nat
  OBVIOUS
<1>2. PICK m \in None : \A k \in None : m <= k
  <2> HIDE DEF None
  <2> QED BY <1>1, LeastNumber
<1>3. PICK b \in Addresses \cup {Leaks!NULL} : ~\E u : Path(u, m, b, f)
  BY <1>2
<1>4. m \in Nat /\ m # 0 /\ b \in Addresses
  BY <1>1, <1>2, <1>3, PathOfNone
<1>5. f[b].next \in Addresses \cup {Leaks!NULL} /\ m - 1 \in Nat /\ ~(m <= m - 1)
  BY <1>4 DEF BlockData
<1>6. m - 1 \notin None
  <2> HIDE DEF None
  <2> QED BY <1>2, <1>5
<1>7. PICK t : Path(t, m - 1, f[b].next, f)
  BY <1>5, <1>6
<1>8. PICK s : s = <<b>> \o t
  OBVIOUS
<1> QED BY <1>3, <1>4, <1>7, <1>8, PathLonger

\* The recursion has a solution, and every solution takes the path.
LEMMA WalksExist ==
  ASSUME NEW f \in [Addresses -> BlockData]
  PROVE  \E w : Walks(w, f)
<1> DEFINE A == Addresses \cup {Leaks!NULL}
           w == [n \in Nat |-> [a \in A |-> CHOOSE s : Path(s, n, a, f)]]
           step(n, a) == IF n = 0 \/ a = Leaks!NULL THEN <<>> ELSE <<a>> \o w[n - 1][f[a].next]
<1>1. ASSUME NEW n \in Nat, NEW a \in A PROVE Path(w[n][a], n, a, f)
  BY SomePath
<1>2. ASSUME NEW n \in Nat, NEW a \in A PROVE w[n][a] = step(n, a)
  <2>1. PICK s : s = w[n][a]
    OBVIOUS
  <2>2. Path(s, n, a, f)
    BY <1>1, <2>1
  <2>3. CASE n = 0 \/ a = Leaks!NULL
    BY <2>1, <2>2, <2>3, PathOfNone
  <2>4. CASE n # 0 /\ a # Leaks!NULL
    <3>1. n \in Nat \ {0} /\ a \in Addresses /\ n - 1 \in Nat /\ f[a].next \in A
      BY <2>4 DEF BlockData
    <3>2. PICK t : t = w[n - 1][f[a].next]
      OBVIOUS
    <3>3. Path(t, n - 1, f[a].next, f)
      BY <1>1, <3>1, <3>2
    <3>4. PICK u : u = <<a>> \o t
      OBVIOUS
    <3>5. Path(u, n, a, f)
      BY <3>1, <3>3, <3>4, PathLonger
    <3>6. s = u
      BY <2>2, <3>5, OnePath
    <3> QED BY <2>1, <2>4, <3>2, <3>4, <3>6
  <2> QED BY <2>3, <2>4
<1>3. w = [n \in Nat |-> [a \in A |-> step(n, a)]]
  <2>1. ASSUME NEW n \in Nat PROVE w[n] = [a \in A |-> step(n, a)]
    <3>1. w[n] = [a \in A |-> w[n][a]]
      OBVIOUS
    <3> HIDE DEF w, step
    <3> QED BY <1>2, <3>1
  <2>2. w = [n \in Nat |-> w[n]]
    OBVIOUS
  <2> HIDE DEF w, step
  <2> QED BY <2>1, <2>2
<1>4. Walks(w, f)
  <2>1. PICK v : v = w
    OBVIOUS
  <2>2. v = [n \in Nat |-> [a \in A |-> IF n = 0 \/ a = Leaks!NULL THEN <<>>
                                        ELSE <<a>> \o v[n - 1][f[a].next]]]
    <3> HIDE DEF w
    <3> QED BY <1>3, <2>1
  <2> HIDE DEF w
  <2> QED BY <2>1, <2>2 DEF Walks
<1> QED BY <1>4

LEMMA WalkTakesPath ==
  ASSUME NEW f \in [Addresses -> BlockData], NEW w, Walks(w, f),
         NEW n \in Nat, NEW a \in Addresses \cup {Leaks!NULL}, NEW s, Path(s, n, a, f)
  PROVE  w[n][a] = s
<1> SUFFICES ASSUME w[n][a] # s PROVE FALSE
  OBVIOUS
<1> DEFINE Off == {m \in Nat : \E b \in Addresses \cup {Leaks!NULL} : \E u :
                      Path(u, m, b, f) /\ w[m][b] # u}
<1>1. n \in Off /\ Off \in SUBSET Nat
  OBVIOUS
<1>2. PICK m \in Off : \A k \in Off : m <= k
  <2> HIDE DEF Off
  <2> QED BY <1>1, LeastNumber
<1>3. PICK b \in Addresses \cup {Leaks!NULL} : \E u : Path(u, m, b, f) /\ w[m][b] # u
  BY <1>2
<1>4. PICK u : Path(u, m, b, f) /\ w[m][b] # u
  BY <1>3
<1>5. m \in Nat
  BY <1>1, <1>2
<1> HIDE DEF Off
<1>6. w[m][b] = IF m = 0 \/ b = Leaks!NULL THEN <<>> ELSE <<b>> \o w[m - 1][f[b].next]
  <2>1. w[m] = [x \in Addresses \cup {Leaks!NULL} |->
                 IF m = 0 \/ x = Leaks!NULL THEN <<>> ELSE <<x>> \o w[m - 1][f[x].next]]
    BY <1>5 DEF Walks
  <2> QED BY <1>3, <2>1
<1>7. m # 0 /\ b \in Addresses
  BY <1>3, <1>4, <1>5, <1>6, PathOfNone
<1>8. PICK t : Path(t, m - 1, f[b].next, f) /\ u = <<b>> \o t
  BY <1>4, <1>5, <1>7, PathRest
<1>9. f[b].next \in Addresses \cup {Leaks!NULL} /\ m - 1 \in Nat /\ ~(m <= m - 1)
  BY <1>5, <1>7 DEF BlockData
<1>10. m - 1 \notin Off
  BY <1>2, <1>9
<1>11. w[m - 1][f[b].next] = t
  BY <1>8, <1>9, <1>10 DEF Off
<1> QED BY <1>4, <1>6, <1>7, <1>8, <1>11, NullIsNone

LEMMA Fits ==
  ASSUME NEW s \in Seq(Addresses), \A j, k \in 1 .. Len(s) : s[j] = s[k] => j = k
  PROVE  /\ Cardinality(Addresses) \in Nat /\ Leaks!Cardinality(Addresses) = Cardinality(Addresses)
         /\ Len(s) <= Cardinality(Addresses)
<1>1. IsFiniteSet(Addresses)
  BY LeaksOK DEF Leaks!MiniValgrindAssumption, Leaks!IsFiniteSet, IsFiniteSet
<1>2. Cardinality(Addresses) \in Nat
  BY <1>1, FS_CardinalityType
<1>3. PICK m \in Nat : m = Len(s)
  BY LenProperties
<1>4. PICK J : J = 1 .. m
  OBVIOUS
<1>5. s \in [J -> Addresses]
  BY <1>3, <1>4, LenProperties
<1>6. IsFiniteSet(J) /\ Cardinality(J) = m
  <2>1. IsFiniteSet(1 .. m) /\ Cardinality(1 .. m) = IF 1 > m THEN 0 ELSE m - 1 + 1
    BY FS_Interval
  <2> QED BY <1>4, <2>1
<1>7. ~\E x, y \in J : x # y /\ s[x] = s[y]
  BY <1>3, <1>4
<1>8. ~(Cardinality(Addresses) < Cardinality(J))
  BY <1>1, <1>5, <1>6, <1>7, FS_PigeonHole
<1>9. Leaks!Cardinality(Addresses) = Cardinality(Addresses)
  BY DEF Leaks!Cardinality, Cardinality
<1> QED BY <1>2, <1>3, <1>6, <1>8, <1>9

LEMMA ChainIsPath ==
  ASSUME NEW s \in Seq(Addresses), NEW h, NEW f, ChainOK(s, h, f),
         NEW n \in Nat, Len(s) < n
  PROVE  Path(s, n, h, f)
<1>1. PICK m \in Nat : m = Len(s)
  BY LenProperties
<1>2. /\ h = IF m = 0 THEN Leaks!NULL ELSE s[1]
      /\ \A j \in 1 .. m : f[s[j]].next = IF j = m THEN Leaks!NULL ELSE s[j + 1]
  BY <1>1 DEF ChainOK
<1>3. m # 0 => m \in 1 .. m
  OBVIOUS
<1>4. \A j \in 1 .. m - 1 : f[s[j]].next = s[j + 1]
  BY <1>2
<1> QED BY <1>1, <1>2, <1>3, <1>4 DEF Path

\* While no block has moved the loops see what the program holds.
LEMMA ListIsOwned ==
  ASSUME LeakInv, ~moved
  PROVE  /\ Leaks!List = owned
         /\ Leaks!Held = {owned[j] : j \in 1 .. Len(owned)}
         /\ Leaks!Held \in SUBSET Addresses /\ Len(owned) \in Nat
         /\ \A a : Leaks!inside(a) <=> a \in Leaks!Held
<1>1. /\ owned \in Seq(Addresses) /\ meta_data \in [Addresses -> BlockData]
      /\ head \in Addresses \cup {Leaks!NULL} /\ ChainOK(owned, head, meta_data)
  BY DEF LeakInv, LeakTypes
<1>2. PICK c \in Nat : c = Leaks!Cardinality(Addresses) /\ Len(owned) < c + 1
  BY <1>1, Fits, LenProperties DEF ChainOK
<1>3. Path(owned, c + 1, head, meta_data)
  BY <1>1, <1>2, ChainIsPath
<1>4. Walks(Leaks!Walk, meta_data)
  <2>1. PICK w : Walks(w, meta_data)
    BY <1>1, WalksExist
  <2>2. Leaks!Walk = CHOOSE v : Walks(v, meta_data)
    BY DEF Leaks!Walk, Walks
  <2> QED BY <2>1, <2>2
<1>5. Leaks!Walk[c + 1][head] = owned
  <2>1. PICK w : w = Leaks!Walk
    OBVIOUS
  <2>2. Walks(w, meta_data)
    BY <1>4, <2>1
  <2>3. w[c + 1][head] = owned
    BY <1>1, <1>2, <1>3, <2>2, WalkTakesPath
  <2> QED BY <2>1, <2>3
<1>6. Leaks!List = owned
  BY <1>2, <1>5 DEF Leaks!List
<1>7. /\ Leaks!Held = {owned[j] : j \in 1 .. Len(owned)}
      /\ Leaks!Held \in SUBSET Addresses /\ Len(owned) \in Nat
  BY <1>1, LenProperties, ElementOfSeq DEF Leaks!Held, Leaks!Range
<1> QED BY <1>6, <1>7 DEF Leaks!inside, Leaks!Held

LEMMA BlockRemoved ==
  ASSUME NEW S, NEW s \in Seq(S), NEW e \in Leaks!Range(s), NEW t, t = Leaks!RemoveFirst(s, e)
  PROVE  \E at \in 1 .. Len(s) :
           /\ s[at] = e /\ t \in Seq(S) /\ Len(t) = Len(s) - 1
           /\ \A k \in 1 .. Len(s) - 1 : t[k] = IF k < at THEN s[k] ELSE s[k + 1]
<1> DEFINE I == {i \in 1 .. Len(s) : s[i] = e}
           at == Leaks!SelectInSeq(s, LAMBDA v : v = e)
           left == SubSeq(s, 1, at - 1)
           right == SubSeq(s, at + 1, Len(s))
<1>1. \E i \in 1 .. Len(s) : s[i] = e
  BY LenProperties DEF Leaks!Range
<1>2. at \in I
  <2>1. I \in SUBSET Nat /\ I # {}
    BY <1>1
  <2>2. \E i \in I : \A j \in I : i <= j
    <3> HIDE DEF I
    <3> QED BY <2>1, LeastNumber
  <2>3. at = Leaks!Min(I)
    BY <2>1 DEF Leaks!SelectInSeq
  <2> HIDE DEF I, at
  <2> QED BY <2>2, <2>3 DEF Leaks!Min
<1>3. at \in 1 .. Len(s) /\ s[at] = e /\ Len(s) \in Nat
  <2> HIDE DEF at
  <2> QED BY <1>2
<1>4. t = left \o right
  <2> HIDE DEF at
  <2> QED BY <1>1 DEF Leaks!RemoveFirst, Leaks!RemoveAt, at
<1> HIDE DEF I, at
<1>5. /\ left \in Seq(S) /\ Len(left) = at - 1
      /\ \A k \in 1 .. at - 1 : left[k] = s[k]
  <2>1. 1 \in Int /\ at - 1 \in Int /\ \A k \in 1 .. at - 1 : s[k] \in S
    BY <1>3, ElementOfSeq
  <2>2. /\ left \in Seq(S) /\ Len(left) = IF 1 <= at - 1 THEN at - 1 - 1 + 1 ELSE 0
        /\ \A k \in 1 .. at - 1 - 1 + 1 : left[k] = s[1 + k - 1]
    BY <2>1, SubSeqProperties
  <2> HIDE DEF left
  <2> QED BY <1>3, <2>2
<1>6. /\ right \in Seq(S) /\ Len(right) = Len(s) - at
      /\ \A k \in 1 .. Len(s) - at : right[k] = s[at + k]
  <2>1. at + 1 \in Int /\ Len(s) \in Int /\ \A k \in at + 1 .. Len(s) : s[k] \in S
    BY <1>3, ElementOfSeq
  <2>2. /\ right \in Seq(S)
        /\ Len(right) = IF at + 1 <= Len(s) THEN Len(s) - (at + 1) + 1 ELSE 0
        /\ \A k \in 1 .. Len(s) - (at + 1) + 1 : right[k] = s[at + 1 + k - 1]
    BY <2>1, SubSeqProperties
  <2> HIDE DEF right
  <2> QED BY <1>3, <2>2
<1> HIDE DEF left, right
<1>7. /\ t \in Seq(S) /\ Len(t) = Len(left) + Len(right)
      /\ \A k \in 1 .. Len(left) + Len(right) : t[k] = IF k <= Len(left) THEN left[k] ELSE right[k - Len(left)]
  BY ONLY <1>4, <1>5, <1>6, ConcatProperties
<1>8. Len(t) = Len(s) - 1
  BY <1>3, <1>5, <1>6, <1>7
<1>9. ASSUME NEW k \in 1 .. Len(s) - 1 PROVE t[k] = IF k < at THEN s[k] ELSE s[k + 1]
  <2>1. k \in 1 .. Len(left) + Len(right) /\ k \in Int
    BY <1>7, <1>8
  <2>2. CASE k < at
    <3>1. k \in 1 .. at - 1 /\ k <= Len(left)
      BY <1>3, <1>5, <2>2
    <3> QED BY <1>5, <1>7, <2>1, <2>2, <3>1
  <2>3. CASE ~(k < at)
    <3>1. k - Len(left) \in 1 .. Len(s) - at /\ ~(k <= Len(left)) /\ at + (k - Len(left)) = k + 1
      BY <1>3, <1>5, <2>1, <2>3
    <3>2. t[k] = right[k - Len(left)]
      BY <1>7, <2>1, <3>1
    <3>3. right[k - Len(left)] = s[at + (k - Len(left))]
      BY <1>6, <3>1
    <3> QED BY <2>3, <3>1, <3>2, <3>3
  <2> QED BY <2>2, <2>3
<1> QED BY <1>3, <1>7, <1>8, <1>9


---------------------------------------------------------------------------
(* The steps of mini_valgrind.                                             *)

LEMMA ChainLonger ==
  ASSUME NEW s \in Seq(Addresses), NEW h, NEW f, ChainOK(s, h, f),
         NEW d \in Addresses, \A j \in 1 .. Len(s) : s[j] # d,
         NEW t, t = <<d>> \o s,
         NEW g, g[d].next = h, \A a \in Addresses : a # d => g[a].next = f[a].next
  PROVE  ChainOK(t, d, g)
<1>1. PICK m \in Nat : m = Len(s)
  BY LenProperties
<1>2. /\ Len(t) = m + 1 /\ t[1] = d
      /\ \A j \in 1 .. m : t[j + 1] = s[j]
  BY <1>1, Prefixed
<1>3. /\ \A j, k \in 1 .. m : s[j] = s[k] => j = k
      /\ h = IF m = 0 THEN Leaks!NULL ELSE s[1]
      /\ \A j \in 1 .. m : f[s[j]].next = IF j = m THEN Leaks!NULL ELSE s[j + 1]
  BY <1>1 DEF ChainOK
<1>4. \A j \in 1 .. m : s[j] \in Addresses /\ s[j] # d
  BY <1>1, ElementOfSeq
<1>5. ASSUME NEW j \in 1 .. m + 1, j # 1 PROVE \E i \in 1 .. m : i + 1 = j /\ t[j] = s[i]
  <2>1. PICK i : i = j - 1
    OBVIOUS
  <2>2. i \in 1 .. m /\ i + 1 = j
    BY <1>5, <2>1
  <2> QED BY <1>2, <2>2
<1>6. ASSUME NEW j \in 1 .. m + 1, NEW k \in 1 .. m + 1, t[j] = t[k] PROVE j = k
  <2>1. CASE j = 1 /\ k = 1
    BY <2>1
  <2>2. CASE j = 1 /\ k # 1
    BY <1>2, <1>4, <1>5, <1>6, <2>2
  <2>3. CASE j # 1 /\ k = 1
    BY <1>2, <1>4, <1>5, <1>6, <2>3
  <2>4. CASE j # 1 /\ k # 1
    <3>1. PICK i \in 1 .. m : i + 1 = j /\ t[j] = s[i]
      BY <1>5, <2>4
    <3>2. PICK l \in 1 .. m : l + 1 = k /\ t[k] = s[l]
      BY <1>5, <2>4
    <3> QED BY <1>3, <1>6, <3>1, <3>2
  <2> QED BY <2>1, <2>2, <2>3, <2>4
<1>7. ASSUME NEW j \in 1 .. m + 1
      PROVE  g[t[j]].next = IF j = m + 1 THEN Leaks!NULL ELSE t[j + 1]
  <2>1. CASE j = 1
    <3>1. g[t[j]].next = h
      BY <1>2, <2>1
    <3>2. m # 0 => t[j + 1] = s[1]
      <4>1. m # 0 => 1 \in 1 .. m
        OBVIOUS
      <4> QED BY <1>2, <2>1, <4>1
    <3>3. j = m + 1 <=> m = 0
      BY <2>1
    <3>4. h = IF m = 0 THEN Leaks!NULL ELSE s[1]
      BY <1>3
    <3> QED BY ONLY <3>1, <3>2, <3>3, <3>4
  <2>2. CASE j # 1
    <3>1. PICK i \in 1 .. m : i + 1 = j /\ t[j] = s[i]
      BY <1>5, <2>2
    <3>2. g[s[i]].next = f[s[i]].next
      BY <1>4
    <3>3. f[s[i]].next = IF i = m THEN Leaks!NULL ELSE s[i + 1]
      BY <1>3
    <3>4. i # m => t[j + 1] = s[i + 1]
      <4>1. i # m => j \in 1 .. m
        BY <3>1
      <4> QED BY <1>2, <3>1, <4>1
    <3>5. j = m + 1 <=> i = m
      BY <3>1
    <3>6. g[t[j]].next = f[s[i]].next
      BY <3>1, <3>2
    <3> QED BY ONLY <3>3, <3>4, <3>5, <3>6
  <2> QED BY <2>1, <2>2
<1>8. Len(t) # 0
  BY <1>2
<1> QED BY <1>2, <1>6, <1>7, <1>8 DEF ChainOK

\* The sequence without its place at; and what led to d leads past it.
Without(t, s, at) == /\ Len(t) = Len(s) - 1
                     /\ \A k \in 1 .. Len(s) - 1 : t[k] = IF k < at THEN s[k] ELSE s[k + 1]
Relinked(g, f, s, d) ==
  \A j \in 1 .. Len(s) : g[s[j]].next = IF f[s[j]].next = d THEN f[d].next ELSE f[s[j]].next

LEMMA ChainShorter ==
  ASSUME NEW s \in Seq(Addresses), NEW h, NEW f, ChainOK(s, h, f),
         NEW d \in Addresses, NEW at \in 1 .. Len(s), s[at] = d,
         NEW t, Without(t, s, at), NEW g, Relinked(g, f, s, d),
         NEW e, e = IF h = d THEN f[d].next ELSE h
  PROVE  ChainOK(t, e, g)
<1>1. PICK m \in Nat : m = Len(s)
  BY LenProperties
<1>2. /\ \A j, k \in 1 .. m : s[j] = s[k] => j = k
      /\ h = IF m = 0 THEN Leaks!NULL ELSE s[1]
      /\ \A j \in 1 .. m : f[s[j]].next = IF j = m THEN Leaks!NULL ELSE s[j + 1]
  BY <1>1 DEF ChainOK
<1>3. /\ at \in 1 .. m /\ s[at] = d /\ Len(t) = m - 1
      /\ \A k \in 1 .. m - 1 : t[k] = IF k < at THEN s[k] ELSE s[k + 1]
      /\ \A j \in 1 .. m : g[s[j]].next = IF f[s[j]].next = d THEN f[d].next ELSE f[s[j]].next
      /\ \A j \in 1 .. m : s[j] = d => j = at
  BY <1>1, <1>2 DEF Without, Relinked
<1>4. ASSUME NEW k \in 1 .. m - 1
      PROVE  \E i \in 1 .. m : i = (IF k < at THEN k ELSE k + 1) /\ t[k] = s[i]
  BY <1>3
<1>5. ASSUME NEW j \in 1 .. m - 1, NEW k \in 1 .. m - 1, t[j] = t[k] PROVE j = k
  <2>1. PICK i \in 1 .. m : i = (IF j < at THEN j ELSE j + 1) /\ t[j] = s[i]
    BY <1>4
  <2>2. PICK l \in 1 .. m : l = (IF k < at THEN k ELSE k + 1) /\ t[k] = s[l]
    BY <1>4
  <2>3. i = l
    BY <1>2, <1>5, <2>1, <2>2
  <2> QED BY <1>3, <2>1, <2>2, <2>3
<1>6. f[d].next = IF at = m THEN Leaks!NULL ELSE s[at + 1]
  BY <1>2, <1>3
<1>7. e = IF m - 1 = 0 THEN Leaks!NULL ELSE t[1]
  <2>1. h = s[1] /\ 1 \in 1 .. m
    BY <1>2, <1>3
  <2>2. CASE at = 1
    <3>1. h = d
      BY <1>3, <2>1, <2>2
    <3>2. m - 1 # 0 => t[1] = s[2]
      BY <1>3, <2>2
    <3> QED BY <1>6, <2>2, <3>1, <3>2
  <2>3. CASE at # 1
    <3>1. h # d
      BY <1>3, <2>1, <2>3
    <3>2. m - 1 # 0 /\ t[1] = s[1]
      BY <1>3, <2>3
    <3> QED BY <2>1, <3>1, <3>2
  <2> QED BY <2>2, <2>3
<1>8. ASSUME NEW k \in 1 .. m - 1
      PROVE  g[t[k]].next = IF k = m - 1 THEN Leaks!NULL ELSE t[k + 1]
  <2>1. CASE k + 1 = at
    <3>1. k \in 1 .. m /\ t[k] = s[k] /\ f[s[k]].next = d
      BY <1>2, <1>3, <2>1
    <3>2. g[t[k]].next = f[d].next
      BY <1>3, <3>1
    <3>3. at # m => t[k + 1] = s[at + 1]
      BY <1>3, <2>1
    <3> QED BY <1>3, <1>6, <2>1, <3>2, <3>3
  <2>2. CASE k + 1 < at
    <3>1. k \in 1 .. m /\ k + 1 \in 1 .. m /\ k # m /\ k # m - 1 /\ t[k] = s[k] /\ t[k + 1] = s[k + 1]
      BY <1>3, <2>2
    <3>2. f[s[k]].next = s[k + 1]
      BY <1>2, <3>1
    <3>3. s[k + 1] # d
      <4>1. PICK i : i = k + 1
        OBVIOUS
      <4> QED BY <1>3, <2>2, <3>1, <4>1
    <3> QED BY <1>3, <3>1, <3>2, <3>3
  <2>3. CASE ~(k < at)
    <3>1. PICK i : i = k + 1
      OBVIOUS
    <3>2. i \in 1 .. m /\ t[k] = s[i] /\ (k = m - 1 <=> i = m)
      BY <1>3, <2>3, <3>1
    <3>3. f[s[i]].next = IF i = m THEN Leaks!NULL ELSE s[i + 1]
      BY <1>2, <3>2
    <3>4. f[s[i]].next # d
      <4>1. CASE i = m
        BY <3>3, <4>1, NullIsNone
      <4>2. CASE i # m
        <5>1. PICK j : j = i + 1
          OBVIOUS
        <5>2. j \in 1 .. m /\ j # at
          BY <2>3, <3>1, <3>2, <4>2, <5>1
        <5> QED BY <1>3, <3>3, <4>2, <5>1, <5>2
      <4> QED BY <4>1, <4>2
    <3>5. i # m => t[k + 1] = s[i + 1]
      <4>1. i # m => i \in 1 .. m - 1 /\ ~(i < at)
        BY <2>3, <3>1, <3>2
      <4> QED BY <1>3, <3>1, <4>1
    <3> QED BY <1>3, <3>1, <3>2, <3>3, <3>4, <3>5
  <2>4. k < at => k + 1 = at \/ k + 1 < at
    BY <1>3
  <2> QED BY <2>1, <2>2, <2>3, <2>4
<1> QED BY <1>3, <1>5, <1>7, <1>8 DEF ChainOK

LEMMA LeakInit == Leaks!Init => LeakInv
<1> SUFFICES ASSUME Leaks!Init PROVE LeakInv
  OBVIOUS
<1>1. LeakTypes
  BY EmptySeq DEF Leaks!Init, Leaks!NoBlock, LeakTypes, BlockData
<1>2. owned = <<>> /\ Len(owned) = 0 /\ head = Leaks!NULL
  BY EmptySeq DEF Leaks!Init
<1>3. ChainOK(owned, head, meta_data)
  BY <1>2 DEF ChainOK
<1>4. Leaks!Held = {}
  BY <1>2 DEF Leaks!Held, Leaks!Range
<1>5. Weight(meta_data, Leaks!Held) = 0
  BY <1>1, <1>4, WeightEffect DEF LeakTypes
<1>6. total_memory_requested = 0 /\ total_memory_freed = 0 /\ invalid_addresses = errors
  BY DEF Leaks!Init
<1> QED BY <1>1, <1>3, <1>5, <1>6 DEF LeakInv

\* What each step starts from.
LEMMA Exact ==
  ASSUME LeakInv, ~moved
  PROVE  /\ LeakTypes /\ ChainOK(owned, head, meta_data)
         /\ meta_data \in [Addresses -> BlockData] /\ owned \in Seq(Addresses)
         /\ total_memory_requested - total_memory_freed = Weight(meta_data, Leaks!Held)
         /\ invalid_addresses = errors
BY DEF LeakInv, LeakTypes

LEMMA LeakMalloc ==
  ASSUME LeakInv, ~moved, NEW size \in RequestSizes, Leaks!mini_malloc(size)
  PROVE  LeakInv'
<1>1. PICK data \in Addresses \ Leaks!Held :
        /\ meta_data' = [meta_data EXCEPT ![data] = [request_size |-> size, next |-> head]]
        /\ head' = data
        /\ total_memory_requested' = total_memory_requested + size
        /\ owned' = <<data>> \o owned
        /\ total_memory_freed' = total_memory_freed /\ invalid_addresses' = invalid_addresses
        /\ errors' = errors /\ moved' = moved
  BY DEF Leaks!mini_malloc
<1>2. PICK g : g = meta_data'
  OBVIOUS
<1>3. PICK t : t = owned'
  OBVIOUS
<1>4. PICK S : S = Leaks!Held
  OBVIOUS
<1>5. size \in Nat
  BY NullIsNone
<1>6. /\ g \in [Addresses -> BlockData]
      /\ g[data].next = head /\ g[data].request_size = size
      /\ \A a \in Addresses : a # data => g[a] = meta_data[a]
  BY <1>1, <1>2, <1>5, Exact DEF LeakTypes, BlockData
<1>7. t \in Seq(Addresses) /\ Len(t) = Len(owned) + 1 /\ t[1] = data
      /\ \A j \in 1 .. Len(owned) : t[j + 1] = owned[j]
  BY <1>1, <1>3, Exact, Prefixed
<1>8. LeakTypes'
  BY <1>1, <1>2, <1>3, <1>5, <1>6, <1>7, Exact DEF LeakTypes
<1>9. S = {owned[j] : j \in 1 .. Len(owned)} /\ S \in SUBSET Addresses /\ Len(owned) \in Nat
  BY <1>4, ListIsOwned
<1>10. ChainOK(t, data, g)
  <2>1. \A j \in 1 .. Len(owned) : owned[j] # data
    BY <1>1, <1>4, <1>9
  <2> QED BY <1>1, <1>3, <1>6, <2>1, Exact, ChainLonger
<1>11. Leaks!Held' = S \cup {data}
  <2>1. Leaks!Held' = {t[j] : j \in 1 .. Len(t)}
    BY <1>3, <1>7, LenProperties DEF Leaks!Held, Leaks!Range
  <2>2. ASSUME NEW j \in 1 .. Len(t) PROVE t[j] \in S \cup {data}
    <3>1. CASE j = 1
      BY <1>7, <3>1
    <3>2. CASE j # 1
      <4>1. PICK i : i = j - 1
        OBVIOUS
      <4>2. i \in 1 .. Len(owned) /\ i + 1 = j
        BY <1>7, <1>9, <3>2, <4>1
      <4> QED BY <1>7, <1>9, <4>2
    <3> QED BY <3>1, <3>2
  <2>3. ASSUME NEW a \in S PROVE \E j \in 1 .. Len(t) : t[j] = a
    <3>1. PICK i \in 1 .. Len(owned) : owned[i] = a
      BY <1>9
    <3>2. i + 1 \in 1 .. Len(t) /\ t[i + 1] = a
      BY <1>7, <1>9, <3>1
    <3> QED BY <3>2
  <2>4. 1 \in 1 .. Len(t) /\ t[1] = data
    BY <1>7, <1>9
  <2> QED BY <2>1, <2>2, <2>3, <2>4
<1>12. Weight(g, S \cup {data}) = Weight(meta_data, S) + size
  <2>1. PICK T : T = S \cup {data}
    OBVIOUS
  <2>2. T \in SUBSET Addresses /\ data \in T /\ T \ {data} = S
    BY <1>1, <1>4, <1>9, <2>1
  <2>3. Weight(g, T) = Weight(g, S) + g[data].request_size
    BY <1>6, <2>2, WeightEffect
  <2>4. \A a \in S : g[a].request_size = meta_data[a].request_size
    BY <1>1, <1>4, <1>6, <1>9
  <2>5. Weight(g, S) = Weight(meta_data, S)
    BY <1>6, <1>9, <2>4, Exact, SameWeight
  <2> QED BY <1>6, <2>1, <2>3, <2>5
<1>13. total_memory_requested' - total_memory_freed' = Weight(g, Leaks!Held')
  <2>1. PICK w : w = Weight(meta_data, S)
    OBVIOUS
  <2>2. w = total_memory_requested - total_memory_freed
    BY <1>4, <2>1, Exact
  <2>3. total_memory_requested \in Nat /\ total_memory_freed \in Nat
    BY Exact DEF LeakTypes
  <2> QED BY <1>1, <1>5, <1>11, <1>12, <2>1, <2>2, <2>3
<1>14. ChainOK(owned', head', meta_data') /\ Weight(g, Leaks!Held') = Weight(meta_data, Leaks!Held)'
  BY <1>1, <1>2, <1>3, <1>10
<1> QED BY <1>1, <1>8, <1>13, <1>14, Exact DEF LeakInv

LEMMA LeakInvalid ==
  ASSUME LeakInv, ~moved, NEW data, Leaks!Invalid(data)
  PROVE  LeakInv'
<1>1. /\ data \notin Leaks!Held
      /\ invalid_addresses' = invalid_addresses + 1
      /\ errors' = errors + IF data \in Leaks!Held THEN 0 ELSE 1
      /\ UNCHANGED <<head, meta_data, total_memory_requested, total_memory_freed, owned, moved>>
  BY ListIsOwned DEF Leaks!Invalid
<1>2. errors' = errors + 1
  BY <1>1
<1>3. LeakTypes'
  BY <1>1, <1>2, Exact DEF LeakTypes
<1>4. Leaks!Held' = Leaks!Held
  BY <1>1 DEF Leaks!Held
<1>5. ChainOK(owned, head, meta_data)' /\ Weight(meta_data, Leaks!Held)' = Weight(meta_data, Leaks!Held)
  BY <1>1, <1>4, Exact
<1>6. invalid_addresses' = errors'
  BY <1>1, <1>2, Exact
<1> QED BY <1>1, <1>3, <1>5, <1>6, Exact DEF LeakInv

LEMMA LeakFree ==
  ASSUME LeakInv, ~moved, NEW data \in Addresses, Leaks!FreeInside(data)
  PROVE  LeakInv'
<1>1. /\ data \in Leaks!Held
      /\ total_memory_freed' = total_memory_freed + meta_data[data].request_size
      /\ owned' = Leaks!RemoveFirst(owned, data)
      /\ errors' = errors + IF data \in Leaks!Held THEN 0 ELSE 1
      /\ total_memory_requested' = total_memory_requested
      /\ invalid_addresses' = invalid_addresses /\ moved' = moved
      /\ meta_data' = Leaks!Unlinked(data)
      /\ head' = IF head = data THEN meta_data[data].next ELSE head
  BY ListIsOwned DEF Leaks!FreeInside, Leaks!Freed
<1>2. PICK g : g = meta_data'
  OBVIOUS
<1>3. PICK t : t = owned'
  OBVIOUS
<1>4. PICK S : S = Leaks!Held
  OBVIOUS
<1>5. S = {owned[j] : j \in 1 .. Len(owned)} /\ S \in SUBSET Addresses /\ Len(owned) \in Nat
  BY <1>4, ListIsOwned
<1>6. PICK at \in 1 .. Len(owned) :
        /\ owned[at] = data /\ t \in Seq(Addresses) /\ Len(t) = Len(owned) - 1
        /\ \A k \in 1 .. Len(owned) - 1 : t[k] = IF k < at THEN owned[k] ELSE owned[k + 1]
  <2>1. data \in Leaks!Range(owned)
    BY <1>1 DEF Leaks!Held
  <2> QED BY <1>1, <1>3, <2>1, Exact, BlockRemoved
<1>7. g = [a \in Addresses |->
             IF a \in S /\ meta_data[a].next = data
             THEN [meta_data[a] EXCEPT !.next = meta_data[data].next] ELSE meta_data[a]]
  BY <1>1, <1>2, <1>4, ListIsOwned DEF Leaks!Unlinked
<1>8. ASSUME NEW a \in Addresses
      PROVE  /\ g[a] \in BlockData /\ g[a].request_size = meta_data[a].request_size
             /\ a \in S => g[a].next = IF meta_data[a].next = data THEN meta_data[data].next
                                       ELSE meta_data[a].next
  <2>1. meta_data[a] \in BlockData /\ meta_data[data] \in BlockData
    BY Exact
  <2>2. g[a] = IF a \in S /\ meta_data[a].next = data
               THEN [meta_data[a] EXCEPT !.next = meta_data[data].next] ELSE meta_data[a]
    BY <1>7
  <2> QED BY <2>1, <2>2 DEF BlockData
<1>9. g \in [Addresses -> BlockData]
  BY <1>7, <1>8
<1>10. meta_data[data] \in BlockData
  BY Exact
<1>11. LeakTypes'
  <2>1. head' \in Addresses \cup {Leaks!NULL}
    BY <1>1, <1>10, Exact DEF LeakTypes, BlockData
  <2>2. total_memory_freed' \in Nat /\ errors' \in Nat
    BY <1>1, <1>10, Exact DEF LeakTypes, BlockData
  <2> QED BY <1>1, <1>2, <1>3, <1>6, <1>9, <2>1, <2>2, Exact DEF LeakTypes
<1>12. ChainOK(t, head', g)
  <2>1. \A j \in 1 .. Len(owned) : owned[j] \in S /\ owned[j] \in Addresses
    BY <1>5
  <2>2. \A j \in 1 .. Len(owned) :
          g[owned[j]].next = IF meta_data[owned[j]].next = data THEN meta_data[data].next
                             ELSE meta_data[owned[j]].next
    BY <1>8, <2>1
  <2>3. owned \in Seq(Addresses) /\ ChainOK(owned, head, meta_data)
    BY Exact
  <2>4. PICK f, s, h : f = meta_data /\ s = owned /\ h = head
    OBVIOUS
  <2>5. /\ s \in Seq(Addresses) /\ ChainOK(s, h, f) /\ at \in 1 .. Len(s) /\ s[at] = data
    BY <1>6, <2>3, <2>4
  <2>6. Without(t, s, at)
    BY <1>6, <2>4 DEF Without
  <2>7. Relinked(g, f, s, data)
    BY <2>2, <2>4 DEF Relinked
  <2>8. PICK e : e = IF h = data THEN f[data].next ELSE h
    OBVIOUS
  <2>9. ChainOK(t, e, g)
    BY ONLY data \in Addresses, <2>5, <2>6, <2>7, <2>8, ChainShorter
  <2> QED BY <1>1, <2>4, <2>8, <2>9
<1>13. Leaks!Held' = S \ {data}
  <2>1. Leaks!Held' = {t[k] : k \in 1 .. Len(t)}
    BY <1>3, <1>6, LenProperties DEF Leaks!Held, Leaks!Range
  <2>2. \A j, k \in 1 .. Len(owned) : owned[j] = owned[k] => j = k
    BY Exact DEF ChainOK
  <2>3. ASSUME NEW k \in 1 .. Len(t) PROVE t[k] \in S \ {data}
    <3>1. PICK i \in 1 .. Len(owned) : i # at /\ t[k] = owned[i]
      BY <1>5, <1>6
    <3> QED BY <1>5, <1>6, <2>2, <3>1
  <2>4. ASSUME NEW a \in S, a # data PROVE \E k \in 1 .. Len(t) : t[k] = a
    <3>1. PICK i \in 1 .. Len(owned) : owned[i] = a
      BY <1>5
    <3>2. i # at
      BY <1>6, <2>4, <3>1
    <3>3. PICK k : k = IF i < at THEN i ELSE i - 1
      OBVIOUS
    <3>4. k \in 1 .. Len(t) /\ t[k] = a
      BY <1>5, <1>6, <3>1, <3>2, <3>3
    <3> QED BY <3>4
  <2> QED BY <2>1, <2>3, <2>4
<1>14. Weight(meta_data, S) = Weight(g, S \ {data}) + meta_data[data].request_size
  <2>1. Weight(meta_data, S) = Weight(meta_data, S \ {data}) + meta_data[data].request_size
    BY <1>1, <1>4, <1>5, Exact, WeightEffect
  <2>2. PICK T : T = S \ {data}
    OBVIOUS
  <2>3. T \in SUBSET Addresses /\ \A a \in T : meta_data[a].request_size = g[a].request_size
    BY <1>5, <1>8, <2>2
  <2>4. Weight(meta_data, T) = Weight(g, T)
    BY <1>9, <2>3, Exact, SameWeight
  <2> QED BY <2>1, <2>2, <2>4
<1>15. total_memory_requested' - total_memory_freed' = Weight(g, Leaks!Held')
  <2>1. PICK w, r : w = Weight(g, S \ {data}) /\ r = meta_data[data].request_size
    OBVIOUS
  <2>2. w \in Nat /\ r \in Nat
    <3>1. S \ {data} \in SUBSET Addresses
      BY <1>5
    <3> QED BY <1>9, <1>10, <2>1, <3>1, WeightEffect DEF BlockData
  <2>3. total_memory_requested - total_memory_freed = w + r
    BY <1>4, <1>14, <2>1, Exact
  <2>4. total_memory_requested \in Nat /\ total_memory_freed \in Nat
    BY Exact DEF LeakTypes
  <2>5. /\ total_memory_requested' = total_memory_requested
        /\ total_memory_freed' = total_memory_freed + r
    BY <1>1, <2>1
  <2>6. total_memory_requested' - total_memory_freed' = w
    BY ONLY <2>2, <2>3, <2>4, <2>5
  <2> QED BY <1>13, <2>1, <2>6
<1>16. ChainOK(owned, head, meta_data)' /\ Weight(g, Leaks!Held') = Weight(meta_data, Leaks!Held)'
  BY <1>2, <1>3, <1>12
<1>17. invalid_addresses' = errors'
  BY <1>1, Exact DEF LeakTypes
<1> QED BY <1>11, <1>15, <1>16, <1>17 DEF LeakInv

LEMMA LeakResize ==
  ASSUME LeakInv, ~moved, NEW data \in Addresses, NEW size \in RequestSizes,
         Leaks!ResizeInside(data, size)
  PROVE  LeakInv'
<1>1. PICK old : old = meta_data[data].request_size
  OBVIOUS
<1>2. /\ data \in Leaks!Held
      /\ total_memory_freed' = total_memory_freed + IF old > size THEN old - size ELSE 0
      /\ total_memory_requested' = total_memory_requested + IF old > size THEN 0 ELSE size - old
      /\ head' = head /\ invalid_addresses' = invalid_addresses
      /\ \/ /\ meta_data' = [meta_data EXCEPT ![data].request_size = size]
            /\ errors' = errors + IF data \in Leaks!Held THEN 0 ELSE 1
            /\ owned' = owned /\ moved' = moved
         \/ moved' = TRUE /\ meta_data' = meta_data /\ owned' = owned /\ errors' = errors
  BY <1>1, ListIsOwned DEF Leaks!ResizeInside, Leaks!Counted
<1>3. /\ size \in Nat /\ old \in Nat
      /\ total_memory_requested \in Nat /\ total_memory_freed \in Nat /\ errors \in Nat
      /\ meta_data[data] \in BlockData
  BY <1>1, NullIsNone, Exact DEF LeakTypes, BlockData
<1>4. /\ total_memory_requested' \in Nat /\ total_memory_freed' \in Nat
      /\ total_memory_requested' - total_memory_freed' =
           total_memory_requested - total_memory_freed + size - old
  <2>1. CASE old > size
    BY <1>2, <1>3, <2>1
  <2>2. CASE ~(old > size)
    BY <1>2, <1>3, <2>2
  <2> QED BY <2>1, <2>2
<1>5. CASE moved'
  <2>1. CASE meta_data' = meta_data /\ owned' = owned /\ errors' = errors
    <3>1. LeakTypes'
      BY <1>2, <1>4, <1>5, <2>1, Exact DEF LeakTypes
    <3> QED BY <1>5, <3>1 DEF LeakInv
  <2> QED BY <1>2, <1>5, <2>1
<1>6. CASE /\ ~moved' /\ meta_data' = [meta_data EXCEPT ![data].request_size = size]
           /\ errors' = errors /\ owned' = owned /\ moved' = moved
  <2>1. PICK g : g = meta_data'
    OBVIOUS
  <2>2. PICK S : S = Leaks!Held
    OBVIOUS
  <2>3. /\ g \in [Addresses -> BlockData] /\ g[data].request_size = size
        /\ \A a \in Addresses : g[a].next = meta_data[a].next
        /\ \A a \in Addresses : a # data => g[a] = meta_data[a]
    BY <1>3, <1>6, <2>1, Exact DEF BlockData
  <2>4. /\ S \in SUBSET Addresses /\ data \in S /\ Leaks!Held' = S
        /\ \A j \in 1 .. Len(owned) : owned[j] \in Addresses
    BY <1>2, <1>6, <2>2, ListIsOwned DEF Leaks!Held
  <2>5. LeakTypes'
    BY <1>2, <1>4, <1>6, <2>1, <2>3, Exact DEF LeakTypes
  <2>6. ChainOK(owned, head, g)
    BY <2>3, <2>4, Exact DEF ChainOK
  <2>7. Weight(g, S) - size = Weight(meta_data, S) - old
    <3>1. PICK T : T = S \ {data}
      OBVIOUS
    <3>2. T \in SUBSET Addresses /\ \A a \in T : g[a].request_size = meta_data[a].request_size
      BY <2>3, <2>4, <3>1
    <3>3. Weight(g, T) = Weight(meta_data, T) /\ Weight(g, T) \in Nat
      BY <2>3, <3>2, Exact, SameWeight, WeightEffect
    <3>4. Weight(g, S) = Weight(g, T) + size
      BY <2>3, <2>4, <3>1, WeightEffect
    <3>5. Weight(meta_data, S) = Weight(meta_data, T) + old
      BY <1>1, <2>4, <3>1, Exact, WeightEffect
    <3> QED BY <1>3, <3>3, <3>4, <3>5
  <2>8. total_memory_requested' - total_memory_freed' = Weight(g, S)
    <3>1. PICK w, v : w = Weight(g, S) /\ v = Weight(meta_data, S)
      OBVIOUS
    <3>2. w \in Nat /\ v \in Nat
      BY <2>3, <2>4, <3>1, Exact, WeightEffect
    <3>3. v = total_memory_requested - total_memory_freed
      BY <2>2, <3>1, Exact
    <3>4. w - size = v - old
      BY <2>7, <3>1
    <3>5. total_memory_requested' - total_memory_freed' = v + size - old
      BY <1>4, <3>3
    <3>6. w = v + size - old
      BY ONLY <1>3, <3>2, <3>4
    <3> QED BY <3>1, <3>5, <3>6
  <2>9. ChainOK(owned, head, meta_data)' /\ Weight(g, S) = Weight(meta_data, Leaks!Held)'
    BY <1>2, <1>6, <2>1, <2>4, <2>6
  <2>10. invalid_addresses' = errors'
    BY <1>2, <1>6, Exact
  <2> QED BY <2>5, <2>8, <2>9, <2>10 DEF LeakInv
<1> QED BY <1>2, <1>3, <1>5, <1>6

LEMMA LeakNext == LeakInv /\ [Leaks!Next]_Leaks!valgrindVars => LeakInv'
<1> SUFFICES ASSUME LeakInv, [Leaks!Next]_Leaks!valgrindVars PROVE LeakInv'
  OBVIOUS
<1>1. CASE UNCHANGED Leaks!valgrindVars
  <2>1. /\ UNCHANGED <<head, meta_data, total_memory_requested, total_memory_freed,
                       invalid_addresses, owned, errors, moved>>
    BY <1>1 DEF Leaks!valgrindVars
  <2>2. LeakTypes' <=> LeakTypes
    BY <2>1 DEF LeakTypes
  <2>3. Leaks!Held' = Leaks!Held
    BY <2>1 DEF Leaks!Held
  <2>4. ChainOK(owned, head, meta_data)' = ChainOK(owned, head, meta_data)
        /\ Weight(meta_data, Leaks!Held)' = Weight(meta_data, Leaks!Held)
    BY <2>1, <2>3
  <2> QED BY <2>1, <2>2, <2>4 DEF LeakInv
<1>2. CASE Leaks!Next
  <2>1. ~moved
    BY <1>2 DEF Leaks!Next
  <2>2. ASSUME NEW size \in RequestSizes, Leaks!mini_malloc(size) PROVE LeakInv'
    BY <2>1, <2>2, LeakMalloc
  <2>3. ASSUME NEW data \in Addresses, Leaks!mini_free(data) PROVE LeakInv'
    BY <2>1, <2>3, LeakInvalid, LeakFree DEF Leaks!mini_free
  <2>4. ASSUME NEW data \in Addresses \cup {Leaks!NULL}, NEW size \in RequestSizes,
               Leaks!mini_realloc(data, size)
        PROVE  LeakInv'
    <3>1. CASE data = Leaks!NULL
      BY <2>2, <2>4, <3>1 DEF Leaks!mini_realloc
    <3>2. CASE data # Leaks!NULL
      <4>1. data \in Addresses
        BY <3>2
      <4>2. Leaks!mini_free(data) \/ Leaks!Invalid(data) \/ Leaks!ResizeInside(data, size)
        BY <2>4, <3>2 DEF Leaks!mini_realloc
      <4> QED BY <2>1, <2>3, <4>1, <4>2, LeakInvalid, LeakResize
    <3> QED BY <3>1, <3>2
  <2> QED BY <1>2, <2>2, <2>3, <2>4 DEF Leaks!Next
<1> QED BY <1>1, <1>2

\* mini_valgrind.c: for all addresses and all sizes, as long as no realloc has
\* moved a block the list names what the program holds, the newest first, the
\* totals differ by what is held, and every wrong address has been counted.
THEOREM ReportAlwaysExact == Leaks!Spec => []ReportExact
<1>1. LeakInv => ReportExact
  <2> SUFFICES ASSUME LeakInv, ~moved
               PROVE  /\ Leaks!List = owned
                      /\ total_memory_requested - total_memory_freed = Weight(meta_data, Leaks!Held)
                      /\ invalid_addresses = errors
    BY DEF ReportExact, Leaks!ReportExact, Weight
  <2> QED BY ListIsOwned, Exact
<1> QED BY <1>1, LeakInit, LeakNext, PTL DEF Leaks!Spec
=============================================================================

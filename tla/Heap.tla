-------------------------------- MODULE Heap --------------------------------
(* malloc/alloc.c.  A header and a footer are one unit each, and sizes count *)
(* units; a unit holds either metadata or a word of somebody's data, and is  *)
(* read as whichever the code takes it for.  The chain of the next pointers  *)
(* from head is a sequence: a block off the list has a next of NULL, so that *)
(* lines 263-266 may leave it alone.  sbrk is external.                      *)
EXTENDS Integers, SequencesExt

CONSTANTS HeapSize,     \* units sbrk has to give
          Sizes,        \* sizes the program asks for
          SplitSizes,   \* the sizes near SIZE / 2 for which line 212 splits
          WORD,         \* size_t counts modulo this: more than HeapSize
          MaxCalls      \* bounds the calls

Units == 1 .. HeapSize
NULL == 0

VARIABLES heap,        \* its units, head's list of headers, and the break
          held,        \* the program's pointers: size asked for, and the first
                       \* units known to hold a word
          wrapped,     \* history: a split left less than its metadata
          calls        \* made so far

heapVars == <<heap, held, wrapped, calls>>

Meta(size, freed) == [size |-> size, freed |-> freed]
Zero == Meta(0, 0)       \* a word of zeroes, as metadata
Data == Meta(0, 1)       \* a word of data that is not zero where freed would be
NotHeld == [size |-> -1, known |-> 0, word |-> Zero]
Pointers == {a \in Units : held[a] # NotHeld}

Init == /\ heap = [unit |-> [a \in Units |-> Zero], head |-> <<>>, brk |-> 0]
        /\ held = [a \in Units |-> NotHeld]
        /\ wrapped = FALSE /\ calls = 0

---------------------------------------------------------------------------
(* Heaps h to heaps.                                                       *)

\* Slip: the remainder keeps the metadata's room as well.
splitShort(h, start, size) ==
  LET total == h.unit[start].size
      first_end == start + 1 + size
      second_begin == first_end + 1
      second_end == start + 1 + total
      rest == Meta((total - size) % WORD, 1)
  IN  [h EXCEPT !.unit = [@ EXCEPT ![start] = Meta(size, 0), ![first_end] = Meta(size, 0),
                                   ![second_begin] = rest, ![second_end] = rest],
                !.head = <<second_begin>> \o @]

split(h, start, size) ==
  LET total == h.unit[start].size
      first_end == start + 1 + size
      second_begin == first_end + 1
      second_end == start + 1 + total
      rest == Meta((total - size - 2) % WORD, 1)
  IN  [h EXCEPT !.unit = [@ EXCEPT ![start] = Meta(size, 0), ![first_end] = Meta(size, 0),
                                   ![second_begin] = rest, ![second_end] = rest],
                !.head = <<second_begin>> \o @]

FirstFit(h, size) == SelectInSeq(h.head, LAMBDA b : h.unit[b].size >= size)
Splits(h, size) == /\ FirstFit(h, size) # 0 /\ size \in SplitSizes
                   /\ h.unit[h.head[FirstFit(h, size)]].size > size

\* Lines 180-235: the pointer and the heap afterwards.
Allocated(h, size) ==
  LET i == FirstFit(h, size)
      curr == h.head[i]
      off == [h EXCEPT !.head = RemoveAt(@, i), !.unit[curr].freed = 0]
      p2 == h.brk + 1
  IN  IF i # 0
      THEN [ptr |-> curr + 1, heap |-> IF Splits(h, size) THEN split(off, curr, size) ELSE off]
      ELSE IF h.brk + size + 2 > HeapSize THEN [ptr |-> NULL, heap |-> h]
      ELSE [ptr |-> p2 + 1,
            heap |-> [h EXCEPT !.unit = [@ EXCEPT ![p2] = Meta(size, 0), ![p2 + 1 + size] = Meta(size, 0)],
                               !.brk = @ + size + 2]]

\* What lies before the heap is taken to be zero.
Read(h, a) == IF a \in Units THEN h.unit[a] ELSE Zero

\* Lines 259-261: the block to the left, if its footer says where it begins.
LeftOf(h, ptr) == ptr - 2 - Read(h, ptr - 2).size - 1
Merges(h, ptr) == /\ h.unit[ptr - 1].freed = 0 /\ h.head # <<>>
                  /\ Read(h, LeftOf(h, ptr)).freed # 0

\* The footer keeps the size, and the header its freed, of the block merged.
Freed(h, ptr) ==
  IF h.unit[ptr - 1].freed # 0 THEN h
  ELSE IF Merges(h, ptr)
  THEN [h EXCEPT !.unit[LeftOf(h, ptr)].size = @ + h.unit[ptr - 1].size + 2]
  ELSE [h EXCEPT !.head = <<ptr - 1>> \o @, !.unit[ptr - 1].freed = 1]

---------------------------------------------------------------------------
(* The calls of a program that frees and writes only what it holds.        *)

Written(h, ptr, size, word) ==
  [h EXCEPT !.unit = [a \in Units |-> IF a \in ptr .. ptr + size - 1 THEN word ELSE @[a]]]

Given(ptr, size, known) ==
  held' = [held EXCEPT ![ptr] = [size |-> size, known |-> known, word |-> Zero]]
Resized(old, size) == [old EXCEPT !.size = size, !.known = IF @ < size THEN @ ELSE size]

\* The footer of the block at b says where it begins: no block was merged into it
\* since it was split or made.
Whole(h, b) == h.unit[b + h.unit[b].size + 1].size = h.unit[b].size
Copied(ptr) == [held[ptr] EXCEPT !.known = IF Whole(heap, ptr - 1) THEN @ ELSE 0]

Wraps(size) == LET left == heap.unit[heap.head[FirstFit(heap, size)]].size - size
               IN  Splits(heap, size) /\ left < 2
Counted(size) == wrapped' = Wraps(size)

malloc(size) ==
  LET got == Allocated(heap, size)
  IN  /\ heap' = got.heap
      /\ IF got.ptr = NULL THEN UNCHANGED held ELSE Given(got.ptr, size, 0)
      /\ Counted(size)

calloc(size) ==
  LET got == Allocated(heap, size)
  IN  /\ got.ptr # NULL
      /\ heap' = Written(got.heap, got.ptr, size, Zero)
      /\ Given(got.ptr, size, size)
      /\ Counted(size)

free(ptr) == /\ heap' = Freed(heap, ptr)
             /\ held' = [held EXCEPT ![ptr] = NotHeld]
             /\ UNCHANGED wrapped

\* A size of 0 is a call of free, a pointer of NULL one of malloc.
realloc(ptr, size) ==
  /\ size # 0
  /\ LET old_size == heap.unit[ptr - 1].size
         got == Allocated(heap, size)
         copied == [got.heap EXCEPT !.unit = [a \in Units |->
                      IF a \in got.ptr .. got.ptr + old_size - 1
                      THEN got.heap.unit[ptr + a - got.ptr] ELSE @[a]]]
     IN  IF size <= old_size
         THEN /\ held' = [held EXCEPT ![ptr] = Resized(@, size)]
              /\ UNCHANGED <<heap, wrapped>>
         ELSE /\ got.ptr # NULL
              /\ heap' = Freed(copied, ptr)
              /\ held' = [held EXCEPT ![ptr] = NotHeld, ![got.ptr] = Resized(Copied(ptr), size)]
              /\ Counted(size)

\* The program writes all of what it asked for.
Fill(ptr) == /\ heap' = Written(heap, ptr, held[ptr].size, Data)
             /\ held' = [held EXCEPT ![ptr] = [size |-> @.size, known |-> @.size, word |-> Data]]
             /\ UNCHANGED wrapped

Next == /\ ~wrapped /\ calls < MaxCalls /\ calls' = calls + 1
        /\ \/ \E size \in Sizes : malloc(size) \/ calloc(size)
           \/ \E ptr \in Pointers : free(ptr) \/ Fill(ptr)
           \/ \E ptr \in Pointers, size \in Sizes : realloc(ptr, size)

Spec == Init /\ [][Next]_heapVars

---------------------------------------------------------------------------
(* Properties.                                                             *)

\* alloc.c:118-148, 178-292: blocks held and blocks on the list are large enough,
\* lie below the break and share no unit, and what the program wrote stays, but
\* for a block whose footer is that of a block merged into it: free then takes a
\* word in its middle for metadata (lines 259-272), and realloc copies what came of
\* that.  Until a split wraps its remainder (line 132).
BlocksKept ==
  LET Block(b) == b .. b + heap.unit[b].size + 1
      Blocks == {ptr - 1 : ptr \in Pointers} \cup ToSet(heap.head)
  IN  ~wrapped =>
      /\ \A b, c \in Blocks : b # c => Block(b) \cap Block(c) = {}
      /\ \A b \in Blocks : b + heap.unit[b].size + 1 <= heap.brk
      /\ \A b \in Blocks : (heap.unit[b].freed # 0) <=> (b \in ToSet(heap.head))
      /\ IsInjective(heap.head)
      /\ \A ptr \in Pointers :
           /\ held[ptr].size <= heap.unit[ptr - 1].size
           /\ Whole(heap, ptr - 1) =>
                \A a \in ptr .. ptr + held[ptr].known - 1 : heap.unit[a] = held[ptr].word
=============================================================================

----------------------------- MODULE MiniValgrind ---------------------------
(* mini_valgrind.c: malloc and its family wrapped with a list of meta_data   *)
(* in front of each payload, and three counters.  A block is its address;    *)
(* the list is the next fields in the blocks.  libc's allocator is external: *)
(* it finds any free address, moves a block it resizes, or fails.            *)
EXTENDS Integers, SequencesExt

CONSTANTS Addresses, RequestSizes, MaxRequests

NULL == 0

MiniValgrindAssumption == /\ IsFiniteSet(Addresses) /\ NULL \notin Addresses
                          /\ RequestSizes \subseteq Nat

VARIABLES head, meta_data,     \* meta_data[a]: what the block at a begins with
          total_memory_requested, total_memory_freed, invalid_addresses,
          owned,     \* history: addresses the program holds, the newest first
          errors,    \* history: frees and reallocs of what is not held
          moved,     \* history: realloc moved a block or failed
          requests

valgrindVars == <<head, meta_data, total_memory_requested, total_memory_freed,
                  invalid_addresses, owned, errors, moved, requests>>

NoBlock == [request_size |-> 0, next |-> NULL]
Init == /\ head = NULL /\ meta_data = [a \in Addresses |-> NoBlock]
        /\ total_memory_requested = 0 /\ total_memory_freed = 0 /\ invalid_addresses = 0
        /\ owned = <<>> /\ errors = 0 /\ moved = FALSE /\ requests = 0

\* The list as the loops walk it.
Walk[n \in Nat] == [a \in Addresses \cup {NULL} |->
  IF n = 0 \/ a = NULL THEN <<>> ELSE <<a>> \o Walk[n - 1][meta_data[a].next]]
List == Walk[Cardinality(Addresses) + 1][head]
inside(a) == a \in Range(List)
Held == Range(owned)

---------------------------------------------------------------------------

\* mini_malloc; mini_calloc is the same with a product for a size.
mini_malloc(request_size) == \E data \in Addresses \ Held :
  /\ request_size # 0
  /\ meta_data' = [meta_data EXCEPT ![data] = [request_size |-> request_size, next |-> head]]
  /\ head' = data
  /\ total_memory_requested' = total_memory_requested + request_size
  /\ owned' = <<data>> \o owned
  /\ UNCHANGED <<total_memory_freed, invalid_addresses, errors, moved>>

Invalid(data) == /\ ~inside(data)
                 /\ invalid_addresses' = invalid_addresses + 1
                 /\ errors' = errors + IF data \in Held THEN 0 ELSE 1
                 /\ UNCHANGED <<head, meta_data, total_memory_requested, total_memory_freed,
                                owned, moved>>

Freed(data) == /\ total_memory_freed' = total_memory_freed + meta_data[data].request_size
               /\ owned' = RemoveFirst(owned, data)
               /\ errors' = errors + IF data \in Held THEN 0 ELSE 1
               /\ UNCHANGED <<total_memory_requested, invalid_addresses, moved>>

\* The first block whose next is data is linked past it.
Unlinked(data) == [a \in Addresses |->
  IF inside(a) /\ meta_data[a].next = data THEN [meta_data[a] EXCEPT !.next = meta_data[data].next]
  ELSE meta_data[a]]

\* Slip: the head is taken for a block with another before it.
FreeInList(data) == /\ inside(data) /\ Freed(data)
                    /\ meta_data' = Unlinked(data)
                    /\ UNCHANGED head

FreeInside(data) == /\ inside(data) /\ Freed(data)
                    /\ meta_data' = Unlinked(data)
                    /\ head' = IF head = data THEN meta_data[data].next ELSE head

mini_free(data) == Invalid(data) \/ FreeInside(data)

\* The counters are changed before realloc is called.
Counted(data, request_size) ==
  LET old == meta_data[data].request_size
  IN  /\ total_memory_freed' = total_memory_freed + IF old > request_size THEN old - request_size ELSE 0
      /\ total_memory_requested' =
           total_memory_requested + IF old > request_size THEN 0 ELSE request_size - old

ResizeInside(data, request_size) ==
  /\ inside(data) /\ Counted(data, request_size)
  /\ \/ /\ meta_data' = [meta_data EXCEPT ![data].request_size = request_size]
        /\ errors' = errors + IF data \in Held THEN 0 ELSE 1
        /\ UNCHANGED <<owned, moved>>
     \/ \* Moved: the list still leads to the old address; or failed: NULL is written to.
        /\ moved' = TRUE /\ UNCHANGED <<meta_data, owned, errors>>
  /\ UNCHANGED <<head, invalid_addresses>>

mini_realloc(data, request_size) ==
  \/ data = NULL /\ mini_malloc(request_size)
  \/ data # NULL /\ request_size = 0 /\ mini_free(data)
  \/ data # NULL /\ request_size # 0 /\ (Invalid(data) \/ ResizeInside(data, request_size))

Next == /\ ~moved /\ requests < MaxRequests /\ requests' = requests + 1
        /\ \/ \E size \in RequestSizes : mini_malloc(size)
           \/ \E data \in Addresses : mini_free(data)
           \/ \E data \in Addresses \cup {NULL}, size \in RequestSizes : mini_realloc(data, size)

Spec == Init /\ [][Next]_valgrindVars

---------------------------------------------------------------------------
(* Properties.                                                             *)

\* The report at the end is right, as long as no realloc has moved a block
\* (mini_valgrind.h:24-59): the list names what the program holds, the newest
\* first, the difference of the totals is what it holds, and each wrong address
\* has been counted once, whatever was freed or resized in between.
ReportExact == ~moved =>
  /\ List = owned
  /\ total_memory_requested - total_memory_freed =
       FoldSet(LAMBDA a, sum : sum + meta_data[a].request_size, 0, Held)
  /\ invalid_addresses = errors
=============================================================================

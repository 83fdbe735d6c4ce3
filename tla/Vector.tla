------------------------------- MODULE Vector -------------------------------
(* vector.c with a copy constructor that allocates, such as that of strings. *)
(* A slot of array holds garbage or a pointer: to an element (its value), or *)
(* to one that has been destroyed.  Elements are told apart by their values, *)
(* because every slot is filled with a copy of its own.                      *)
EXTENDS Integers, SequencesExt

CONSTANTS Elements, Default,
          INITIAL_CAPACITY,
          MaxSize           \* bounds size and reservations

Garbage == "garbage"     \* also a pointer to what was destroyed
GROWTH_FACTOR == 2

VARIABLES size, capacity, array,
          expected,   \* history: the elements a sequence would hold
          misused     \* history: the call that left garbage among the elements

vectorVars == <<size, capacity, array, expected, misused>>

get_new_capacity(target) ==
  LET powers == {GROWTH_FACTOR ^ k : k \in 0 .. target}
  IN  CHOOSE p \in powers : p >= target /\ \A q \in powers : q >= target => p <= q

Init == /\ size = 0 /\ capacity = get_new_capacity(INITIAL_CAPACITY)
        /\ array = [i \in 1 .. capacity |-> Garbage]
        /\ expected = <<>> /\ misused = ""

---------------------------------------------------------------------------
(* Vectors v, of size, capacity and array, to vectors.                     *)

Now == [size |-> size, capacity |-> capacity, array |-> array]

\* realloc: new slots are garbage.
Reallocated(v, n) == LET room == get_new_capacity(n)
                     IN  [v EXCEPT !.capacity = room,
                                   !.array = [i \in 1 .. room |-> IF i <= v.capacity THEN v.array[i]
                                                                  ELSE Garbage]]
Over(f, g) == [i \in DOMAIN f |-> IF i \in DOMAIN g THEN g[i] ELSE f[i]]

\* Constructs what is new only if it reallocates, and destroys only if it
\* does not.
vector_resize(v, n) ==
  IF n >= v.capacity
  THEN LET w == Reallocated(v, n)
       IN  [w EXCEPT !.size = n, !.array = Over(@, [i \in v.size + 1 .. n |-> Default])]
  ELSE [v EXCEPT !.size = n, !.array = Over(@, [i \in n + 1 .. v.size |-> Garbage])]

\* The copies of newarray, whose pointers may have been destroyed meanwhile.
Copied(v, newarray) == [v EXCEPT !.array = Over(@, newarray)]

\* Slip: what stands behind the position is not moved up.
InsertedOver(v, position, element) ==
  LET w == vector_resize(v, v.size + 1)
  IN  Copied(w, [i \in 1 .. w.size |-> IF i = position + 1 THEN element ELSE w.array[i]])

Inserted(v, position, element) ==
  LET w == vector_resize(v, v.size + 1)
  IN  Copied(w, [i \in 1 .. w.size |-> IF i = position + 1 THEN element
                                       ELSE IF i <= position THEN w.array[i] ELSE w.array[i - 1]])

Erased(v, position) ==
  LET w == vector_resize(v, v.size - 1)
  IN  Copied(w, [i \in 1 .. w.size |-> IF i <= position THEN w.array[i] ELSE w.array[i + 1]])

---------------------------------------------------------------------------
(* The calls.  They end with the first that uses garbage.                  *)

Become(v) == size' = v.size /\ capacity' = v.capacity /\ array' = v.array

Misuse(v) == \E i \in 1 .. v.size : v.array[i] = Garbage
Call(name, v, elements) == /\ misused = "" /\ v.size <= MaxSize
                           /\ Become(v)
                           /\ expected' = elements
                           /\ misused' = IF Misuse(v) THEN name ELSE ""

vector_push_back(e) == LET w == vector_resize(Now, size + 1)
                       IN  Call("push_back", [w EXCEPT !.array[w.size] = e], Append(expected, e))
vector_pop_back == size > 0 /\ Call("pop_back", [Now EXCEPT !.size = @ - 1, !.array[size] = Garbage],
                                    Front(expected))
\* A position behind the end is the end.
vector_insert(position, e) == LET at == IF position >= size THEN size ELSE position
                              IN  Call("insert", Inserted(Now, at, e), InsertAt(expected, at + 1, e))
vector_erase(position) == position < size
                          /\ Call("erase", Erased(Now, position), RemoveAt(expected, position + 1))
vector_set(position, e) == position < size
                           /\ Call("set", [Now EXCEPT !.array[position + 1] = e],
                                   ReplaceAt(expected, position + 1, e))
vector_reserve(n) == n > capacity /\ Call("reserve", Reallocated(Now, n), expected)
vector_clear == Call("clear", [Now EXCEPT !.size = 0,
                                   !.array = Over(@, [i \in 1 .. size |-> Garbage])], <<>>)
Resize(n) == Call("resize", vector_resize(Now, n),
                  [i \in 1 .. n |-> IF i <= size THEN expected[i] ELSE Default])

Next == \/ \E e \in Elements : vector_push_back(e)
        \/ \E e \in Elements, p \in 0 .. MaxSize : vector_insert(p, e) \/ vector_set(p, e)
        \/ \E p \in 0 .. MaxSize : vector_erase(p) \/ vector_reserve(p) \/ Resize(p)
        \/ vector_pop_back \/ vector_clear

Spec == Init /\ [][Next]_vectorVars

---------------------------------------------------------------------------
(* Properties.                                                             *)

\* The vector is the sequence its calls describe, in an array with room for it
\* that grows by powers of two, and calls that only push, pop, set, insert,
\* reserve and clear never meet garbage: an element erased from before the
\* end, or a resize upwards within the capacity, is the first that can
\* (vector.c:146-160, 222-282).
IsSequence ==
  /\ size <= capacity /\ DOMAIN array = 1 .. capacity
  /\ \E k \in 0 .. capacity : capacity = GROWTH_FACTOR ^ k
  /\ Len(expected) = size
  /\ misused \in {"", "erase", "resize"}
  /\ misused = "" => SubSeq(array, 1, size) = expected
=============================================================================

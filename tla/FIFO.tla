-------------------------------- MODULE FIFO --------------------------------
(* The queue that queue.h promises: a First-In-First-Out sequence with an    *)
(* optional maximum size, whose two operations are atomic and wait until     *)
(* they can take effect.                                                     *)
EXTENDS Integers, Sequences

CONSTANT MaxSize   \* non-positive: no maximum

VARIABLE items

CanPush == MaxSize > 0 => Len(items) < MaxSize
CanPull == items # <<>>

Enqueue(d) == CanPush /\ items' = Append(items, d)
Dequeue == CanPull /\ items' = Tail(items)
=============================================================================

--------------------------- MODULE MCBoundedQueue ---------------------------
(* Instances of BoundedQueue for TLC. *)
EXTENDS BoundedQueue

CONSTANTS p1, p2, c1, c2

MCPushers == {p1, p2}
MCPullers == {c1, c2}
MCThreads == MCPushers \cup MCPullers

\* p2 pushes three times, the others call once: with room for two, everybody
\* may have to wait and two elements are left when the queue is destroyed.
Uneven == [t \in MCThreads |-> IF t = p2 THEN 3 ELSE 1]
=============================================================================

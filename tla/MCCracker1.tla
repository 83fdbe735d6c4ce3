----------------------------- MODULE MCCracker1 -----------------------------
(* Instances of Cracker1 for TLC. *)
EXTENDS Cracker1

OddTasks == {k \in Tasks : k % 2 = 1}
=============================================================================

------------------------------- MODULE MCPool -------------------------------
(***************************************************************************)
(* ThreadQueue for TLC: every kind of predefined pool, with pushes and     *)
(* pops of one or two units by three callers.                              *)
(***************************************************************************)
EXTENDS ThreadQueue, TLC

Symmetry == Permutations(Callers) \cup Permutations(Threads)

\* The lock of a private pool is never initialized; here it happens to be clear.
Init == InitAs({"fifo", "randws", "fifo_wait", "old"}) /\ ~lock
Spec == Init /\ [][Next]_vars
=============================================================================

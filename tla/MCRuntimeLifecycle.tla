------------------------ MODULE MCRuntimeLifecycle ------------------------
(* RuntimeLifecycle for TLC: three threads, and one lease more than the    *)
(* count can hold, so that acquire meets Overflow.                         *)
EXTENDS RuntimeLifecycle, TLC

Symmetry == Permutations(Thread) \cup Permutations(Lease)
=============================================================================

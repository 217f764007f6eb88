---------------------------- MODULE MCThreadPool ----------------------------
(* ThreadPool for TLC: the workers and the descriptors are interchangeable. *)
EXTENDS ThreadPool, TLC

Symmetry == Permutations(Workers) \cup Permutations(Socks)
=============================================================================

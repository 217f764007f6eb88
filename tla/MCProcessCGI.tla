---------------------------- MODULE MCProcessCGI ----------------------------
(* ProcessCGI on a small instance: calls are interchangeable.              *)
EXTENDS ProcessCGI, TLC

Symmetry == Permutations(Calls)
=============================================================================

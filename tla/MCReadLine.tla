----------------------------- MODULE MCReadLine -----------------------------
(* ReadLine on a small instance: every stream of up to MaxLen bytes.       *)
EXTENDS ReadLine
=============================================================================

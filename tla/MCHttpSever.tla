----------------------------- MODULE MCHttpSever -----------------------------
(* HttpSever on a small instance: a client of each kind, two of which may  *)
(* stay silent, which is as many as there are workers.                     *)
EXTENDS HttpSever

CONSTANTS c1, c2, c3

Three == {c1, c2, c3}
SomeWants == [c \in Clients |-> CASE c = c1 -> {"silent", "program"}
                                   [] c = c2 -> {"silent", "page"}
                                   [] c = c3 -> {"program"}]
=============================================================================

--------------------------- MODULE MCPriorityQueue ---------------------------
(* PriorityQueue on a small instance; the symmetry set is for safety.      *)
EXTENDS PriorityQueue, TLC

Symmetry == Permutations(Senders) \cup Permutations(Receivers)
=============================================================================

---------------------------- MODULE MCWindowDraw -----------------------------
(* WindowDraw on small instances: each window has a root view of its own.  *)
EXTENDS WindowDraw

CONSTANTS r1, r2, w1, w2

OneRoot == [w \in {w1} |-> r1]
TwoRoots == [w \in {w1, w2} |-> IF w = w1 THEN r1 ELSE r2]
=============================================================================

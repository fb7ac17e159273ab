--------------------------- MODULE MCTestScheduler ---------------------------
(* TestScheduler on a small instance; sessions are interchangeable, and so  *)
(* are futures.                                                            *)
EXTENDS TestScheduler, TLC

Symmetry == Permutations(Sessions) \cup Permutations(Futures)
=============================================================================

---------------------------- MODULE MCAppEffects -----------------------------
(* AppEffects on a small instance; entities are interchangeable, and the   *)
(* properties are about safety.                                            *)
EXTENDS AppEffects, TLC

Symmetry == Permutations(Entities)
=============================================================================

---------------------------- MODULE MCGeneration ----------------------------
(* A small instance of Generation: a unit of time is about ten minutes.      *)
EXTENDS Generation, TLC

Symmetry == Permutations(Proc)
=============================================================================

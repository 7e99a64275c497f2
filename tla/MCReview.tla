------------------------------ MODULE MCReview ------------------------------
(* Small instances of Review: clients and suggestions are interchangeable.   *)
EXTENDS Review, TLC

Symmetry == Permutations(Req) \cup Permutations(Slot)
=============================================================================

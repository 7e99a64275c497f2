------------------------------ MODULE MCSessions ------------------------------
(* Small instances of Sessions: clients are interchangeable.                 *)
EXTENDS Sessions, TLC

Symmetry == Permutations(Req)
=============================================================================

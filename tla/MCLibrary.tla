------------------------------ MODULE MCLibrary ------------------------------
(* Small instances of Library: clients, documents and the sources with a     *)
(* file are interchangeable.                                                 *)
EXTENDS Library, TLC

Symmetry == Permutations(Req) \cup Permutations(Doc) \cup Permutations(Src \ Url)
=============================================================================

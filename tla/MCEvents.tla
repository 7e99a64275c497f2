------------------------------- MODULE MCEvents -------------------------------
(* A small instance of Events: one user with a stream for everything and one *)
(* with a stream for a single document.                                      *)
EXTENDS Events, TLC

CONSTANTS api, worker, s1, s2, d1, d2, u1, u2

MCOwnerOf == (d1 :> u1) @@ (d2 :> u2)
MCUserOf  == (s1 :> u1) @@ (s2 :> u2)
MCFilter  == (s1 :> {}) @@ (s2 :> {d2})
=============================================================================

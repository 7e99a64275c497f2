---------------------------- MODULE MCSourceClaim ----------------------------
(* Small instances of SourceClaim: one unit of time stands for about five    *)
(* minutes of lease and limit; MaxRetries = BusyLimit + LlmLimit as in the   *)
(* code.  The workers' clocks may differ by one unit, which TimeLimit leaves *)
(* room for below Lease, and so do the waits beyond it.                      *)
EXTENDS SourceClaim, TLC

MCBackoff == [n \in 0..LlmLimit |-> 2 ^ n]
Symmetry == Permutations(Delivery)
=============================================================================

---------------------------- MODULE MCAnalysisJobs ----------------------------
(* Small instances of AnalysisJobs: the requests are interchangeable.        *)
EXTENDS AnalysisJobs, TLC

Symmetry == Permutations(Req)
=============================================================================

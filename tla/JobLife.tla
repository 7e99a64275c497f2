-------------------------------- MODULE JobLife --------------------------------
(***************************************************************************)
(* What becomes of the analyses of a document, seen by its user: one is    *)
(* live at a time; each reaches the queue at most once; and what has been  *)
(* in the queue and ended never comes back.  A job that was closed before  *)
(* it reached the queue is not safe from that: dispatch_job may reopen it, *)
(* or queue it closed.  Module AnalysisJobs implements it.                 *)
(***************************************************************************)
CONSTANT Job

VARIABLE phase   \* per job, where it is in its life

\* Not in the queue yet: none, open, shut.  Handed to the queue: queued, ended.
Successor(p) ==
  CASE p = "none"   -> {"open"}
    [] p = "open"   -> {"queued", "shut"}
    [] p = "shut"   -> {"open", "ended"}
    [] p = "queued" -> {"ended"}
    [] p = "ended"  -> {}

Live == {j \in Job : phase[j] \in {"open", "queued"}}

Init == phase = [j \in Job |-> "none"]

Advance(j) ==
  /\ phase'[j] \in Successor(phase[j])
  /\ phase' = [phase EXCEPT ![j] = phase'[j]]
  /\ phase'[j] = "open" => Live = {}

Next == \E j \in Job : Advance(j)

Spec == Init /\ [][Next]_phase
=============================================================================

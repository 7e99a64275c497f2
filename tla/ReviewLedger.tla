------------------------------ MODULE ReviewLedger ------------------------------
(***************************************************************************)
(* The review of a document as its clients may think of it: every request  *)
(* is one indivisible operation on the rows of the database, and these are *)
(* all of them.  A decision is made once and only a reset takes it back; a *)
(* request works on one analysis, perhaps no longer the current one; and a *)
(* review is reopened by a reset only.  The status that a save or a reset  *)
(* of the whole analysis writes may be that of an earlier analysis: the    *)
(* current one is then overrun.                                            *)
(* Module Review, whose requests are transactions of several statements,   *)
(* implements it.                                                          *)
(***************************************************************************)
EXTENDS Naturals, Lifecycle

CONSTANTS
  Suggestion,  \* suggestions, each a pair of its analysis and a slot
  MaxJobs      \* bound on analyses

VARIABLES doc, sugg, analysis, overrun

Decision == {"accepted", "rejected"}

Init ==
  /\ doc = [status |-> "awaiting_approval", current |-> 1, version |-> 0]
  /\ sugg = [s \in Suggestion |-> IF s[1] = 1 THEN "pending" ELSE "absent"]
  /\ analysis = [j \in 1..MaxJobs |-> IF j = 1 THEN "done" ELSE "none"]
  /\ overrun = {}

-----------------------------------------------------------------------------
(* The reviewers.                                                          *)

Changed == {s \in Suggestion : sugg'[s] # sugg[s]}

\* The request changes suggestions of analysis j only.
Decides(j)   == \A s \in Changed : s[1] = j /\ sugg[s] = "pending" /\ sugg'[s] \in Decision
TakesBack(j) == \A s \in Changed : s[1] = j /\ sugg[s] \in Decision /\ sugg'[s] = "pending"

\* A status decided on analysis j becomes that of the document.
Writes(j, status) ==
  /\ doc'.status = status
  /\ overrun' = IF j = doc.current THEN overrun ELSE overrun \cup {doc.current}

\* The current analysis has ended well, or its status has been overrun.
Reviewable == analysis[doc.current] = "done" \/ doc.current \in overrun

\* A save based on the current version, of the current analysis or of an earlier one; one
\* that finalises writes ready.
Save(j) ==
  /\ Decides(j)
  /\ \E status \in {doc.status, "ready"} :
       doc' = [doc EXCEPT !.status = status, !.version = @ + 1]
  /\ Writes(j, "ready") \/ (doc'.status = doc.status /\ UNCHANGED overrun)
  /\ UNCHANGED analysis

Decide(j) == Decides(j) /\ UNCHANGED <<doc, analysis, overrun>>

Reset(j) == TakesBack(j) /\ UNCHANGED <<doc, analysis, overrun>>

Reopen ==
  /\ TakesBack(doc.current) /\ Changed # {}
  /\ doc.status = "ready" /\ Reviewable
  /\ doc' = [doc EXCEPT !.status = "awaiting_approval"]
  /\ UNCHANGED <<analysis, overrun>>

\* A reset of the whole analysis j writes its status, perhaps over that of a later one.
ResetAll(j) ==
  /\ TakesBack(j) /\ (j = doc.current => Reviewable)
  /\ doc' = [doc EXCEPT !.status = "awaiting_approval"] /\ Writes(j, "awaiting_approval")
  /\ UNCHANGED analysis

-----------------------------------------------------------------------------
(* The next analysis.                                                      *)

Active(j) == analysis[j] \in {"pending", "running"}

Moves(j, progress) == analysis' = [analysis EXCEPT ![j] = progress] /\ UNCHANGED <<sugg, overrun>>

Restart ==
  /\ CanStartAnalysis(doc.status) /\ ~Active(doc.current) /\ doc.current < MaxJobs
  /\ doc' = [doc EXCEPT !.status = "draft", !.current = @ + 1]
  /\ Moves(doc.current + 1, "pending")

Dispatch ==
  /\ "in_progress" \in DocumentTargets(doc.status) /\ analysis[doc.current] = "pending"
  /\ doc' = [doc EXCEPT !.status = "in_progress"]
  /\ Moves(doc.current, "running")

Find(j) ==
  /\ analysis[j] \in {"running", "failed"}
  /\ \A s \in Changed : s[1] = j /\ sugg[s] = "absent" /\ sugg'[s] = "pending"
  /\ UNCHANGED <<doc, analysis, overrun>>

\* It awaits approval exactly if something it has found is undecided.
Finish ==
  LET undecided == {s \in Suggestion : s[1] = doc.current /\ sugg[s] = "pending"}
      status    == IF undecided = {} THEN "ready" ELSE "awaiting_approval"
  IN
  /\ analysis[doc.current] = "running" /\ status \in DocumentTargets(doc.status)
  /\ doc' = [doc EXCEPT !.status = status]
  /\ Moves(doc.current, "done")

Fail ==
  /\ Active(doc.current)
  /\ doc' = [doc EXCEPT !.status = "draft"]
  /\ Moves(doc.current, "failed")

Next ==
  /\ sugg' \in [Suggestion -> {"absent", "pending"} \cup Decision]
  /\ \/ \E j \in 1..MaxJobs : Save(j) \/ Decide(j) \/ Reset(j) \/ ResetAll(j) \/ Find(j)
     \/ Reopen \/ Restart \/ Dispatch \/ Finish \/ Fail

Spec == Init /\ [][Next]_<<doc, sugg, analysis, overrun>>
=============================================================================

----------------------------- MODULE SourceResult -----------------------------
(***************************************************************************)
(* What the subtasks of one source promise the chord that waits for them,  *)
(* however often their message is delivered: at most one batch is stored   *)
(* and never another one in its place, an answer is final, and ok is only  *)
(* answered once the batch is there.  Module SourceClaim implements it.    *)
(***************************************************************************)
CONSTANT Delivery

VARIABLES
  stored,   \* the batches of suggestions kept for the source
  deleted,  \* its document is deleted
  answer    \* per delivery, what the chord was told, or "none"

Answers == {"ok", "failed", "cancelled", "failed_busy", "failed_llm"}

Init == stored = {} /\ deleted = FALSE /\ answer = [d \in Delivery |-> "none"]

Store ==
  /\ stored = {} /\ ~deleted
  /\ \E b \in stored' : stored' = {b}
  /\ UNCHANGED <<deleted, answer>>

Answer(d) ==
  /\ answer[d] = "none"
  /\ \E a \in Answers : (a = "ok" => stored # {} \/ deleted) /\ answer' = [answer EXCEPT ![d] = a]
  /\ UNCHANGED <<stored, deleted>>

Delete == ~deleted /\ deleted' = TRUE /\ stored' = {} /\ UNCHANGED answer

Next == Store \/ Delete \/ \E d \in Delivery : Answer(d)

Spec == Init /\ [][Next]_<<stored, deleted, answer>>
=============================================================================

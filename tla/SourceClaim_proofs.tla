-------------------------- MODULE SourceClaim_proofs --------------------------
(***************************************************************************)
(* Proofs about module SourceClaim, for any number of deliveries and any   *)
(* values of the limits that its assumptions allow.                        *)
(*                                                                         *)
(* The invariants are proved in layers, each using the ones before it:     *)
(* types; who holds which claim (ClaimInv); what is stored (BatchMatchesRow*)
(* and OkMeansStored); how old a claim is compared with its holder         *)
(* (LeaseInv); what was retried (BudgetInv).                               *)
(***************************************************************************)
EXTENDS SourceClaim, TLAPS

-----------------------------------------------------------------------------
(* Types.                                                                  *)

LEMMA InitType == Init => TypeOK
BY LimitsAssumption DEF Init, TypeOK, NoRow, NoToken, Results

Places == Working \cup {"queued", "done", "lost"}

\* Moving a delivery keeps the types of the places and the clocks.
LEMMA GotoType ==
  ASSUME TypeOK, NEW d \in Delivery, NEW place \in Places, Goto(d, place)
  PROVE  pc' \in [Delivery -> Places] /\ runTime' \in [Delivery -> Nat]
BY DEF TypeOK, Goto, Places

\* Answering keeps them too, and the types of results and claims.
LEMMA AnswerType ==
  ASSUME TypeOK, NEW d \in Delivery, NEW r \in Results, Answer(d, r)
  PROVE  /\ pc' \in [Delivery -> Places] /\ runTime' \in [Delivery -> Nat]
         /\ result' \in [Delivery -> Results] /\ token' \in [Delivery -> Nat]
<1>1. Goto(d, "answered") /\ "answered" \in Places
  BY DEF Answer, Places, Working
<1> QED BY <1>1, GotoType DEF TypeOK, Answer, NoToken

\* Handing a claim back keeps the type of the row and its age.
LEMMA ReleaseType ==
  ASSUME TypeOK, NEW d \in Delivery, ReleaseRow(d)
  PROVE  /\ row' \in [status : {"none", "pending", "processing", "completed"}, token : Nat]
         /\ leaseAge' \in Nat
BY DEF TypeOK, ReleaseRow, NoToken

\* Publishing the message again keeps the types of what it changes.
LEMMA RetryType ==
  ASSUME TypeOK, NEW d \in Delivery, NEW countdown \in Nat, NEW fallback \in Results,
         RetryLater(d, countdown, fallback)
  PROVE  /\ pc' \in [Delivery -> Places] /\ runTime' \in [Delivery -> Nat]
         /\ result' \in [Delivery -> Results] /\ wait' \in [Delivery -> Nat]
         /\ retries' \in [Delivery -> Nat]
<1>1. \E place \in Places : Goto(d, place)
  BY DEF RetryLater, Places
<1>2. pc' \in [Delivery -> Places] /\ runTime' \in [Delivery -> Nat]
  BY <1>1, GotoType
<1>3. "none" \in Results
  BY DEF Results
<1> QED BY <1>2, <1>3 DEF TypeOK, RetryLater

\* Giving up does as well.
LEMMA GiveUpType ==
  ASSUME TypeOK, NEW d \in Delivery, NEW r \in Results, GiveUp(d, r)
  PROVE  /\ pc' \in [Delivery -> Places] /\ runTime' \in [Delivery -> Nat]
         /\ result' \in [Delivery -> Results] /\ wait' \in [Delivery -> Nat]
         /\ retries' \in [Delivery -> Nat]
<1>1. Goto(d, "done") /\ "done" \in Places
  BY DEF GiveUp, Places
<1> QED BY <1>1, GotoType DEF TypeOK, GiveUp

LEMMA NextType == TypeOK /\ [Next]_vars => TypeOK'
<1> SUFFICES ASSUME TypeOK, [Next]_vars PROVE TypeOK'
  OBVIOUS
<1>0. /\ \A p \in {"started", "look", "claim", "generate", "release", "store", "commit",
                   "answered", "queued", "done", "lost"} : p \in Places
      /\ \A r \in {"none", "ok", "failed", "cancelled", "busy", "retryable", "failed_busy",
                   "failed_llm"} : r \in Results
  BY DEF Places, Working, Results
<1> USE DEF shared, counters
<1>1. ASSUME NEW d \in Delivery, Start(d) PROVE TypeOK'
  BY <1>0, <1>1, GotoType DEF Start, TypeOK, Places
<1>2. ASSUME NEW d \in Delivery, CheckJob(d) PROVE TypeOK'
  <2>1. CASE \E r \in {"failed", "cancelled"} : Answer(d, r)
    BY <1>0, <1>2, <2>1, AnswerType DEF CheckJob, TypeOK, Places
  <2>2. CASE Goto(d, "look") /\ UNCHANGED <<token, result>>
    BY <1>0, <1>2, <2>2, GotoType DEF CheckJob, TypeOK, Places
  <2> QED BY <1>2, <2>1, <2>2 DEF CheckJob
<1>3. ASSUME NEW d \in Delivery, Look(d) PROVE TypeOK'
  <2>1. CASE \E r \in {"failed", "ok"} : Answer(d, r)
    BY <1>0, <1>3, <2>1, AnswerType DEF Look, TypeOK, Places
  <2>2. CASE Goto(d, "claim") /\ UNCHANGED <<token, result>>
    BY <1>0, <1>3, <2>2, GotoType DEF Look, TypeOK, Places
  <2> QED BY <1>3, <2>1, <2>2 DEF Look
<1>4. ASSUME NEW d \in Delivery, Claim(d) PROVE TypeOK'
  <2>1. CASE Goto(d, "lost") /\ UNCHANGED <<row, leaseAge, issued, token, result>>
    BY <1>0, <1>4, <2>1, GotoType DEF Claim, TypeOK, Places
  <2>2. CASE /\ issued' = issued + 1
             /\ row' = [status |-> "processing", token |-> issued + 1]
             /\ leaseAge' = 0
             /\ token' = [token EXCEPT ![d] = issued + 1]
             /\ Goto(d, "generate")
             /\ UNCHANGED result
    BY <1>0, <1>4, <2>2, GotoType DEF Claim, TypeOK, Places
  <2>3. CASE Answer(d, "busy") /\ UNCHANGED <<row, leaseAge, issued>>
    BY <1>0, <1>4, <2>3, AnswerType DEF Claim, TypeOK, Places
  <2> QED BY <1>4, <2>1, <2>2, <2>3 DEF Claim
<1>5. ASSUME NEW d \in Delivery, Generate(d) PROVE TypeOK'
  BY <1>0, <1>5, GotoType DEF Generate, TypeOK, Places
<1>6. ASSUME NEW d \in Delivery, GenerateFails(d) PROVE TypeOK'
  BY <1>0, <1>6, GotoType DEF GenerateFails, TypeOK, Places
<1>7. ASSUME NEW d \in Delivery, Release(d) PROVE TypeOK'
  BY <1>0, <1>7, GotoType, ReleaseType DEF Release, TypeOK, Places, NoToken
<1>8. ASSUME NEW d \in Delivery, RecheckJob(d) PROVE TypeOK'
  <2>1. CASE Goto(d, "commit") /\ UNCHANGED <<row, leaseAge, token, result>>
    BY <1>0, <1>8, <2>1, GotoType DEF RecheckJob, TypeOK, Places
  <2>2. CASE ReleaseRow(d) /\ Answer(d, "cancelled")
    BY <1>0, <1>8, <2>2, AnswerType, ReleaseType DEF RecheckJob, TypeOK, Places
  <2> QED BY <1>8, <2>1, <2>2 DEF RecheckJob
<1>9. ASSUME NEW d \in Delivery, Store(d) PROVE TypeOK'
  <2>1. \E r \in Results : Answer(d, r)
    BY <1>0, <1>9 DEF Store
  <2>2. CASE /\ row' = [status |-> "completed", token |-> NoToken] /\ leaseAge' = 0
             /\ batches' = batches \cup {token[d]}
    BY <1>9, <2>1, <2>2, AnswerType DEF Store, TypeOK, Places, NoToken
  <2>3. CASE UNCHANGED <<row, leaseAge, batches>>
    BY <1>9, <2>1, <2>3, AnswerType DEF Store, TypeOK, Places
  <2> QED BY <1>9, <2>2, <2>3 DEF Store
<1>10. ASSUME NEW d \in Delivery, SettleBusy(d) PROVE TypeOK'
  <2>1. seen' \in [Delivery -> Nat]
    BY <1>10 DEF SettleBusy, TypeOK
  <2>2. CASE busy[d] >= BusyLimit /\ GiveUp(d, "failed_busy") /\ UNCHANGED busy
    BY <1>0, <1>10, <2>1, <2>2, GiveUpType DEF SettleBusy, TypeOK, Places
  <2>3. CASE /\ busy[d] < BusyLimit
             /\ RetryLater(d, BusyCountdown, "failed_busy")
             /\ busy' = [busy EXCEPT ![d] = @ + 1]
    <3>1. busy[d] + 1 \in 0..BusyLimit
      <4>1. busy[d] \in 0..BusyLimit
        BY DEF TypeOK
      <4> QED BY <2>3, <4>1, LimitsAssumption
    <3> QED BY <1>0, <1>10, <2>1, <2>3, <3>1, RetryType, LimitsAssumption
            DEF SettleBusy, TypeOK, Places
  <2> QED BY <1>10, <2>2, <2>3 DEF SettleBusy
<1>11. ASSUME NEW d \in Delivery, SettleRetryable(d) PROVE TypeOK'
  <2>1. CASE llm[d] >= LlmLimit /\ GiveUp(d, "failed_llm") /\ UNCHANGED llm
    BY <1>0, <1>11, <2>1, GiveUpType DEF SettleRetryable, TypeOK, Places
  <2>2. CASE /\ llm[d] < LlmLimit
             /\ RetryLater(d, Backoff[llm[d]], "failed_llm")
             /\ llm' = [llm EXCEPT ![d] = @ + 1]
    <3>1. llm[d] + 1 \in 0..LlmLimit
      <4>1. llm[d] \in 0..LlmLimit
        BY DEF TypeOK
      <4> QED BY <2>2, <4>1, LimitsAssumption
    <3>2. Backoff[llm[d]] \in Nat
      BY LimitsAssumption DEF TypeOK
    <3> QED BY <1>0, <1>11, <2>2, <3>1, <3>2, RetryType DEF SettleRetryable, TypeOK, Places
  <2> QED BY <1>11, <2>1, <2>2 DEF SettleRetryable
<1>12. ASSUME NEW d \in Delivery, Settle(d) PROVE TypeOK'
  BY <1>0, <1>12, GotoType DEF Settle, TypeOK, Places
<1>13. ASSUME NEW d \in Delivery, TimeOut(d) PROVE TypeOK'
  BY <1>0, <1>13, GotoType DEF TimeOut, TypeOK, Places, NoToken
<1>14. ASSUME NEW d \in Delivery, Crash(d) PROVE TypeOK'
  BY <1>0, <1>14, GotoType DEF Crash, TypeOK, Places, NoToken
<1>15. ASSUME NEW d \in Delivery, Fail(d) PROVE TypeOK'
  BY <1>0, <1>15, GotoType DEF Fail, TypeOK, Places, NoToken
<1>16. CASE JobEnds
  BY <1>16 DEF JobEnds, TypeOK
<1>17. CASE DocumentDeleted
  BY <1>17 DEF DocumentDeleted, TypeOK, NoRow, NoToken
<1>18. CASE SourceDeleted
  BY <1>18 DEF SourceDeleted, TypeOK
<1>19. CASE Tick
  <2>1. leaseAge' \in Nat
    BY <1>19, LimitsAssumption DEF Tick, TypeOK, Least
  <2>2. runTime' \in [Delivery -> Nat]
    BY <1>19, LimitsAssumption DEF Tick, TypeOK, Least
  <2>3. wait' \in [Delivery -> Nat]
    BY <1>19 DEF Tick, TypeOK
  <2> QED BY <1>19, <2>1, <2>2, <2>3 DEF Tick, TypeOK
<1>20. CASE UNCHANGED vars
  BY <1>20 DEF vars, TypeOK
<1> QED
  BY <1>1, <1>2, <1>3, <1>4, <1>5, <1>6, <1>7, <1>8, <1>9, <1>10, <1>11, <1>12, <1>13,
     <1>14, <1>15, <1>16, <1>17, <1>18, <1>19, <1>20 DEF Next, Work

\* Every state of every behaviour is well typed; in particular no delivery ever counts
\* past BusyLimit waits or LlmLimit model retries.
THEOREM TypeCorrect == Spec => []TypeOK
BY InitType, NextType, PTL DEF Spec

-----------------------------------------------------------------------------
(* Who holds which claim.                                                  *)

\* The row's token is the last one granted, no two deliveries hold the same token, and
\* whoever is past the claim holds one.
ClaimInv ==
  /\ row.status = "processing" => row.token = issued /\ issued > 0
  /\ row.status # "processing" => row.token = NoToken
  /\ job = "gone" => row.status = "none"
  /\ \A d \in Delivery : token[d] <= issued
  /\ \A d \in Delivery : pc[d] \in Holding => token[d] > 0
  /\ \A d, e \in Delivery : token[d] > 0 /\ token[d] = token[e] => d = e

\* A claim is granted to d.
Granted(d) ==
  /\ pc[d] = "claim" /\ job # "gone" /\ \E lead \in Leads : ClaimFree(lead)
  /\ issued' = issued + 1
  /\ row' = [status |-> "processing", token |-> issued + 1] /\ leaseAge' = 0
  /\ token' = [token EXCEPT ![d] = issued + 1]
  /\ pc' = [pc EXCEPT ![d] = "generate"]
  /\ runTime' = runTime /\ job' = job

\* What every other step but Tick does to claims: nobody gains one, and the row only
\* changes with its document or at the hand of the delivery that owns it.
NoGrant ==
  /\ issued' = issued
  /\ \A e \in Delivery : token'[e] \in {token[e], NoToken} /\ runTime'[e] \in {runTime[e], 0}
  /\ \A e \in Delivery :
       pc'[e] \in Holding =>
         pc[e] \in Holding /\ token'[e] = token[e] /\ runTime'[e] = runTime[e]
  /\ job = "gone" => job' = "gone"
  /\ \/ UNCHANGED <<row, leaseAge>> /\ (job' = "gone" => job = "gone")
     \/ row' = NoRow /\ job' = "gone"
     \/ /\ row'.status # "processing" /\ row'.token = NoToken /\ job' = job
        /\ \E d \in Delivery : Owns(d) /\ pc[d] \in Holding /\ pc'[d] \notin Holding

\* Moving on without a claim, to a place that needs none.
LEMMA GotoKeeps ==
  ASSUME TypeOK, NEW d \in Delivery, NEW place, Goto(d, place),
         place \in Holding => pc[d] \in Holding /\ token' = token /\ place \in Working,
         token' = token \/ token' = [token EXCEPT ![d] = NoToken]
  PROVE  /\ \A e \in Delivery : token'[e] \in {token[e], NoToken} /\ runTime'[e] \in {runTime[e], 0}
         /\ \A e \in Delivery :
              pc'[e] \in Holding =>
                pc[e] \in Holding /\ token'[e] = token[e] /\ runTime'[e] = runTime[e]
         /\ pc'[d] = place
BY DEF TypeOK, Goto

LEMMA StepShape ==
  ASSUME TypeOK, Next
  PROVE  NoGrant \/ Tick \/ \E d \in Delivery : Granted(d)
<1> USE DEF shared, counters, NoToken
<1>0. {"generate", "store", "release", "commit"} = Holding /\ Holding \subseteq Working
  BY DEF Holding, Working
<1>1. ASSUME NEW d \in Delivery, Start(d) PROVE NoGrant
  BY <1>0, <1>1, GotoKeeps DEF Start, NoGrant
<1>2. ASSUME NEW d \in Delivery, CheckJob(d) PROVE NoGrant
  BY <1>0, <1>2, GotoKeeps DEF CheckJob, Answer, NoGrant
<1>3. ASSUME NEW d \in Delivery, Look(d) PROVE NoGrant
  BY <1>0, <1>3, GotoKeeps DEF Look, Answer, NoGrant
<1>4. ASSUME NEW d \in Delivery, Claim(d) PROVE NoGrant \/ Granted(d)
  <2>1. CASE job = "gone" /\ Goto(d, "lost") /\ UNCHANGED <<row, leaseAge, issued, token, result>>
    BY <1>0, <1>4, <2>1, GotoKeeps DEF Claim, NoGrant
  <2>2. CASE /\ job # "gone" /\ \E lead \in Leads : ClaimFree(lead)
             /\ issued' = issued + 1
             /\ row' = [status |-> "processing", token |-> issued + 1]
             /\ leaseAge' = 0
             /\ token' = [token EXCEPT ![d] = issued + 1]
             /\ Goto(d, "generate")
    BY <1>0, <1>4, <2>2 DEF Claim, Granted, Goto
  <2>3. CASE Answer(d, "busy") /\ UNCHANGED <<row, leaseAge, issued>>
    BY <1>0, <1>4, <2>3, GotoKeeps DEF Claim, Answer, NoGrant
  <2> QED BY <1>4, <2>1, <2>2, <2>3 DEF Claim
<1>5. ASSUME NEW d \in Delivery, Generate(d) PROVE NoGrant
  BY <1>0, <1>5, GotoKeeps DEF Generate, NoGrant
<1>6. ASSUME NEW d \in Delivery, GenerateFails(d) PROVE NoGrant
  BY <1>0, <1>6, GotoKeeps DEF GenerateFails, NoGrant
<1>7. ASSUME NEW d \in Delivery, Release(d) PROVE NoGrant
  <2>1. "answered" \notin Holding /\ pc[d] \in Holding
    BY <1>0, <1>7 DEF Release
  <2>2. /\ \A e \in Delivery : token'[e] \in {token[e], NoToken} /\ runTime'[e] \in {runTime[e], 0}
        /\ \A e \in Delivery :
             pc'[e] \in Holding =>
               pc[e] \in Holding /\ token'[e] = token[e] /\ runTime'[e] = runTime[e]
        /\ pc'[d] = "answered"
    BY <1>7, <2>1, GotoKeeps DEF Release
  <2>3. CASE UNCHANGED <<row, leaseAge>>
    BY <1>7, <2>2, <2>3 DEF Release, NoGrant
  <2>4. CASE ReleaseRow(d)
    BY <1>7, <2>1, <2>2, <2>4 DEF Release, ReleaseRow, NoGrant
  <2> QED BY <1>7, <2>3, <2>4 DEF Release
<1>8. ASSUME NEW d \in Delivery, RecheckJob(d) PROVE NoGrant
  <2>1. "answered" \notin Holding /\ pc[d] \in Holding
    BY <1>0, <1>8 DEF RecheckJob
  <2> QED BY <1>0, <1>8, <2>1, GotoKeeps DEF RecheckJob, ReleaseRow, Answer, NoGrant
<1>9. ASSUME NEW d \in Delivery, Store(d) PROVE NoGrant
  <2>1. "answered" \notin Holding /\ pc[d] \in Holding
    BY <1>0, <1>9 DEF Store
  <2> QED BY <1>9, <2>1, GotoKeeps DEF Store, Answer, NoGrant
<1>10. ASSUME NEW d \in Delivery, SettleBusy(d) PROVE NoGrant
  BY <1>0, <1>10, GotoKeeps DEF SettleBusy, GiveUp, RetryLater, NoGrant
<1>11. ASSUME NEW d \in Delivery, SettleRetryable(d) PROVE NoGrant
  BY <1>0, <1>11, GotoKeeps DEF SettleRetryable, GiveUp, RetryLater, NoGrant
<1>12. ASSUME NEW d \in Delivery, Settle(d) PROVE NoGrant
  BY <1>0, <1>12, GotoKeeps DEF Settle, NoGrant
<1>13. ASSUME NEW d \in Delivery, TimeOut(d) PROVE NoGrant
  BY <1>0, <1>13, GotoKeeps DEF TimeOut, NoGrant
<1>14. ASSUME NEW d \in Delivery, Crash(d) PROVE NoGrant
  BY <1>0, <1>14, GotoKeeps DEF Crash, NoGrant
<1>15. ASSUME NEW d \in Delivery, Fail(d) PROVE NoGrant
  BY <1>0, <1>15, GotoKeeps DEF Fail, NoGrant
<1>16. CASE JobEnds
  BY <1>16 DEF JobEnds, NoGrant
<1>17. CASE DocumentDeleted
  BY <1>17 DEF DocumentDeleted, NoGrant
<1>18. CASE SourceDeleted
  BY <1>18 DEF SourceDeleted, NoGrant
<1> QED
  BY <1>1, <1>2, <1>3, <1>4, <1>5, <1>6, <1>7, <1>8, <1>9, <1>10, <1>11, <1>12, <1>13,
     <1>14, <1>15, <1>16, <1>17, <1>18 DEF Next, Work

LEMMA ClaimsCorrect == Spec => []ClaimInv
<1>1. Init => ClaimInv
  BY DEF Init, ClaimInv, NoRow, NoToken, Holding
<1>2. TypeOK /\ TypeOK' /\ ClaimInv /\ [Next]_vars => ClaimInv'
  <2> SUFFICES ASSUME TypeOK, TypeOK', ClaimInv, [Next]_vars PROVE ClaimInv'
    OBVIOUS
  <2>1. CASE NoGrant
    <3>1. /\ \A d \in Delivery : token'[d] <= issued'
          /\ \A d \in Delivery : pc'[d] \in Holding => token'[d] > 0
          /\ \A d, e \in Delivery : token'[d] > 0 /\ token'[d] = token'[e] => d = e
      BY <2>1 DEF NoGrant, ClaimInv, TypeOK, NoToken
    <3>2. /\ row'.status = "processing" => row'.token = issued' /\ issued' > 0
          /\ row'.status # "processing" => row'.token = NoToken
          /\ job' = "gone" => row'.status = "none"
      <4>1. CASE UNCHANGED <<row, leaseAge>> /\ (job' = "gone" => job = "gone")
        BY <2>1, <4>1 DEF NoGrant, ClaimInv
      <4>2. CASE row' = NoRow /\ job' = "gone"
        BY <2>1, <4>2 DEF NoGrant, ClaimInv, NoRow, NoToken
      <4>3. CASE /\ row'.status # "processing" /\ row'.token = NoToken /\ job' = job
                 /\ \E d \in Delivery : Owns(d) /\ pc[d] \in Holding /\ pc'[d] \notin Holding
        BY <2>1, <4>3 DEF NoGrant, ClaimInv, Owns
      <4> QED BY <2>1, <4>1, <4>2, <4>3 DEF NoGrant
    <3> QED BY <3>1, <3>2 DEF ClaimInv
  <2>2. ASSUME NEW d \in Delivery, Granted(d) PROVE ClaimInv'
    BY <2>2 DEF Granted, ClaimInv, TypeOK, NoToken, Holding
  <2>3. CASE Tick
    BY <2>3 DEF Tick, ClaimInv
  <2>4. CASE UNCHANGED vars
    BY <2>4 DEF vars, ClaimInv
  <2> QED BY <2>1, <2>2, <2>3, <2>4, StepShape
<1> QED BY <1>1, <1>2, TypeCorrect, PTL DEF Spec

-----------------------------------------------------------------------------
(* What is stored.                                                         *)

\* At most one batch is ever stored, that of the last claim granted, and exactly while
\* the row says completed: repeated delivery never duplicates suggestions.
THEOREM OneBatch == Spec => []BatchMatchesRow
<1>1. Init => BatchMatchesRow
  BY DEF Init, BatchMatchesRow, NoRow
<1>2. TypeOK /\ ClaimInv /\ BatchMatchesRow /\ [Next]_vars => BatchMatchesRow'
  <2> SUFFICES ASSUME TypeOK, ClaimInv, BatchMatchesRow, [Next]_vars PROVE BatchMatchesRow'
    OBVIOUS
  <2> USE DEF BatchMatchesRow, shared
  <2>1. ASSUME NEW d \in Delivery, Claim(d) PROVE BatchMatchesRow'
    BY <2>1 DEF Claim, ClaimFree, TypeOK
  <2>2. ASSUME NEW d \in Delivery, Release(d) PROVE BatchMatchesRow'
    BY <2>2 DEF Release, ReleaseRow, Owns
  <2>3. ASSUME NEW d \in Delivery, RecheckJob(d) PROVE BatchMatchesRow'
    BY <2>3 DEF RecheckJob, ReleaseRow, Owns
  <2>4. ASSUME NEW d \in Delivery, Store(d) PROVE BatchMatchesRow'
    BY <2>4 DEF Store, Owns, ClaimInv
  <2>5. CASE DocumentDeleted
    BY <2>5 DEF DocumentDeleted, NoRow
  <2>6. CASE UNCHANGED <<row, batches, issued>>
    BY <2>6
  <2>7. ASSUME NEW d \in Delivery,
               \/ Start(d) \/ CheckJob(d) \/ Look(d) \/ Generate(d) \/ GenerateFails(d)
               \/ SettleBusy(d) \/ SettleRetryable(d) \/ Settle(d) \/ TimeOut(d)
               \/ Crash(d) \/ Fail(d)
        PROVE  UNCHANGED <<row, batches, issued>>
    BY <2>7 DEF Start, CheckJob, Look, Generate, GenerateFails, SettleBusy,
                SettleRetryable, Settle, TimeOut, Crash, Fail
  <2>8. JobEnds \/ SourceDeleted \/ Tick \/ UNCHANGED vars => UNCHANGED <<row, batches, issued>>
    BY DEF JobEnds, SourceDeleted, Tick, vars
  <2> QED BY <2>1, <2>2, <2>3, <2>4, <2>5, <2>6, <2>7, <2>8 DEF Next, Work
<1> QED BY <1>1, <1>2, TypeCorrect, ClaimsCorrect, PTL DEF Spec

\* Whatever a step does, completed stays completed until the document is deleted, and
\* nobody newly answers ok unless the row is completed.
LEMMA OkStep ==
  ASSUME TypeOK, Next
  PROVE  /\ row.status = "completed" => row'.status = "completed" \/ job' = "gone"
         /\ job = "gone" => job' = "gone"
         /\ \A e \in Delivery : result'[e] = "ok" => result[e] = "ok" \/ row'.status = "completed"
<1> DEFINE Kept == UNCHANGED <<row, job>> /\ \A e \in Delivery : result'[e] = "ok" => result[e] = "ok"
<1> USE DEF shared
<1>1. ASSUME NEW d \in Delivery,
             Start(d) \/ CheckJob(d) \/ Generate(d) \/ GenerateFails(d)
      PROVE  Kept
  BY <1>1 DEF Start, CheckJob, Generate, GenerateFails, Answer, TypeOK
<1>2. ASSUME NEW d \in Delivery,
             \/ SettleBusy(d) \/ SettleRetryable(d) \/ Settle(d) \/ TimeOut(d)
             \/ Crash(d) \/ Fail(d)
      PROVE  Kept
  BY <1>2 DEF SettleBusy, SettleRetryable, RetryLater, GiveUp, Settle, TimeOut, Crash,
              Fail, TypeOK
<1>3. ASSUME NEW d \in Delivery, Look(d)
      PROVE  /\ UNCHANGED <<row, job>>
             /\ \A e \in Delivery : result'[e] = "ok" => result[e] = "ok" \/ row.status = "completed"
  BY <1>3 DEF Look, Answer, TypeOK
<1>4. ASSUME NEW d \in Delivery, Claim(d)
      PROVE  /\ row.status = "completed" => row' = row
             /\ job' = job /\ \A e \in Delivery : result'[e] = "ok" => result[e] = "ok"
  BY <1>4 DEF Claim, ClaimFree, Answer, TypeOK
<1>5. ASSUME NEW d \in Delivery, Release(d) \/ RecheckJob(d)
      PROVE  /\ row.status = "completed" => row' = row
             /\ job' = job /\ \A e \in Delivery : result'[e] = "ok" => result[e] = "ok"
  BY <1>5 DEF Release, RecheckJob, ReleaseRow, Owns, Answer, TypeOK
<1>6. ASSUME NEW d \in Delivery, Store(d)
      PROVE  /\ row.status = "completed" => row' = row
             /\ job' = job
             /\ \A e \in Delivery : result'[e] = "ok" => result[e] = "ok" \/ row'.status = "completed"
  BY <1>6 DEF Store, Owns, Answer, TypeOK
<1>7. DocumentDeleted => job' = "gone" /\ UNCHANGED result
  BY DEF DocumentDeleted
<1>8. JobEnds => UNCHANGED <<row, result>> /\ job = "active"
  BY DEF JobEnds
<1>9. SourceDeleted \/ Tick => Kept
  BY DEF SourceDeleted, Tick
<1> QED
  BY <1>1, <1>2, <1>3, <1>4, <1>5, <1>6, <1>7, <1>8, <1>9 DEF Next, Work

\* A subtask that answers ok left a completed row behind, unless its document is gone.
THEOREM OkIsStored == Spec => []OkMeansStored
<1>1. Init => OkMeansStored
  BY DEF Init, OkMeansStored
<1>2. TypeOK /\ OkMeansStored /\ [Next]_vars => OkMeansStored'
  <2> SUFFICES ASSUME TypeOK, OkMeansStored, [Next]_vars PROVE OkMeansStored'
    OBVIOUS
  <2>1. CASE Next
    BY <2>1, OkStep DEF OkMeansStored
  <2>2. CASE UNCHANGED vars
    BY <2>2 DEF vars, OkMeansStored
  <2> QED BY <2>1, <2>2
<1> QED BY <1>1, <1>2, TypeCorrect, PTL DEF Spec

-----------------------------------------------------------------------------
(* How old a claim is compared with its holder.                            *)

\* With overdue tasks killed no task is older than the hard limit, a holder still owns
\* the row of a job that exists, its claim is no older than its task, and it is alone.
\* This is what makes the lease safe: a claim can only expire after Lease, and its
\* holder is dead after TimeLimit, which clocks that agree that far keep below Lease.
LeaseFacts ==
  /\ \A d \in Delivery : runTime[d] <= TimeLimit
  /\ \A d \in Delivery : pc[d] \in Holding /\ job # "gone" => Owns(d) /\ leaseAge <= runTime[d]
  /\ \A d, e \in Delivery : pc[d] \in Holding /\ pc[e] \in Holding => d = e

LeaseInv == DiesInTime => LeaseFacts

LEMMA LeasesCorrect == Spec => []LeaseInv
<1>1. Init => LeaseInv
  BY LimitsAssumption DEF Init, LeaseInv, LeaseFacts, Holding
<1>2. ASSUME TypeOK, TypeOK', ClaimInv, LeaseFacts, NoGrant PROVE LeaseFacts'
  <2>1. ASSUME NEW d \in Delivery PROVE runTime'[d] <= TimeLimit
    <3>1. runTime'[d] = runTime[d] \/ runTime'[d] = 0
      BY <1>2 DEF NoGrant
    <3>2. runTime[d] <= TimeLimit
      BY <1>2 DEF LeaseFacts
    <3> QED BY <3>1, <3>2, LimitsAssumption
  <2>2. \A d, e \in Delivery : pc'[d] \in Holding /\ pc'[e] \in Holding => d = e
    BY <1>2 DEF NoGrant, LeaseFacts
  <2>3. ASSUME NEW d \in Delivery, pc'[d] \in Holding, job' # "gone"
        PROVE  Owns(d)' /\ leaseAge' <= runTime'[d]
    <3>1. /\ pc[d] \in Holding /\ job # "gone"
          /\ token'[d] = token[d] /\ runTime'[d] = runTime[d]
      BY <1>2, <2>3 DEF NoGrant
    <3>2. UNCHANGED <<row, leaseAge>>
      BY <1>2, <2>3, <3>1 DEF NoGrant, LeaseFacts
    <3> QED BY <1>2, <3>1, <3>2 DEF LeaseFacts, Owns
  <2> QED BY <2>1, <2>2, <2>3 DEF LeaseFacts
<1>3. ASSUME TypeOK, LeaseFacts, DiesInTime, NEW d \in Delivery, Granted(d) PROVE LeaseFacts'
  <2>1. ASSUME NEW e \in Delivery PROVE pc[e] \notin Holding
    <3>1. pc[e] \in Holding =>
            row.status = "processing" /\ leaseAge <= runTime[e] /\ runTime[e] <= TimeLimit
      BY <1>3 DEF Granted, LeaseFacts, Owns
    <3>2. row.status = "processing" => leaseAge + ClockSkew > Lease
      <4>1. PICK lead \in Leads : ClaimFree(lead)
        BY <1>3 DEF Granted
      <4>2. lead \in Int /\ lead <= ClockSkew /\ leaseAge \in Nat
        BY <1>3, LimitsAssumption DEF Leads, TypeOK
      <4> QED BY <4>1, <4>2, LimitsAssumption DEF ClaimFree
    <3>3. leaseAge \in Nat /\ runTime[e] \in Nat
      BY <1>3 DEF TypeOK
    <3> QED BY <1>3, <3>1, <3>2, <3>3, LimitsAssumption DEF DiesInTime
  <2>2. \A e \in Delivery : pc'[e] \in Holding => e = d
    BY <1>3, <2>1 DEF Granted, TypeOK
  <2>3. Owns(d)' /\ leaseAge' <= runTime'[d]
    BY <1>3 DEF Granted, Owns, TypeOK
  <2> QED BY <1>3, <2>2, <2>3 DEF Granted, LeaseFacts
<1>4. ASSUME TypeOK, LeaseFacts, DiesInTime, Tick PROVE LeaseFacts'
  <2>1. ASSUME NEW d \in Delivery PROVE pc[d] \in Working => runTime[d] < TimeLimit
    BY <1>4 DEF Tick, DiesInTime
  <2>2. ASSUME NEW d \in Delivery PROVE runTime'[d] <= TimeLimit
    <3>1. runTime'[d] = IF pc[d] \in Working THEN Least(runTime[d] + 1, TimeLimit + 1)
                        ELSE runTime[d]
      BY <1>4 DEF Tick
    <3>2. runTime[d] \in Nat /\ runTime[d] <= TimeLimit
      BY <1>4 DEF LeaseFacts, TypeOK
    <3> QED BY <2>1, <3>1, <3>2, LimitsAssumption DEF Least
  <2>3. ASSUME NEW d \in Delivery, pc'[d] \in Holding, job' # "gone"
        PROVE  Owns(d)' /\ leaseAge' <= runTime'[d]
    <3>1. pc[d] \in Holding /\ pc[d] \in Working /\ job # "gone"
      BY <1>4, <2>3 DEF Tick, Holding, Working
    <3>2. Owns(d) /\ leaseAge <= runTime[d]
      BY <1>4, <3>1 DEF LeaseFacts
    <3>3. leaseAge' = Least(leaseAge + 1, Lease + ClockSkew + 1)
      BY <1>4, <3>2 DEF Tick, Owns
    <3>4. runTime'[d] = Least(runTime[d] + 1, TimeLimit + 1)
      BY <1>4, <3>1 DEF Tick
    <3>5. leaseAge \in Nat /\ runTime[d] \in Nat /\ runTime[d] < TimeLimit
      BY <1>4, <2>1, <3>1 DEF TypeOK
    <3>6. leaseAge' <= runTime'[d]
      BY <3>2, <3>3, <3>4, <3>5, LimitsAssumption DEF Least
    <3> QED BY <1>4, <3>2, <3>6 DEF Tick, Owns
  <2> QED BY <1>4, <2>2, <2>3 DEF Tick, LeaseFacts
<1>5. ASSUME LeaseFacts, UNCHANGED vars PROVE LeaseFacts'
  BY <1>5 DEF vars, LeaseFacts, Owns
<1>6. TypeOK /\ TypeOK' /\ ClaimInv /\ LeaseInv /\ [Next]_vars => LeaseInv'
  BY <1>2, <1>3, <1>4, <1>5, StepShape DEF LeaseInv
<1> QED BY <1>1, <1>6, TypeCorrect, ClaimsCorrect, PTL DEF Spec

\* No two deliveries call the model for the same source at the same time.
THEOREM OneCallerAtATime == Spec => []OneCaller
<1>1. LeaseInv => OneCaller
  BY DEF LeaseInv, LeaseFacts, OneCaller
<1> QED BY <1>1, LeasesCorrect, PTL

\* A running delivery never loses its claim to another one.
THEOREM HolderKeepsRow == Spec => []HolderOwnsRow
<1>1. LeaseInv => HolderOwnsRow
  BY DEF LeaseInv, LeaseFacts, HolderOwnsRow
<1> QED BY <1>1, LeasesCorrect, PTL

-----------------------------------------------------------------------------
(* What was retried.                                                       *)

\* Celery has counted no retry that the message's own two counters do not account for.
BudgetInv ==
  /\ \A d \in Delivery : retries[d] <= busy[d] + llm[d]
  /\ FullBudget

\* A retry that is still within its own budget is within Celery's limit too, so it is
\* published and answers nothing.
LEMMA RetryIsPublished ==
  ASSUME TypeOK, BudgetInv, NEW d \in Delivery, NEW countdown, NEW fallback,
         RetryLater(d, countdown, fallback), busy[d] < BusyLimit \/ llm[d] < LlmLimit
  PROVE  /\ retries' = [retries EXCEPT ![d] = @ + 1]
         /\ result' = [result EXCEPT ![d] = "none"]
         /\ Goto(d, "queued") /\ wait' = [wait EXCEPT ![d] = countdown]
<1>1. retries[d] \in Nat /\ busy[d] \in 0..BusyLimit /\ llm[d] \in 0..LlmLimit
  BY DEF TypeOK
<1>2. retries[d] <= busy[d] + llm[d]
  BY DEF BudgetInv
<1>3. ~(retries[d] >= MaxRetries)
  BY <1>1, <1>2, LimitsAssumption, BudgetAssumption
<1> QED BY <1>3 DEF RetryLater

LEMMA BudgetsCorrect == Spec => []BudgetInv
<1>1. Init => BudgetInv
  BY DEF Init, BudgetInv, FullBudget
<1>2. TypeOK /\ TypeOK' /\ BudgetInv /\ [Next]_vars => BudgetInv'
  <2> SUFFICES ASSUME TypeOK, TypeOK', BudgetInv, [Next]_vars PROVE BudgetInv'
    OBVIOUS
  <2> USE DEF shared, counters
  <2>0. \A e \in Delivery : /\ retries[e] \in Nat /\ busy[e] \in Nat /\ llm[e] \in Nat
                            /\ busy[e] <= BusyLimit /\ llm[e] <= LlmLimit
    BY LimitsAssumption DEF TypeOK
  <2>1. ASSUME NEW d \in Delivery, SettleBusy(d) PROVE BudgetInv'
    <3>1. CASE busy[d] >= BusyLimit /\ GiveUp(d, "failed_busy") /\ UNCHANGED busy
      <4>1. busy[d] = BusyLimit
        BY <2>0, <3>1, LimitsAssumption
      <4> QED BY <2>1, <3>1, <4>1 DEF SettleBusy, GiveUp, BudgetInv, FullBudget, TypeOK
    <3>2. CASE /\ busy[d] < BusyLimit
               /\ RetryLater(d, BusyCountdown, "failed_busy")
               /\ busy' = [busy EXCEPT ![d] = @ + 1]
      <4>1. /\ retries' = [retries EXCEPT ![d] = @ + 1]
            /\ result' = [result EXCEPT ![d] = "none"]
        BY <3>2, RetryIsPublished
      <4>2. ASSUME NEW e \in Delivery PROVE retries'[e] <= busy'[e] + llm'[e]
        BY <2>0, <2>1, <3>2, <4>1 DEF SettleBusy, BudgetInv, TypeOK
      <4>3. FullBudget'
        BY <2>1, <3>2, <4>1 DEF SettleBusy, BudgetInv, FullBudget, TypeOK
      <4> QED BY <4>2, <4>3 DEF BudgetInv
    <3> QED BY <2>1, <3>1, <3>2 DEF SettleBusy
  <2>2. ASSUME NEW d \in Delivery, SettleRetryable(d) PROVE BudgetInv'
    <3>1. CASE llm[d] >= LlmLimit /\ GiveUp(d, "failed_llm") /\ UNCHANGED llm
      <4>1. llm[d] = LlmLimit
        BY <2>0, <3>1, LimitsAssumption
      <4> QED BY <2>2, <3>1, <4>1 DEF SettleRetryable, GiveUp, BudgetInv, FullBudget, TypeOK
    <3>2. CASE /\ llm[d] < LlmLimit
               /\ RetryLater(d, Backoff[llm[d]], "failed_llm")
               /\ llm' = [llm EXCEPT ![d] = @ + 1]
      <4>1. /\ retries' = [retries EXCEPT ![d] = @ + 1]
            /\ result' = [result EXCEPT ![d] = "none"]
        BY <3>2, RetryIsPublished
      <4>2. ASSUME NEW e \in Delivery PROVE retries'[e] <= busy'[e] + llm'[e]
        BY <2>0, <2>2, <3>2, <4>1 DEF SettleRetryable, BudgetInv, TypeOK
      <4>3. FullBudget'
        BY <2>2, <3>2, <4>1 DEF SettleRetryable, BudgetInv, FullBudget, TypeOK
      <4> QED BY <4>2, <4>3 DEF BudgetInv
    <3> QED BY <2>2, <3>1, <3>2 DEF SettleRetryable
  <2>3. ASSUME UNCHANGED counters,
               \A e \in Delivery : result'[e] # result[e] =>
                 result'[e] \notin {"failed_busy", "failed_llm"}
        PROVE  BudgetInv'
    BY <2>3 DEF BudgetInv, FullBudget
  <2>4. ASSUME NEW d \in Delivery,
               \/ Start(d) \/ CheckJob(d) \/ Look(d) \/ Claim(d) \/ Generate(d)
               \/ GenerateFails(d) \/ Release(d)
        PROVE  BudgetInv'
    BY <2>3, <2>4 DEF Start, CheckJob, Look, Claim, Generate, GenerateFails, Release,
                      Answer, TypeOK
  <2>5. ASSUME NEW d \in Delivery,
               \/ RecheckJob(d) \/ Store(d) \/ Settle(d) \/ TimeOut(d) \/ Crash(d)
               \/ Fail(d)
        PROVE  BudgetInv'
    BY <2>3, <2>5 DEF RecheckJob, Store, Settle, TimeOut, Crash, Fail, Answer, TypeOK
  <2>6. CASE JobEnds \/ DocumentDeleted \/ SourceDeleted \/ Tick \/ UNCHANGED vars
    BY <2>3, <2>6 DEF JobEnds, DocumentDeleted, SourceDeleted, Tick, vars
  <2> QED BY <2>1, <2>2, <2>4, <2>5, <2>6 DEF Next, Work
<1> QED BY <1>1, <1>2, TypeCorrect, PTL DEF Spec

\* A subtask that fails for being busy, or for a model timeout, spent that whole budget:
\* the limit Celery enforces on their sum never cuts either short.
THEOREM BudgetsAreFull == Spec => []FullBudget
<1>1. BudgetInv => FullBudget
  BY DEF BudgetInv
<1> QED BY <1>1, BudgetsCorrect, PTL

-----------------------------------------------------------------------------
(* How long a delivery waits for a claim.                                  *)

LEMMA OneMore == ASSUME NEW n \in Nat, NEW c \in Nat PROVE (n + 1) * c = n * c + c
OBVIOUS

LEMMA FewerWaits ==
  ASSUME NEW n \in Nat, NEW m \in Nat, NEW c \in Nat, n * c < m * c
  PROVE  n < m
<1> SUFFICES ASSUME n >= m PROVE FALSE
  OBVIOUS
<1>1. PICK k \in Nat : n = m + k
  <2> WITNESS n - m \in Nat
  <2> QED OBVIOUS
<1>2. n * c = m * c + k * c
  BY <1>1
<1>3. k * c \in Nat
  OBVIOUS
<1>4. m * c \in Nat
  OBVIOUS
<1> QED BY <1>2, <1>3, <1>4

\* While the claim e first had to wait for is in the row, its age makes up for all
\* the countdowns e has behind it; so e's budget outlasts it, and whoever has had a claim
\* since has replaced it.
Awaits(e) ==
  /\ seen[e] <= issued
  /\ seen[e] # NoToken => busy[e] > 0
  /\ pc[e] # "queued" => wait[e] = 0
  /\ row.token = seen[e] /\ seen[e] # NoToken =>
       /\ pc[e] \notin Holding
       /\ leaseAge > Lease + ClockSkew \/ leaseAge + wait[e] >= 1 + busy[e] * BusyCountdown
       /\ pc[e] = "answered" /\ result[e] = "busy" => busy[e] < BusyLimit
       /\ result[e] # "failed_busy"

WaitInv == WaitsOutlastLease => \A e \in Delivery : Awaits(e)

\* What a step does to the row as a waiting delivery sees it: the claim it waits for is
\* untouched or gone for good.
Untouched(t) ==
  /\ issued <= issued'
  /\ t # NoToken /\ t <= issued /\ row'.token = t => row.token = t /\ leaseAge' = leaseAge

LEMMA OldClaimStays ==
  ASSUME TypeOK, NoGrant \/ \E d \in Delivery : Granted(d), NEW t \in Nat
  PROVE  Untouched(t)
<1>0. issued \in Nat
  BY DEF TypeOK
<1>1. CASE NoGrant
  BY <1>0, <1>1 DEF NoGrant, Untouched, NoRow
<1>2. CASE \E d \in Delivery : Granted(d)
  BY <1>0, <1>2 DEF Granted, Untouched
<1> QED BY <1>1, <1>2

\* A step after which e still waits for the same claim, as patiently as before.
Patient(e) ==
  /\ seen'[e] = seen[e] /\ busy'[e] = busy[e] /\ wait'[e] \in Nat /\ wait'[e] >= wait[e]
  /\ pc'[e] # "queued" => wait'[e] = 0
  /\ row'.token = seen[e] /\ row.token = seen[e] /\ seen[e] # NoToken =>
       /\ pc'[e] \in Holding => pc[e] \in Holding
       /\ result'[e] = "failed_busy" => result[e] = "failed_busy"
       /\ pc'[e] = "answered" /\ result'[e] = "busy" => busy[e] < BusyLimit

LEMMA PatientStep ==
  ASSUME TypeOK, TypeOK', NEW e \in Delivery, Awaits(e), Untouched(seen[e]), Patient(e)
  PROVE  Awaits(e)'
<1>0. /\ seen[e] \in Nat /\ issued \in Nat /\ wait[e] \in Nat /\ leaseAge \in Nat
  BY DEF TypeOK
<1>1. busy[e] * BusyCountdown \in Nat
  <2>1. busy[e] \in Nat /\ BusyCountdown \in Nat
    BY LimitsAssumption DEF TypeOK
  <2> QED BY <2>1
<1>2. issued' >= issued /\ seen'[e] = seen[e] /\ busy'[e] = busy[e]
  BY DEF Untouched, Patient
<1>3. seen'[e] <= issued' /\ (seen'[e] # NoToken => busy'[e] > 0)
  <2>1. issued' \in Nat
    BY DEF TypeOK
  <2> QED BY <1>0, <1>2, <2>1 DEF Awaits
<1>4. ASSUME row'.token = seen[e], seen[e] # NoToken
      PROVE  /\ pc'[e] \notin Holding
             /\ leaseAge' > Lease + ClockSkew \/ leaseAge' + wait'[e] >= 1 + busy'[e] * BusyCountdown
             /\ pc'[e] = "answered" /\ result'[e] = "busy" => busy'[e] < BusyLimit
             /\ result'[e] # "failed_busy"
  <2>1. row.token = seen[e] /\ leaseAge' = leaseAge
    BY <1>4 DEF Untouched, Awaits
  <2>2. leaseAge > Lease + ClockSkew \/ leaseAge + wait[e] >= 1 + busy[e] * BusyCountdown
    BY <1>4, <2>1 DEF Awaits
  <2>3. leaseAge' > Lease + ClockSkew \/ leaseAge' + wait'[e] >= 1 + busy'[e] * BusyCountdown
    <3>1. wait'[e] \in Nat /\ wait'[e] >= wait[e]
      BY DEF Patient
    <3> QED BY <1>0, <1>1, <1>2, <2>1, <2>2, <3>1
  <2> QED BY <1>2, <1>4, <2>1, <2>3 DEF Patient, Awaits
<1> QED BY <1>2, <1>3, <1>4 DEF Awaits, Patient

\* Nothing of e's own changes.
LEMMA OthersArePatient ==
  ASSUME TypeOK, NEW e \in Delivery, Awaits(e),
         seen'[e] = seen[e], busy'[e] = busy[e], wait'[e] = wait[e],
         pc'[e] = pc[e], result'[e] = result[e]
  PROVE  Patient(e)
BY DEF Patient, Awaits, TypeOK

\* The first time it is busy a delivery notes the claim in its way, and every time it
\* waits one countdown more.
LEMMA BusyAwaits ==
  ASSUME TypeOK, TypeOK', ClaimInv, BudgetInv, NEW d \in Delivery, Awaits(d), SettleBusy(d)
  PROVE  Awaits(d)'
<1> USE DEF shared, counters
<1>0. /\ seen[d] \in Nat /\ issued \in Nat /\ wait[d] \in Nat /\ leaseAge \in Nat
      /\ busy[d] \in Nat /\ busy[d] <= BusyLimit /\ row.token \in Nat
  BY LimitsAssumption DEF TypeOK
<1>1. /\ pc[d] = "answered" /\ result[d] = "busy" /\ wait[d] = 0
      /\ row' = row /\ leaseAge' = leaseAge /\ issued' = issued
  BY DEF SettleBusy, Awaits
<1>2. BusyLimit > 0
  <2>1. BusyLimit * BusyCountdown # 0
    BY WaitAssumption, LeaseAssumption, LimitsAssumption
  <2> QED BY <2>1, LimitsAssumption
<1>3. busy[d] = 0 => seen[d] = NoToken
  BY <1>0 DEF Awaits
<1>4. CASE busy[d] >= BusyLimit /\ GiveUp(d, "failed_busy") /\ UNCHANGED busy
  <2>1. /\ seen'[d] = seen[d] /\ pc'[d] = "done" /\ wait'[d] = 0 /\ busy'[d] = busy[d]
        /\ busy[d] > 0
    BY <1>0, <1>1, <1>2, <1>4, LimitsAssumption DEF SettleBusy, GiveUp, Goto, TypeOK
  <2>2. ~(row.token = seen[d] /\ seen[d] # NoToken)
    BY <1>0, <1>1, <1>4, LimitsAssumption DEF Awaits
  <2> QED BY <1>0, <1>1, <2>1, <2>2 DEF Awaits
<1>5. CASE /\ busy[d] < BusyLimit
           /\ RetryLater(d, BusyCountdown, "failed_busy")
           /\ busy' = [busy EXCEPT ![d] = @ + 1]
  <2>1. Goto(d, "queued") /\ wait' = [wait EXCEPT ![d] = BusyCountdown]
        /\ result' = [result EXCEPT ![d] = "none"]
    BY <1>5, RetryIsPublished
  <2>2. /\ pc'[d] = "queued" /\ wait'[d] = BusyCountdown /\ busy'[d] = busy[d] + 1
        /\ result'[d] = "none"
    BY <1>5, <2>1 DEF Goto, TypeOK
  <2>3. (busy[d] + 1) * BusyCountdown = busy[d] * BusyCountdown + BusyCountdown
    BY <1>0, OneMore, LimitsAssumption
  <2>4. seen'[d] \in {seen[d], row.token} /\ seen'[d] <= issued
    BY <1>0 DEF SettleBusy, TypeOK, ClaimInv, Awaits, NoToken
  <2>5. ASSUME row.token = seen'[d], seen'[d] # NoToken
        PROVE  leaseAge > Lease + ClockSkew \/ leaseAge >= 1 + busy[d] * BusyCountdown
    <3>1. CASE busy[d] = 0
      <4>1. leaseAge > 0
        BY <1>3, <2>5, <3>1 DEF SettleBusy, TypeOK
      <4>2. busy[d] * BusyCountdown = 0
        BY <3>1, LimitsAssumption
      <4> QED BY <1>0, <4>1, <4>2
    <3>2. CASE busy[d] # 0
      <4>1. seen'[d] = seen[d]
        BY <3>2 DEF SettleBusy
      <4>2. leaseAge > Lease + ClockSkew \/ leaseAge + wait[d] >= 1 + busy[d] * BusyCountdown
        BY <2>5, <4>1 DEF Awaits
      <4> QED BY <1>0, <1>1, <4>2
    <3> QED BY <3>1, <3>2
  <2>6. busy[d] * BusyCountdown \in Nat
    BY <1>0, LimitsAssumption
  <2>7. ASSUME row.token = seen'[d], seen'[d] # NoToken
        PROVE  leaseAge > Lease + ClockSkew \/ leaseAge + BusyCountdown >= 1 + (busy[d] + 1) * BusyCountdown
    <3>1. CASE leaseAge > Lease + ClockSkew
      BY <3>1
    <3>2. CASE leaseAge >= 1 + busy[d] * BusyCountdown
      BY <1>0, <2>3, <2>6, <3>2, LimitsAssumption
    <3> QED BY <2>5, <2>7, <3>1, <3>2
  <2>8. "queued" \notin Holding
    BY DEF Holding
  <2> QED BY <1>0, <1>1, <2>2, <2>4, <2>7, <2>8 DEF Awaits
<1> QED BY <1>4, <1>5 DEF SettleBusy

\* Every other step of a delivery.
LEMMA StepIsPatient ==
  ASSUME TypeOK, TypeOK', ClaimInv, NEW d \in Delivery, Awaits(d),
         WaitsOutlastLease,
         \/ Start(d) \/ CheckJob(d) \/ Look(d) \/ Claim(d) \/ Generate(d) \/ GenerateFails(d)
         \/ Release(d) \/ RecheckJob(d) \/ Store(d)
         \/ SettleRetryable(d) \/ Settle(d) \/ TimeOut(d) \/ Crash(d) \/ Fail(d)
  PROVE  Patient(d)
<1> USE DEF shared, counters
<1>0. /\ {"generate", "store", "release", "commit"} = Holding
      /\ \A p \in Working : p # "queued"
      /\ wait[d] \in Nat /\ busy[d] \in Nat /\ leaseAge \in Nat
  BY LimitsAssumption DEF Holding, Working, TypeOK
<1>1. pc[d] # "queued" => wait[d] = 0
  BY DEF Awaits
<1>2. row.token = seen[d] /\ seen[d] # NoToken => pc[d] \notin Holding
  BY DEF Awaits
<1>3. CASE Start(d)
  BY <1>0, <1>3 DEF Start, Goto, Patient, TypeOK
<1>4. CASE CheckJob(d)
  BY <1>0, <1>1, <1>4 DEF CheckJob, Answer, Goto, Patient, TypeOK
<1>5. CASE Look(d)
  BY <1>0, <1>1, <1>5 DEF Look, Answer, Goto, Patient, TypeOK
<1>6. CASE Claim(d)
  <2>1. CASE job = "gone" /\ Goto(d, "lost") /\ UNCHANGED <<row, leaseAge, issued, token, result>>
    BY <1>0, <1>1, <1>6, <2>1 DEF Claim, Goto, Patient, TypeOK
  <2>2. CASE row' = [status |-> "processing", token |-> issued + 1] /\ Goto(d, "generate")
             /\ UNCHANGED result
    <3>1. row'.token # seen[d]
      BY <2>2 DEF Awaits, TypeOK
    <3> QED BY <1>0, <1>1, <1>6, <2>2, <3>1 DEF Claim, Goto, Patient, TypeOK
  <2>3. CASE /\ \E lead \in Leads : ~ClaimFree(lead)
             /\ Answer(d, "busy") /\ UNCHANGED <<row, leaseAge, issued>>
    <3>1. ASSUME row.token = seen[d], seen[d] # NoToken PROVE busy[d] < BusyLimit
      <4>0. PICK lead \in Leads : ~ClaimFree(lead)
        BY <2>3
      <4>1. row.status = "processing" /\ leaseAge <= Lease + ClockSkew
        <5>1. lead \in Int /\ -ClockSkew <= lead
          BY LimitsAssumption DEF Leads
        <5>2. row.status = "processing"
          BY <3>1 DEF ClaimInv
        <5> QED BY <1>0, <4>0, <5>1, <5>2, LimitsAssumption DEF ClaimFree
      <4>2. leaseAge + wait[d] >= 1 + busy[d] * BusyCountdown /\ wait[d] = 0
        BY <1>0, <1>1, <1>6, <3>1, <4>1, LimitsAssumption DEF Awaits, Claim
      <4>3. busy[d] * BusyCountdown \in Nat /\ BusyLimit * BusyCountdown \in Nat
        BY <1>0, LimitsAssumption
      <4>4. busy[d] * BusyCountdown < BusyLimit * BusyCountdown
        BY <1>0, <4>1, <4>2, <4>3, LimitsAssumption DEF WaitsOutlastLease
      <4> QED BY <1>0, <4>4, FewerWaits, LimitsAssumption
    <3> QED BY <1>0, <1>1, <1>6, <2>3, <3>1 DEF Claim, Answer, Goto, Patient, TypeOK
  <2> QED BY <1>6, <2>1, <2>2, <2>3 DEF Claim
<1>7. CASE Generate(d)
  BY <1>0, <1>1, <1>7 DEF Generate, Goto, Patient, TypeOK
<1>8. CASE GenerateFails(d)
  BY <1>0, <1>1, <1>2, <1>8 DEF GenerateFails, Goto, Patient, TypeOK
<1>9. CASE Release(d)
  BY <1>0, <1>1, <1>2, <1>9 DEF Release, Goto, Patient, TypeOK
<1>10. CASE RecheckJob(d)
  BY <1>0, <1>1, <1>2, <1>10 DEF RecheckJob, Answer, Goto, Patient, TypeOK
<1>11. CASE Store(d)
  BY <1>0, <1>1, <1>2, <1>11 DEF Store, Answer, Goto, Patient, TypeOK
<1>12. CASE SettleRetryable(d)
  <2>1. Backoff[llm[d]] \in Nat
    BY LimitsAssumption DEF TypeOK
  <2> QED BY <1>0, <1>1, <1>12, <2>1 DEF SettleRetryable, GiveUp, RetryLater, Goto, Patient, TypeOK
<1>13. CASE Settle(d)
  BY <1>0, <1>1, <1>13 DEF Settle, Goto, Patient, TypeOK
<1>14. CASE TimeOut(d)
  BY <1>0, <1>1, <1>14 DEF TimeOut, Goto, Patient, TypeOK
<1>15. CASE Crash(d)
  BY <1>0, <1>1, <1>15 DEF Crash, Goto, Patient, TypeOK
<1>16. CASE Fail(d)
  BY <1>0, <1>1, <1>16 DEF Fail, Goto, Patient, TypeOK
<1> QED
  BY <1>3, <1>4, <1>5, <1>6, <1>7, <1>8, <1>9, <1>10, <1>11, <1>12, <1>13, <1>14, <1>15, <1>16

LEMMA AllWait == Spec => []WaitInv
<1>1. Init => WaitInv
  BY LimitsAssumption DEF Init, WaitInv, Awaits, Holding, NoRow, NoToken
<1>2. ASSUME TypeOK, TypeOK', ClaimInv, BudgetInv, WaitInv, WaitsOutlastLease, [Next]_vars
      PROVE  WaitInv'
  <2>1. ASSUME NEW e \in Delivery,
               \/ UNCHANGED <<row, leaseAge, issued>>
               \/ NoGrant \/ \E d \in Delivery : Granted(d)
        PROVE  Untouched(seen[e])
    <3>1. seen[e] \in Nat /\ issued \in Nat
      BY <1>2 DEF TypeOK
    <3>2. CASE UNCHANGED <<row, leaseAge, issued>>
      BY <3>1, <3>2 DEF Untouched
    <3> QED BY <1>2, <2>1, <3>1, <3>2, OldClaimStays
  <2>2. CASE Tick
    <3> SUFFICES ASSUME NEW e \in Delivery PROVE Awaits(e)'
      BY DEF WaitInv
    <3>1. Awaits(e) /\ wait[e] \in Nat /\ leaseAge \in Nat
      BY <1>2 DEF WaitInv, TypeOK
    <3>2. /\ wait'[e] = IF wait[e] > 0 THEN wait[e] - 1 ELSE 0
          /\ leaseAge' = IF row.status = "processing" THEN Least(leaseAge + 1, Lease + ClockSkew + 1) ELSE 0
          /\ seen'[e] = seen[e] /\ busy'[e] = busy[e] /\ pc'[e] = pc[e] /\ result'[e] = result[e]
          /\ row' = row /\ issued' = issued
      BY <2>2 DEF Tick, counters
    <3>3. ASSUME row.token = seen[e], seen[e] # NoToken
          PROVE  leaseAge' > Lease + ClockSkew \/ leaseAge' + wait'[e] >= 1 + busy[e] * BusyCountdown
      <4>1. row.status = "processing"
        BY <1>2, <3>3 DEF ClaimInv
      <4>2. busy[e] \in Nat /\ BusyCountdown \in Nat
        BY <1>2, LimitsAssumption DEF TypeOK
      <4>3. busy[e] * BusyCountdown \in Nat
        BY <4>2
      <4>4. leaseAge > Lease + ClockSkew \/ leaseAge + wait[e] >= 1 + busy[e] * BusyCountdown
        BY <3>1, <3>3 DEF Awaits
      <4> QED BY <3>1, <3>2, <4>1, <4>3, <4>4, LimitsAssumption DEF Least
    <3> QED BY <3>1, <3>2, <3>3 DEF Awaits
  <2>3. ASSUME NEW d \in Delivery, Work(d) \/ Crash(d) \/ Fail(d) PROVE WaitInv'
    <3> USE DEF shared, counters
    <3> SUFFICES ASSUME NEW e \in Delivery PROVE Awaits(e)'
      BY DEF WaitInv
    <3>1. Awaits(e) /\ Awaits(d)
      BY <1>2 DEF WaitInv
    <3>2. ~Tick => Untouched(seen[e])
      BY <1>2, <2>1, <2>3, StepShape DEF Next
    <3>3. CASE e # d
      <4>1. UNCHANGED <<seen[e], busy[e], wait[e], pc[e], result[e]>>
        BY <1>2, <2>3, <3>3 DEF Work, Start, CheckJob, Look, Claim, Generate, GenerateFails, Release,
             RecheckJob, Store, SettleBusy, SettleRetryable, Settle, TimeOut, Crash, Fail,
             Answer, Goto, GiveUp, RetryLater, TypeOK
      <4>2. Patient(e)
        BY <1>2, <3>1, <4>1, OthersArePatient
      <4> QED BY <1>2, <2>2, <3>1, <3>2, <4>2, PatientStep DEF WaitInv
    <3>4. CASE e = d /\ SettleBusy(d)
      BY <1>2, <3>1, <3>4, BusyAwaits
    <3>5. CASE e = d /\ ~SettleBusy(d)
      <4>1. Patient(d)
        BY <1>2, <2>3, <3>1, <3>5, StepIsPatient DEF Work
      <4> QED BY <1>2, <2>2, <3>1, <3>2, <3>5, <4>1, PatientStep DEF WaitInv
    <3> QED BY <3>3, <3>4, <3>5
  <2>4. CASE JobEnds \/ DocumentDeleted \/ SourceDeleted \/ UNCHANGED vars
    <3> SUFFICES ASSUME NEW e \in Delivery PROVE Awaits(e)'
      BY DEF WaitInv
    <3>1. UNCHANGED <<seen, busy, wait, pc, result>>
      BY <2>4 DEF JobEnds, DocumentDeleted, SourceDeleted, vars, counters
    <3>2. Untouched(seen[e])
      <4>1. CASE DocumentDeleted
        BY <1>2, <4>1 DEF DocumentDeleted, Untouched, NoRow, TypeOK
      <4>2. CASE UNCHANGED <<row, leaseAge, issued>>
        BY <2>1, <4>2
      <4> QED BY <2>4, <4>1, <4>2 DEF JobEnds, SourceDeleted, vars
    <3>3. Awaits(e) /\ Patient(e)
      BY <1>2, <3>1, OthersArePatient DEF WaitInv
    <3> QED BY <1>2, <3>2, <3>3, PatientStep
  <2> QED BY <1>2, <2>2, <2>3, <2>4 DEF Next
<1>3. ~WaitsOutlastLease => WaitInv'
  BY DEF WaitInv, WaitsOutlastLease
<1>4. TypeOK /\ TypeOK' /\ ClaimInv /\ BudgetInv /\ WaitInv /\ [Next]_vars => WaitInv'
  BY <1>2, <1>3
<1> QED BY <1>1, <1>4, TypeCorrect, ClaimsCorrect, BudgetsCorrect, PTL DEF Spec

\* Waiting outlasts a dead holder: a subtask gives up with SOURCE_BUSY only if the claim it
\* first had to wait for was meanwhile replaced, however many deliveries and crashes.
THEOREM PatienceIsEnough == Spec => []GivesUpOnlyOnNewClaim
<1>1. WaitInv => GivesUpOnlyOnNewClaim
  BY DEF WaitInv, Awaits, GivesUpOnlyOnNewClaim
<1> QED BY <1>1, AllWait, PTL

-----------------------------------------------------------------------------
(* What the chord is told.                                                 *)

outcome == <<batches, job = "gone", Told>>

\* A delivery that moves to a place other than done tells nothing.
LEMMA TellsNothing ==
  ASSUME TypeOK, NEW d \in Delivery, NEW place, Goto(d, place), pc[d] # "done", place # "done",
         result' = result \/ \E r : result' = [result EXCEPT ![d] = r]
  PROVE  Told' = Told
<1>1. ASSUME NEW e \in Delivery
      PROVE  (IF pc'[e] = "done" THEN result'[e] ELSE "none") = IF pc[e] = "done" THEN result[e] ELSE "none"
  BY DEF TypeOK, Goto
<1> QED BY <1>1 DEF Told

\* One that is done tells what it answered.
LEMMA TellsItsAnswer ==
  ASSUME TypeOK, NEW d \in Delivery, Goto(d, "done"), pc[d] # "done", NEW a,
         result' = [result EXCEPT ![d] = a],
         UNCHANGED <<batches, job>>, a \in Outcome!Answers,
         a = "ok" => batches # {} \/ job = "gone"
  PROVE  Outcome!Next
<1>1. Told[d] = "none" /\ DOMAIN Told = Delivery
  BY DEF Told
<1>2. Told' = [Told EXCEPT ![d] = a]
  <2>1. ASSUME NEW e \in Delivery
        PROVE  (IF pc'[e] = "done" THEN result'[e] ELSE "none") = IF e = d THEN a ELSE Told[e]
    BY DEF TypeOK, Goto, Told
  <2> QED BY <2>1 DEF Told
<1>3. Outcome!Answer(d)
  BY <1>1, <1>2 DEF Outcome!Answer
<1> QED BY <1>3 DEF Outcome!Next

LEMMA OutcomeInit == Init => Outcome!Init
BY DEF Init, Outcome!Init, Told

\* Every step of the subtask is a step of SourceResult or changes nothing of it.
LEMMA OutcomeNext ==
  ASSUME TypeOK, ClaimInv, BatchMatchesRow, OkMeansStored, [Next]_vars
  PROVE  [Outcome!Next]_outcome
<1> USE DEF shared, outcome
<1>1. ASSUME NEW d \in Delivery,
             \/ Start(d) \/ CheckJob(d) \/ Look(d) \/ Claim(d) \/ Generate(d) \/ GenerateFails(d)
             \/ Release(d) \/ RecheckJob(d) \/ TimeOut(d) \/ Crash(d) \/ Fail(d)
      PROVE  UNCHANGED outcome
  <2>1. UNCHANGED <<batches, job>> /\ pc[d] # "done"
    BY <1>1 DEF Start, CheckJob, Look, Claim, Generate, GenerateFails, Release, RecheckJob,
                TimeOut, Crash, Fail, Working
  <2>2. \E place : Goto(d, place) /\ place # "done"
    BY <1>1 DEF Start, CheckJob, Look, Claim, Generate, GenerateFails, Release, RecheckJob,
                TimeOut, Crash, Fail, Answer
  <2>3. result' = result \/ \E r : result' = [result EXCEPT ![d] = r]
    BY <1>1 DEF Start, CheckJob, Look, Claim, Generate, GenerateFails, Release, RecheckJob,
                TimeOut, Crash, Fail, Answer
  <2> QED BY <2>1, <2>2, <2>3, TellsNothing
<1>2. ASSUME NEW d \in Delivery, Store(d) PROVE [Outcome!Next]_outcome
  <2>1. Told' = Told /\ job' = job
    <3>1. \E r : Answer(d, r)
      BY <1>2 DEF Store
    <3>2. pc[d] # "done" /\ job' = job
      BY <1>2 DEF Store
    <3> QED BY <3>1, <3>2, TellsNothing DEF Answer
  <2>2. CASE Owns(d) /\ source
    <3>1. batches = {} /\ job # "gone" /\ batches' = {token[d]}
      BY <1>2, <2>2 DEF Store, Owns, ClaimInv, BatchMatchesRow
    <3>2. Outcome!Store
      BY <2>1, <3>1 DEF Outcome!Store
    <3> QED BY <3>2 DEF Outcome!Next
  <2>3. CASE batches' = batches
    BY <2>1, <2>3
  <2> QED BY <1>2, <2>2, <2>3 DEF Store
<1>3. ASSUME NEW d \in Delivery, Settle(d) PROVE [Outcome!Next]_outcome
  <2>1. UNCHANGED <<batches, job, result>> /\ pc[d] # "done" /\ Goto(d, "done")
    BY <1>3 DEF Settle
  <2>2. result[d] \in Outcome!Answers \cup {"none"}
    BY <1>3 DEF Settle, TypeOK, Results, Outcome!Answers
  <2>3. result' = [result EXCEPT ![d] = result[d]]
    BY <2>1 DEF TypeOK
  <2>4. CASE result[d] = "none"
    <3>1. ASSUME NEW e \in Delivery
          PROVE  (IF pc'[e] = "done" THEN result'[e] ELSE "none") = IF pc[e] = "done" THEN result[e] ELSE "none"
      BY <2>1, <2>4 DEF TypeOK, Goto
    <3>2. Told' = Told
      BY <3>1 DEF Told
    <3> QED BY <2>1, <3>2
  <2>5. result[d] = "ok" => batches # {} \/ job = "gone"
    BY DEF OkMeansStored, BatchMatchesRow
  <2> QED BY <2>1, <2>2, <2>3, <2>4, <2>5, TellsItsAnswer
<1>4. ASSUME NEW d \in Delivery, SettleBusy(d) \/ SettleRetryable(d) PROVE [Outcome!Next]_outcome
  <2>1. UNCHANGED <<batches, job>> /\ pc[d] # "done"
    BY <1>4 DEF SettleBusy, SettleRetryable
  <2>2. \/ \E a \in {"failed_busy", "failed_llm"} : Goto(d, "done") /\ result' = [result EXCEPT ![d] = a]
        \/ Goto(d, "queued") /\ result' = [result EXCEPT ![d] = "none"]
    BY <1>4 DEF SettleBusy, SettleRetryable, GiveUp, RetryLater
  <2>3. CASE Goto(d, "queued") /\ result' = [result EXCEPT ![d] = "none"]
    BY <2>1, <2>3, TellsNothing
  <2>4. ASSUME NEW a \in {"failed_busy", "failed_llm"}, Goto(d, "done"), result' = [result EXCEPT ![d] = a]
        PROVE  Outcome!Next
    <3>1. a \in Outcome!Answers /\ a # "ok"
      BY DEF Outcome!Answers
    <3> QED BY <2>1, <2>4, <3>1, TellsItsAnswer
  <2> QED BY <2>2, <2>3, <2>4
<1>5. CASE DocumentDeleted
  <2>1. Told' = Told /\ job # "gone" /\ job' = "gone" /\ batches' = {}
    BY <1>5 DEF DocumentDeleted, Told
  <2> QED BY <2>1 DEF Outcome!Delete, Outcome!Next
<1>6. CASE JobEnds \/ SourceDeleted \/ Tick \/ UNCHANGED vars
  BY <1>6 DEF JobEnds, SourceDeleted, Tick, vars, Told
<1> QED BY <1>1, <1>2, <1>3, <1>4, <1>5, <1>6 DEF Next, Work

\* Delivered at least once, done at most once: each step of the deliveries is a step of
\* SourceResult or none, for any number of deliveries, crashes and takeovers.
THEOREM ImplementsSourceResult == Spec => SourceResultSpec
<1>1. TypeOK /\ ClaimInv /\ BatchMatchesRow /\ OkMeansStored /\ [Next]_vars => [Outcome!Next]_outcome
  BY OutcomeNext
<1> QED BY <1>1, OutcomeInit, TypeCorrect, ClaimsCorrect, OneBatch, OkIsStored, PTL
        DEF Spec, SourceResultSpec, Outcome!Spec, outcome
===============================================================================

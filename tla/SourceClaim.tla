----------------------------- MODULE SourceClaim -----------------------------
(***************************************************************************)
(* One source of one analysis job, as the Celery workers process it        *)
(* (app/workers/tasks/analysis_tasks.py, _process_source and the task      *)
(* around it) over the row of analysis_job_sources that arbitrates who may *)
(* call the language model and who may store its suggestions.              *)
(*                                                                         *)
(* A Delivery is one delivery of the subtask's message.  The broker may    *)
(* deliver the same subtask more than once (acks_late with                 *)
(* reject_on_worker_lost), so several deliveries run concurrently.  Each   *)
(* database transaction is one step, taken at its commit, except where the *)
(* code reads in a statement of its own before it writes: those reads are  *)
(* steps of their own.                                                     *)
(*                                                                         *)
(* Time is discrete.  Only differences of clock readings decide anything,  *)
(* so each clock is an age that stops growing once it no longer matters.   *)
(* A lease is read on the claiming worker's clock and was written on its   *)
(* holder's: the two may differ by up to ClockSkew.                        *)
(***************************************************************************)
EXTENDS Integers, FiniteSets

CONSTANTS
  Delivery,       \* deliveries of the subtask's message
  Lease,          \* _SOURCE_LEASE_SECONDS
  SoftLimit,      \* _TASK_SOFT_TIME_LIMIT_SECONDS
  TimeLimit,      \* _TASK_TIME_LIMIT_SECONDS
  BusyCountdown,  \* _BUSY_RETRY_COUNTDOWN_SECONDS
  BusyLimit,      \* _BUSY_RETRY_LIMIT
  Backoff,        \* seconds before LLM retry n + 1: _LLM_RETRY_BACKOFF_SECONDS * 2^n
  LlmLimit,       \* _LLM_RETRY_LIMIT
  MaxRetries,     \* _TASK_MAX_RETRIES, the limit Celery itself enforces
  MaxCrashes,     \* bound on worker crashes in a behaviour
  KillsOverdue,   \* the pool really stops a task at its hard time limit
  ClockSkew       \* bound on the difference of two workers' clocks

ASSUME LimitsAssumption ==
  /\ Lease \in Nat /\ SoftLimit \in Nat /\ TimeLimit \in Nat
  /\ BusyCountdown \in Nat /\ BusyLimit \in Nat
  /\ LlmLimit \in Nat /\ Backoff \in [0..LlmLimit -> Nat]
  /\ MaxRetries \in Nat /\ MaxCrashes \in Nat
  /\ SoftLimit <= TimeLimit
  /\ KillsOverdue \in BOOLEAN /\ ClockSkew \in Nat

\* The module refuses to be imported unless the lease outlasts the hard limit.
ASSUME LeaseAssumption == TimeLimit < Lease

\* _TASK_MAX_RETRIES is the sum of the two budgets.
ASSUME BudgetAssumption == MaxRetries = BusyLimit + LlmLimit

\* 20 waits of 30 seconds are not shorter than a lease of 600 seconds.
ASSUME WaitAssumption == Lease <= BusyLimit * BusyCountdown

VARIABLES
  job,       \* status of the job: active, over (terminal) or gone (deleted)
  source,    \* the row of sources still exists
  row,       \* the row of analysis_job_sources: status and lock_token
  leaseAge,  \* time since the claim in the row, up to Lease + ClockSkew + 1
  batches,   \* claims whose suggestions are committed
  issued,    \* number of claims granted, the source of fresh tokens
  pc,        \* where each delivery is
  token,     \* the claim each delivery holds, or NoToken
  runTime,   \* time since the delivery's task started, up to TimeLimit + 1
  wait,      \* time until a queued delivery may start
  busy,      \* busy_attempts carried by the message
  llm,       \* llm_attempts carried by the message
  retries,   \* request.retries, kept by Celery
  result,    \* what _process_source, then the task, returned
  seen,      \* history: the claim a delivery saw when it first had to wait
  crashes    \* number of crashes so far

shared == <<job, source, row, leaseAge, batches, issued>>
counters == <<busy, llm, retries>>
vars == <<job, source, row, leaseAge, batches, issued, pc, token, runTime, wait,
          busy, llm, retries, result, seen, crashes>>

NoToken == 0
Working == {"started", "look", "claim", "generate", "release", "store", "commit", "answered"}
Holding == {"generate", "release", "store", "commit"}   \* phases that own a token
Results == {"none", "ok", "failed", "cancelled", "busy", "retryable",
            "failed_busy", "failed_llm"}

NoRow == [status |-> "none", token |-> NoToken]
Least(a, b) == IF a < b THEN a ELSE b

Init ==
  /\ job = "active" /\ source = TRUE
  /\ row = NoRow /\ leaseAge = 0 /\ batches = {} /\ issued = 0
  /\ pc = [d \in Delivery |-> "queued"]
  /\ token = [d \in Delivery |-> NoToken]
  /\ runTime = [d \in Delivery |-> 0]
  /\ wait = [d \in Delivery |-> 0]
  /\ busy = [d \in Delivery |-> 0]
  /\ llm = [d \in Delivery |-> 0]
  /\ retries = [d \in Delivery |-> 0]
  /\ result = [d \in Delivery |-> "none"]
  /\ seen = [d \in Delivery |-> NoToken]
  /\ crashes = 0

-----------------------------------------------------------------------------
(* The statements of AnalysisJobSourceRepository.                          *)

\* claim: the row is free, or its holder's lease ran out on the clock of the claiming
\* worker, which is ahead of the holder's by lead.
ClaimFree_IgnoresLease(lead) == row.status \in {"none", "pending", "processing"}
ClaimFree_ExpiresEarly(lead) ==
  \/ row.status \in {"none", "pending"}
  \/ row.status = "processing" /\ leaseAge + lead >= TimeLimit
ClaimFree_ReclaimsCompleted(lead) ==
  \/ row.status \in {"none", "pending", "completed"}
  \/ row.status = "processing" /\ leaseAge + lead > Lease
ClaimFree(lead) ==
  \/ row.status \in {"none", "pending"}
  \/ row.status = "processing" /\ leaseAge + lead > Lease

Leads == -ClockSkew..ClockSkew

\* The WHERE of release and of mark_completed: still processing, still this claim.
Owns(d) == row.status = "processing" /\ row.token = token[d]

\* release: hand an owned claim back; a claim taken over is not touched.
ReleaseRow(d) ==
  \/ /\ Owns(d)
     /\ row' = [status |-> "pending", token |-> NoToken] /\ leaseAge' = 0
  \/ ~Owns(d) /\ UNCHANGED <<row, leaseAge>>

-----------------------------------------------------------------------------
(* The steps of a delivery.                                                *)

\* Move on; the task's own clock is only kept while the task runs.
Goto(d, place) ==
  /\ pc' = [pc EXCEPT ![d] = place]
  /\ runTime' = IF place \in Working THEN runTime ELSE [runTime EXCEPT ![d] = 0]

\* _process_source returns r; the wrapper looks at it next.
Answer(d, r) ==
  /\ Goto(d, "answered")
  /\ result' = [result EXCEPT ![d] = r]
  /\ token' = [token EXCEPT ![d] = NoToken]

\* A worker takes the message once its countdown is over.
Start(d) ==
  /\ pc[d] = "queued" /\ wait[d] = 0
  /\ Goto(d, "started")
  /\ UNCHANGED <<shared, token, wait, counters, result, seen, crashes>>

\* First transaction: a job that is gone or no longer active ends the subtask.
CheckJob(d) ==
  /\ pc[d] = "started"
  /\ \/ job = "gone" /\ Answer(d, "failed")
     \/ job = "over" /\ Answer(d, "cancelled")
     \/ job = "active" /\ Goto(d, "look") /\ UNCHANGED <<token, result>>
  /\ UNCHANGED <<shared, wait, counters, seen, crashes>>

\* Second transaction, its reads: the source, the document and a stored result.
Look(d) ==
  /\ pc[d] = "look"
  /\ \/ (~source \/ job = "gone") /\ Answer(d, "failed")
     \/ /\ source /\ job # "gone" /\ row.status = "completed"
        /\ Answer(d, "ok")
     \/ /\ source /\ job # "gone" /\ row.status # "completed"
        /\ Goto(d, "claim") /\ UNCHANGED <<token, result>>
  /\ UNCHANGED <<shared, wait, counters, seen, crashes>>

\* Second transaction, its writes: ensure the row, then the conditional claim.
\* With the job deleted ensure finds no row and the task dies of RuntimeError.
Claim(d) ==
  /\ pc[d] = "claim"
  /\ \/ /\ job = "gone"
        /\ Goto(d, "lost")
        /\ UNCHANGED <<row, leaseAge, issued, token, result>>
     \/ /\ job # "gone" /\ \E lead \in Leads : ClaimFree(lead)
        /\ issued' = issued + 1
        /\ row' = [status |-> "processing", token |-> issued + 1]
        /\ leaseAge' = 0
        /\ token' = [token EXCEPT ![d] = issued + 1]
        /\ Goto(d, "generate")
        /\ UNCHANGED result
     \/ /\ job # "gone" /\ \E lead \in Leads : ~ClaimFree(lead)
        /\ Answer(d, "busy")
        /\ UNCHANGED <<row, leaseAge, issued>>
  /\ UNCHANGED <<job, source, batches, wait, counters, seen, crashes>>

\* Document text, source text and the model's answer, outside any transaction.
Generate(d) ==
  /\ pc[d] = "generate"
  /\ Goto(d, "store")
  /\ UNCHANGED <<shared, token, wait, counters, result, seen, crashes>>

\* The same phase ends in an exception: a model timeout may be retried, nothing else.
GenerateFails(d) ==
  /\ pc[d] = "generate"
  /\ \E r \in {"failed", "retryable"} : result' = [result EXCEPT ![d] = r]
  /\ Goto(d, "release")
  /\ UNCHANGED <<shared, token, wait, counters, seen, crashes>>

\* _release_source, best effort: a database error leaves the claim to its lease.
Release(d) ==
  /\ pc[d] = "release"
  /\ ReleaseRow(d) \/ UNCHANGED <<row, leaseAge>>
  /\ Goto(d, "answered")
  /\ token' = [token EXCEPT ![d] = NoToken]
  /\ UNCHANGED <<job, source, batches, issued, wait, counters, result, seen, crashes>>

\* Last transaction, its read of the job: an inactive job gets its claim released.
RecheckJob(d) ==
  /\ pc[d] = "store"
  /\ \/ job = "active" /\ Goto(d, "commit") /\ UNCHANGED <<row, leaseAge, token, result>>
     \/ job # "active" /\ ReleaseRow(d) /\ Answer(d, "cancelled")
  /\ UNCHANGED <<job, source, batches, issued, wait, counters, seen, crashes>>

\* Last transaction, its writes: the winner of mark_completed stores the batch with
\* it; without the source both are rolled back; the loser answers ok or busy.
Store_KeepsRowOnRollback(d) ==
  /\ pc[d] = "commit"
  /\ \/ /\ Owns(d)
        /\ row' = [status |-> "completed", token |-> NoToken] /\ leaseAge' = 0
        /\ batches' = IF source THEN batches \cup {token[d]} ELSE batches
        /\ Answer(d, IF source THEN "ok" ELSE "failed")
     \/ /\ ~Owns(d)
        /\ Answer(d, IF row.status = "completed" THEN "ok" ELSE "busy")
        /\ UNCHANGED <<row, leaseAge, batches>>
  /\ UNCHANGED <<job, source, issued, wait, counters, seen, crashes>>
Store(d) ==
  /\ pc[d] = "commit"
  /\ \/ /\ Owns(d) /\ source
        /\ row' = [status |-> "completed", token |-> NoToken] /\ leaseAge' = 0
        /\ batches' = batches \cup {token[d]}
        /\ Answer(d, "ok")
     \/ /\ Owns(d) /\ ~source
        /\ Answer(d, "failed")
        /\ UNCHANGED <<row, leaseAge, batches>>
     \/ /\ ~Owns(d)
        /\ Answer(d, IF row.status = "completed" THEN "ok" ELSE "busy")
        /\ UNCHANGED <<row, leaseAge, batches>>
  /\ UNCHANGED <<job, source, issued, wait, counters, seen, crashes>>

-----------------------------------------------------------------------------
(* The Celery task around _process_source.                                 *)

\* _retry_later: publish the message again with a countdown, unless Celery's own
\* limit is spent, which answers with the fallback.
RetryLater(d, countdown, fallback) ==
  IF retries[d] >= MaxRetries
  THEN /\ Goto(d, "done")
       /\ result' = [result EXCEPT ![d] = fallback]
       /\ UNCHANGED <<wait, retries>>
  ELSE /\ Goto(d, "queued")
       /\ result' = [result EXCEPT ![d] = "none"]
       /\ wait' = [wait EXCEPT ![d] = countdown]
       /\ retries' = [retries EXCEPT ![d] = @ + 1]

GiveUp(d, r) ==
  /\ Goto(d, "done")
  /\ result' = [result EXCEPT ![d] = r]
  /\ UNCHANGED <<wait, retries>>

\* busy: another worker holds the source; wait for it at most BusyLimit times.
SettleBusy_OneShort(d) ==
  /\ pc[d] = "answered" /\ result[d] = "busy"
  /\ seen' = IF busy[d] = 0 /\ row.status = "processing" /\ leaseAge > 0
             THEN [seen EXCEPT ![d] = row.token] ELSE seen
  /\ \/ busy[d] + 1 >= BusyLimit /\ GiveUp(d, "failed_busy") /\ UNCHANGED busy
     \/ /\ busy[d] + 1 < BusyLimit
        /\ RetryLater(d, BusyCountdown, "failed_busy")
        /\ busy' = [busy EXCEPT ![d] = @ + 1]
  /\ UNCHANGED <<shared, token, llm, crashes>>
SettleBusy(d) ==
  /\ pc[d] = "answered" /\ result[d] = "busy"
  /\ seen' = IF busy[d] = 0 /\ row.status = "processing" /\ leaseAge > 0
             THEN [seen EXCEPT ![d] = row.token] ELSE seen
  /\ \/ busy[d] >= BusyLimit /\ GiveUp(d, "failed_busy") /\ UNCHANGED busy
     \/ /\ busy[d] < BusyLimit
        /\ RetryLater(d, BusyCountdown, "failed_busy")
        /\ busy' = [busy EXCEPT ![d] = @ + 1]
  /\ UNCHANGED <<shared, token, llm, crashes>>

\* retryable: the model timed out; try again with exponential backoff.
SettleRetryable_SharedCounter(d) ==
  /\ pc[d] = "answered" /\ result[d] = "retryable"
  /\ \/ busy[d] + llm[d] >= LlmLimit /\ GiveUp(d, "failed_llm") /\ UNCHANGED llm
     \/ /\ busy[d] + llm[d] < LlmLimit
        /\ RetryLater(d, Backoff[llm[d]], "failed_llm")
        /\ llm' = [llm EXCEPT ![d] = @ + 1]
  /\ UNCHANGED <<shared, token, busy, seen, crashes>>
SettleRetryable(d) ==
  /\ pc[d] = "answered" /\ result[d] = "retryable"
  /\ \/ llm[d] >= LlmLimit /\ GiveUp(d, "failed_llm") /\ UNCHANGED llm
     \/ /\ llm[d] < LlmLimit
        /\ RetryLater(d, Backoff[llm[d]], "failed_llm")
        /\ llm' = [llm EXCEPT ![d] = @ + 1]
  /\ UNCHANGED <<shared, token, busy, seen, crashes>>

\* Every other result is the subtask's result; the message is acknowledged.
Settle(d) ==
  /\ pc[d] = "answered" /\ result[d] \notin {"busy", "retryable"}
  /\ Goto(d, "done")
  /\ UNCHANGED <<shared, token, wait, counters, result, seen, crashes>>

-----------------------------------------------------------------------------
(* What happens to a worker, and around it.                                *)

\* The worker dies before the acknowledgement: the broker delivers the message again.
Crash(d) ==
  /\ crashes < MaxCrashes /\ pc[d] \in Working
  /\ crashes' = crashes + 1
  /\ Goto(d, "queued")
  /\ token' = [token EXCEPT ![d] = NoToken]
  /\ result' = [result EXCEPT ![d] = "none"]
  /\ wait' = [wait EXCEPT ![d] = 0]
  /\ UNCHANGED <<shared, counters, seen>>

TimeOut_OffByOne(d) ==
  /\ pc[d] \in Working /\ runTime[d] > TimeLimit
  /\ Goto(d, "lost")
  /\ token' = [token EXCEPT ![d] = NoToken]
  /\ result' = [result EXCEPT ![d] = "none"]
  /\ UNCHANGED <<shared, wait, counters, seen, crashes>>
\* The soft limit's exception outside the guarded phase, or the hard limit's kill:
\* the task fails without a result, its message is acknowledged, its claim left behind.
TimeOut(d) ==
  /\ pc[d] \in Working /\ runTime[d] >= SoftLimit
  /\ Goto(d, "lost")
  /\ token' = [token EXCEPT ![d] = NoToken]
  /\ result' = [result EXCEPT ![d] = "none"]
  /\ UNCHANGED <<shared, wait, counters, seen, crashes>>

\* A database error outside the guarded phase, or a retry that cannot be published: the
\* task fails without a result and its message is acknowledged or rejected for good.
Fail(d) ==
  /\ \/ pc[d] \in {"started", "look", "claim", "store", "commit"}
     \/ pc[d] = "answered" /\ result[d] = "busy" /\ busy[d] < BusyLimit
     \/ pc[d] = "answered" /\ result[d] = "retryable" /\ llm[d] < LlmLimit
  /\ Goto(d, "lost")
  /\ token' = [token EXCEPT ![d] = NoToken]
  /\ UNCHANGED <<shared, wait, counters, result, seen, crashes>>

\* Cancellation or finalisation ends the job; see module AnalysisJobs.
JobEnds ==
  /\ job = "active" /\ job' = "over"
  /\ UNCHANGED <<source, row, leaseAge, batches, issued, pc, token, runTime, wait,
                 counters, result, seen, crashes>>

\* The document is deleted: job, its source rows and its suggestions cascade.
DocumentDeleted ==
  /\ job # "gone" /\ job' = "gone"
  /\ row' = NoRow /\ leaseAge' = 0 /\ batches' = {}
  /\ UNCHANGED <<source, issued, pc, token, runTime, wait, counters, result,
                 seen, crashes>>

\* A project's source may be deleted at any time; analysis_job_sources keeps its row.
SourceDeleted ==
  /\ source /\ source' = FALSE
  /\ UNCHANGED <<job, row, leaseAge, batches, issued, pc, token, runTime, wait,
                 counters, result, seen, crashes>>

\* A unit of time.  With KillsOverdue no task outlives its hard limit.
Tick ==
  /\ KillsOverdue => \A d \in Delivery : pc[d] \in Working => runTime[d] < TimeLimit
  /\ leaseAge' = IF row.status = "processing" THEN Least(leaseAge + 1, Lease + ClockSkew + 1) ELSE 0
  /\ runTime' = [d \in Delivery |->
                   IF pc[d] \in Working THEN Least(runTime[d] + 1, TimeLimit + 1)
                   ELSE runTime[d]]
  /\ wait' = [d \in Delivery |-> IF wait[d] > 0 THEN wait[d] - 1 ELSE 0]
  /\ UNCHANGED <<job, source, row, batches, issued, pc, token, counters, result, seen,
                 crashes>>

\* What a running worker does on its own.
Work(d) ==
  \/ Start(d) \/ CheckJob(d) \/ Look(d) \/ Claim(d) \/ Generate(d) \/ GenerateFails(d)
  \/ Release(d) \/ RecheckJob(d) \/ Store(d)
  \/ SettleBusy(d) \/ SettleRetryable(d) \/ Settle(d) \/ TimeOut(d)

Next ==
  \/ \E d \in Delivery : Work(d) \/ Crash(d) \/ Fail(d)
  \/ JobEnds \/ DocumentDeleted \/ SourceDeleted \/ Tick

Spec == Init /\ [][Next]_vars

\* A worker process keeps running between its own steps and the clock advances; the
\* model's answer is not promised, only the time limit that ends the wait for it.
FairSpec ==
  /\ Spec
  /\ \A d \in Delivery :
       /\ WF_vars(Start(d) \/ CheckJob(d) \/ Look(d) \/ Claim(d) \/ Release(d)
                  \/ RecheckJob(d) \/ Store(d)
                  \/ SettleBusy(d) \/ SettleRetryable(d) \/ Settle(d))
       /\ WF_vars(TimeOut(d))
  /\ WF_vars(Tick)

-----------------------------------------------------------------------------
(* Properties.                                                             *)

\* Types of the row, the clocks and each delivery's place.
TypeOK ==
  /\ job \in {"active", "over", "gone"} /\ source \in BOOLEAN
  /\ row \in [status : {"none", "pending", "processing", "completed"}, token : Nat]
  /\ leaseAge \in Nat /\ batches \subseteq Nat /\ issued \in Nat
  /\ pc \in [Delivery -> Working \cup {"queued", "done", "lost"}]
  /\ token \in [Delivery -> Nat]
  /\ runTime \in [Delivery -> Nat] /\ wait \in [Delivery -> Nat]
  /\ busy \in [Delivery -> 0..BusyLimit] /\ llm \in [Delivery -> 0..LlmLimit]
  /\ retries \in [Delivery -> Nat]
  /\ result \in [Delivery -> Results]
  /\ seen \in [Delivery -> Nat] /\ crashes \in Nat

\* Repeated delivery never duplicates suggestions: whatever crashes, takeovers and
\* duplicates happen, at most one batch is stored, it belongs to the last claim ever
\* granted, and it is there exactly when the row says completed (README, background
\* analysis, point 4).
BatchMatchesRow ==
  /\ batches \subseteq {issued}
  /\ (batches # {}) = (row.status = "completed")

\* A task is dead before its lease runs out on anybody's clock.
DiesInTime == KillsOverdue /\ TimeLimit + ClockSkew <= Lease

\* Only one paid model call at a time: with the pool's hard limit in force, and clocks
\* that differ by no more than the lease leaves room for, no two deliveries are between
\* their claim and their last transaction (point 3).
OneCaller ==
  DiesInTime =>
    \A d, e \in Delivery : pc[d] \in Holding /\ pc[e] \in Holding => d = e

\* A live worker cannot lose its claim: as long as the job exists, whoever is past the
\* claim still owns the row, so the result it paid for is never thrown away.
HolderOwnsRow ==
  DiesInTime =>
    \A d \in Delivery : pc[d] \in Holding /\ job # "gone" => Owns(d)

\* A subtask that says ok left a completed row behind (or the document was deleted).
OkMeansStored ==
  \A d \in Delivery : result[d] = "ok" => row.status = "completed" \/ job = "gone"

\* Waiting outlasts a dead holder: a subtask gives up with SOURCE_BUSY only if the
\* claim it first had to wait for was meanwhile replaced.  This is what 20 waits of
\* 30 seconds against a lease of 600 seconds are for, and just enough if clocks agree.
WaitsOutlastLease == Lease + ClockSkew <= BusyLimit * BusyCountdown

GivesUpOnlyOnNewClaim ==
  WaitsOutlastLease =>
    \A d \in Delivery :
      result[d] = "failed_busy" /\ seen[d] # NoToken => row.token # seen[d]

\* The two retry budgets are independent: a subtask fails for being busy, or for a
\* model timeout, only after spending that whole budget, and Celery's own limit of
\* their sum never cuts either short.
FullBudget ==
  \A d \in Delivery :
    /\ result[d] = "failed_busy" => busy[d] = BusyLimit
    /\ result[d] = "failed_llm" => llm[d] = LlmLimit

\* What the chord is told, in the words of SourceResult: an answer counts once the message
\* is acknowledged.
Told == [d \in Delivery |-> IF pc[d] = "done" THEN result[d] ELSE "none"]
Outcome == INSTANCE SourceResult
  WITH stored <- batches, deleted <- (job = "gone"), answer <- Told

\* Delivered at least once, done at most once: a stored batch is never replaced or added to,
\* an answer never taken back, and ok answered only for what is stored.
SourceResultSpec == Outcome!Spec

\* Every subtask is answered or lost to its time limit: no delivery waits for ever.
EverySubtaskEnds == \A d \in Delivery : <>(pc[d] \in {"done", "lost"})
=============================================================================

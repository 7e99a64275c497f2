-------------------------------- MODULE Review --------------------------------
(***************************************************************************)
(* The review of one document's suggestions by several clients at once     *)
(* (app/domain/services/suggestion_service.py) while the document may be   *)
(* analysis again.                                                         *)
(*                                                                         *)
(* A request is one transaction of isolation READ COMMITTED, and a step is *)
(* one of its statements.  What it has written is private until it         *)
(* commits, and locks the rows it wrote: another request that wants to     *)
(* write one of them waits, then decides on the row as it was committed.   *)
(* A failed check, an exception or a deadlock the database breaks rolls    *)
(* the transaction back.  The analysis itself is module AnalysisJobs; here *)
(* each of its commits is one step: it starts, runs, stores what it finds, *)
(* and ends well or not.                                                   *)
(***************************************************************************)
EXTENDS Naturals, FiniteSets, Lifecycle

CONSTANTS
  Req,          \* clients, each with one request in flight
  Slot,         \* the suggestions one analysis may find
  Ops,          \* operations requested: a subset of Operation
  MaxJobs,      \* bound on analyses
  MaxRequests   \* bound on requests served

Operation == {"save", "decide", "reset", "reset_one", "reset_all"}
Resets    == {"reset", "reset_one", "reset_all"}

ASSUME ReviewAssumption ==
  /\ Ops \subseteq Operation
  /\ MaxJobs \in Nat \ {0} /\ MaxRequests \in Nat

VARIABLES
  doc,       \* the row of documents: status, current_analysis_job_id, review_version
  sugg,      \* the rows of suggestions, by analysis and slot: absent until found
  analysis,  \* per analysis, how far it is
  req,       \* per client, its request: what it asks, has loaded and has written
  served,    \* requests served so far
  reopened,  \* history: a reset has been committed, or a new analysis started
  overrun    \* history: analyses that were current when a status decided on an earlier one
             \* was written over theirs

vars == <<doc, sugg, analysis, req, served, reopened, overrun>>

Decision   == {"accepted", "rejected"}
JobId      == 1..MaxJobs
Suggestion == JobId \X Slot
Of(j)      == {j} \X Slot
\* A job of the analysis is active while it is pending or running; failed is also cancelled.
Progress   == {"none", "pending", "running", "done", "failed"}
Document   == [status : DocumentStatus, current : JobId, version : Nat]

\* Values some rows are to get, or have got in a transaction that has not committed.
Writes  == UNION {[rows -> {"pending"} \cup Decision] : rows \in SUBSET Suggestion}
Nothing == [s \in {} |-> "pending"]

\* A client's request: its place, what it asks (op, base version, wanted values, all rows
\* or named ones, finalise), what it has loaded of the document, what it has written.
Request == [pc : {"idle", "version", "rows", "count", "reopen", "status", "commit"},
            op : Operation, base : Nat, want : Writes,
            all : BOOLEAN, final : BOOLEAN, status : DocumentStatus, current : JobId,
            put : Writes, bump : BOOLEAN, set : {"keep", "ready", "awaiting_approval"}]
Idle == [pc |-> "idle", op |-> "save", base |-> 0, want |-> Nothing, all |-> FALSE,
         final |-> FALSE, status |-> "draft", current |-> 1, put |-> Nothing, bump |-> FALSE,
         set |-> "keep"]

\* The first analysis has just ended with a suggestion in every slot.
Init ==
  /\ doc = [status |-> "awaiting_approval", current |-> 1, version |-> 0]
  /\ sugg = [s \in Suggestion |-> IF s \in Of(1) THEN "pending" ELSE "absent"]
  /\ analysis = [j \in JobId |-> IF j = 1 THEN "done" ELSE "none"]
  /\ req = [r \in Req |-> Idle]
  /\ served = 0 /\ reopened = FALSE /\ overrun = {}

-----------------------------------------------------------------------------
(* The database: locks and what a transaction sees.                        *)

WritesDocument(r) == req[r].bump \/ req[r].set # "keep"
DocumentFree(r) == \A q \in Req \ {r} : ~WritesDocument(q)
RowsFree(r, rows) == \A q \in Req \ {r} : DOMAIN req[q].put \cap rows = {}

\* A transaction sees what is committed and what it has written itself.
View(r) == [s \in Suggestion |-> IF s \in DOMAIN req[r].put THEN req[r].put[s] ELSE sugg[s]]

\* __aexit__ of the unit of work: a transaction that is left without commit is undone.
Rollback(r) == req' = [req EXCEPT ![r] = Idle]
Move(r, pc) == req' = [req EXCEPT ![r].pc = pc]

-----------------------------------------------------------------------------
(* The requests.                                                           *)

\* A request that loads the document first, and goes on if its status allows op.
Begin(r, op, pc, want, all) ==
  req' = [req EXCEPT ![r] = [Idle EXCEPT !.pc = pc, !.op = op, !.want = want, !.all = all,
                             !.status = doc.status, !.current = doc.current]]

Arrive(r, op) ==
  /\ op \in Ops /\ req[r].pc = "idle" /\ served < MaxRequests
  /\ served' = served + 1
  /\ UNCHANGED <<doc, sugg, analysis, reopened, overrun>>

\* The ids a client may name: of the current analysis or of an earlier one it still shows.
Named == {ids \in SUBSET {s \in Suggestion : sugg[s] # "absent"} : \E j \in JobId : ids \subseteq Of(j)}

\* atomic_review_save: decisions on the page the client loaded at version base.
Save(r) ==
  /\ Arrive(r, "save") /\ CanReview(doc.status)
  /\ \E base \in 0..doc.version, ids \in Named, final \in BOOLEAN : \E want \in [ids -> Decision] :
       req' = [req EXCEPT ![r] = [Idle EXCEPT !.pc = "version", !.op = "save", !.base = base,
                                  !.want = want, !.final = final,
                                  !.status = doc.status, !.current = doc.current]]

\* patch_suggestions to accepted or rejected, by ids or by filter.
Decide(r) ==
  /\ Arrive(r, "decide") /\ CanReview(doc.status)
  /\ \E to \in Decision :
       \/ Begin(r, "decide", "rows", [s \in Suggestion |-> to], TRUE)
       \/ \E ids \in Named \ {{}} : Begin(r, "decide", "rows", [s \in ids |-> to], FALSE)

\* patch_suggestions to pending, by ids or by filter.
Reset(r) ==
  /\ Arrive(r, "reset") /\ CanResetReview(doc.status)
  /\ \/ Begin(r, "reset", "rows", [s \in Suggestion |-> "pending"], TRUE)
     \/ \E ids \in Named \ {{}} : Begin(r, "reset", "rows", [s \in ids |-> "pending"], FALSE)

\* reset_suggestion: one suggestion, of the current analysis.
ResetOne(r) ==
  /\ Arrive(r, "reset_one") /\ CanResetReview(doc.status)
  /\ \E s \in Of(doc.current) :
       /\ sugg[s] \in Decision
       /\ Begin(r, "reset_one", IF doc.status = "ready" THEN "reopen" ELSE "rows",
                [t \in {s} |-> "pending"], FALSE)

\* reset_analysis: every suggestion of the current analysis.
ResetAll(r) ==
  /\ Arrive(r, "reset_all") /\ CanResetReview(doc.status)
  /\ Begin(r, "reset_all", "rows", [s \in Suggestion |-> "pending"], TRUE)

\* compare_and_increment_review_version.  It refreshes nothing but the version of the
\* loaded document.
TakeVersion_NoCheck(r) ==
  /\ req[r].pc = "version" /\ DocumentFree(r)
  /\ req' = [req EXCEPT ![r].pc = "rows", ![r].bump = TRUE]
  /\ UNCHANGED <<doc, sugg, analysis, served, reopened, overrun>>
TakeVersion(r) ==
  /\ req[r].pc = "version" /\ DocumentFree(r)
  /\ IF doc.version = req[r].base
     THEN req' = [req EXCEPT ![r].pc = "rows", ![r].bump = TRUE]
     ELSE Rollback(r)
  /\ UNCHANGED <<doc, sugg, analysis, served, reopened, overrun>>

\* The rows the request's UPDATE matches: of the analysis it has loaded, and pending if
\* they are to be decided, decided if they are to be reset.
Matching_AnyStatus(r) == {s \in DOMAIN req[r].want \cap Of(req[r].current) : sugg[s] # "absent"}
Matching(r) ==
  {s \in DOMAIN req[r].want \cap Of(req[r].current) :
     sugg[s] \in IF req[r].want[s] = "pending" THEN Decision ELSE {"pending"}}

\* A reset that changed something reopens a document it has loaded as ready.  A reset of
\* the whole analysis sets the status in any case; there is nothing to write if the loaded
\* one is the same.
AfterRows(r, rows) ==
  CASE req[r].op = "save"                                                -> "count"
    [] req[r].op = "reset" /\ req[r].status = "ready" /\ rows # {} -> "reopen"
    [] req[r].op = "reset_all" /\ req[r].status = "ready"            -> "status"
    [] OTHER                                                             -> "commit"

\* bulk_update_status, bulk_accept_all, bulk_reject_all, reset_to_pending, reset_status:
\* one UPDATE; ids named must all match, a filter takes what matches.
UpdateRows(r) ==
  LET rows == Matching(r) IN
  /\ req[r].pc = "rows" /\ RowsFree(r, rows)
  /\ IF req[r].all \/ rows = DOMAIN req[r].want
     THEN req' = [req EXCEPT ![r].pc = AfterRows(r, rows),
                             ![r].put = [s \in rows |-> req[r].want[s]]]
     ELSE Rollback(r)
  /\ UNCHANGED <<doc, sugg, analysis, served, reopened, overrun>>

\* A save that finalises counts what is pending, then writes ready whatever the row says
\* by then: it decides on the status it loaded.
CountPending_Skipped(r) ==
  /\ req[r].pc = "count"
  /\ req' = [req EXCEPT ![r].pc = "commit", ![r].set = IF req[r].final THEN "ready" ELSE "keep"]
  /\ UNCHANGED <<doc, sugg, analysis, served, reopened, overrun>>
CountPending(r) ==
  /\ req[r].pc = "count"
  /\ \/ ~req[r].final /\ Move(r, "commit")
     \/ /\ req[r].final /\ \E s \in Of(req[r].current) : View(r)[s] = "pending"
        /\ Rollback(r)
     \/ /\ req[r].final /\ \A s \in Of(req[r].current) : View(r)[s] # "pending"
        /\ req' = [req EXCEPT ![r].pc = "commit", ![r].set = "ready"]
  /\ UNCHANGED <<doc, sugg, analysis, served, reopened, overrun>>

\* _reopen_review, a conditional UPDATE on the loaded status and analysis.
Reopen_Blind(r) ==
  /\ req[r].pc = "reopen" /\ DocumentFree(r)
  /\ req' = [req EXCEPT ![r].pc = IF req[r].op = "reset" THEN "commit" ELSE "rows",
                        ![r].set = "awaiting_approval"]
  /\ UNCHANGED <<doc, sugg, analysis, served, reopened, overrun>>
Reopen(r) ==
  /\ req[r].pc = "reopen" /\ DocumentFree(r)
  /\ IF doc.status = "ready" /\ doc.current = req[r].current
     THEN req' = [req EXCEPT ![r].pc = IF req[r].op = "reset" THEN "commit" ELSE "rows",
                             ![r].set = "awaiting_approval"]
     ELSE Rollback(r)
  /\ UNCHANGED <<doc, sugg, analysis, served, reopened, overrun>>

\* reset_analysis: update_status, an UPDATE without a condition.
WriteStatus(r) ==
  /\ req[r].pc = "status" /\ DocumentFree(r)
  /\ req' = [req EXCEPT ![r].pc = "commit", ![r].set = "awaiting_approval"]
  /\ UNCHANGED <<doc, sugg, analysis, served, reopened, overrun>>

\* The status a save or a reset of the whole analysis has decided on may be that of an
\* analysis which is not the current one any more.
Overruns(r) ==
  /\ req[r].op \in {"save", "reset_all"} /\ req[r].set # "keep"
  /\ doc.current # req[r].current

Commit(r) ==
  /\ req[r].pc = "commit"
  /\ sugg' = View(r)
  /\ doc' = [doc EXCEPT !.status = IF req[r].set = "keep" THEN @ ELSE req[r].set,
                        !.version = IF req[r].bump THEN @ + 1 ELSE @]
  /\ reopened' = (reopened \/ (req[r].op \in Resets /\ DOMAIN req[r].put # {}))
  /\ overrun' = IF Overruns(r) THEN overrun \cup {doc.current} ELSE overrun
  /\ Rollback(r)
  /\ UNCHANGED <<analysis, served>>

\* An exception, a lost connection, or a deadlock that the database breaks: a reset locks
\* its rows first and then the document, a save the other way round.
Abort(r) ==
  /\ req[r].pc # "idle" /\ Rollback(r)
  /\ UNCHANGED <<doc, sugg, analysis, served, reopened, overrun>>

-----------------------------------------------------------------------------
(* A new analysis: its request, its dispatch, what it finds and its end.   *)

\* The steps of an analysis write the document in transactions of their own.
Unlocked == \A r \in Req : ~WritesDocument(r)

Active(j) == analysis[j] \in {"pending", "running"}

\* create_job: from any status but in_progress, unless a job is active; its writes do not
\* depend on the rest.
Restart ==
  /\ CanStartAnalysis(doc.status) /\ ~Active(doc.current) /\ doc.current < MaxJobs
  /\ Unlocked
  /\ doc' = [doc EXCEPT !.status = "draft", !.current = @ + 1]
  /\ analysis' = [analysis EXCEPT ![doc.current + 1] = "pending"]
  /\ reopened' = TRUE
  /\ UNCHANGED <<sugg, req, served, overrun>>

\* dispatch_job; on a status that may not go in_progress it fails and the job stays pending.
Dispatch ==
  /\ "in_progress" \in DocumentTargets(doc.status) /\ analysis[doc.current] = "pending"
  /\ Unlocked
  /\ doc' = [doc EXCEPT !.status = "in_progress"]
  /\ analysis' = [analysis EXCEPT ![doc.current] = "running"]
  /\ UNCHANGED <<sugg, req, served, reopened, overrun>>

\* A subtask stores what it has found.  A job that was cancelled since the subtask last
\* looked at it does not keep it from storing.
Find(j) ==
  /\ analysis[j] \in {"running", "failed"}
  /\ \E found \in SUBSET {s \in Of(j) : sugg[s] = "absent"} \ {{}} :
       sugg' = [s \in Suggestion |-> IF s \in found THEN "pending" ELSE sugg[s]]
  /\ UNCHANGED <<doc, analysis, req, served, reopened, overrun>>

\* The job ends well; the document follows, if its status may.  It counts what is pending.
Finish ==
  LET target == DocumentStatusFor("success", \E s \in Of(doc.current) : sugg[s] = "pending") IN
  /\ analysis[doc.current] = "running" /\ target \in DocumentTargets(doc.status)
  /\ Unlocked
  /\ doc' = [doc EXCEPT !.status = target]
  /\ analysis' = [analysis EXCEPT ![doc.current] = "done"]
  /\ UNCHANGED <<sugg, req, served, reopened, overrun>>

\* Every subtask failed, the queue was not there, or the job is cancelled: the document is
\* a draft again.
Fail ==
  /\ Active(doc.current) /\ Unlocked
  /\ doc' = [doc EXCEPT !.status = "draft"]
  /\ analysis' = [analysis EXCEPT ![doc.current] = "failed"]
  /\ UNCHANGED <<sugg, req, served, reopened, overrun>>

Next ==
  \/ \E r \in Req :
       \/ Save(r) \/ Decide(r) \/ Reset(r) \/ ResetOne(r) \/ ResetAll(r)
       \/ TakeVersion(r) \/ UpdateRows(r) \/ CountPending(r) \/ Reopen(r) \/ WriteStatus(r)
       \/ Commit(r) \/ Abort(r)
  \/ \E j \in JobId : Find(j)
  \/ Restart \/ Dispatch \/ Finish \/ Fail

Spec == Init /\ [][Next]_vars

-----------------------------------------------------------------------------
(* Properties.                                                             *)

\* Types of the rows and of the requests; a client without a request holds no lock and
\* no uncommitted write.
TypeOK ==
  /\ doc \in Document /\ served \in 0..MaxRequests /\ reopened \in BOOLEAN
  /\ sugg \in [Suggestion -> {"absent", "pending"} \cup Decision]
  /\ analysis \in [JobId -> Progress] /\ overrun \subseteq JobId
  /\ req \in [Req -> Request]
  /\ \A r \in Req : req[r].pc = "idle" => req[r] = Idle

\* The optimistic lock: from the check of the version to the commit no other save gets
\* in, so of the saves based on one version only one is committed.
SaveHoldsItsVersion == \A r \in Req : req[r].bump => doc.version = req[r].base

\* Nobody's decision is overwritten: it changes only back to pending, by a reset, even
\* when two reviewers decide the same suggestion at the same time.
DecisionsStick ==
  [][\A s \in Suggestion :
       sugg[s] \in Decision /\ sugg'[s] # sugg[s] =>
         /\ sugg'[s] = "pending"
         /\ \E r \in Req : req[r].op \in Resets /\ s \in DOMAIN req[r].put]_vars

\* A request is several statements, on rows that others change meanwhile; still each commit
\* is one operation of ReviewLedger on the rows as they are then.  No commit mixes two
\* analyses or decides what is decided, and what patch_suggestions and reset_suggestion
\* reopen has lost a decision.
Ledger == INSTANCE ReviewLedger
ReviewLedgerSpec == Ledger!Spec

\* Whoever wins the race of a reset and a new analysis, and however that analysis ends, the
\* document does not await approval of an analysis that is not over or has failed.  The code
\* promises it of _reopen_review, which compares, and of an analysis over which nothing was
\* written blindly: a reset_analysis, or a save that finalises, puts the status it decided
\* on before the new analysis over that of the new one.
AwaitingIsAnalysed ==
  doc.status = "awaiting_approval" =>
    analysis[doc.current] = "done" \/ doc.current \in overrun

\* However many reviewers save at once, from whatever version, a document becomes ready
\* only with every decision taken: two halves of the suggestions saved side by side do
\* not add up to a finished review before both are committed.  The code promises it
\* until somebody takes a decision back or starts a new analysis.
ReadyUnlessReopened ==
  doc.status = "ready" /\ ~reopened => \A s \in Of(doc.current) : sugg[s] # "pending"
=============================================================================

------------------------------ MODULE Lifecycle ------------------------------
(***************************************************************************)
(* The status tables of app/domain/lifecycle.py: which transitions a       *)
(* document and an analysis job may take, and what each status allows.     *)
(* The module has no state; every other module reads its rules from here,  *)
(* as the services, the worker and the routers do in the code.             *)
(***************************************************************************)

\* DocumentStatusVO and AnalysisJobStatusVO of app/domain/value_objects.py.
DocumentStatus == {"draft", "in_progress", "awaiting_approval", "ready"}

JobActive   == {"pending", "dispatched", "processing"}
JobTerminal == {"success", "partial_success", "failed", "cancelled"}
JobStatus   == JobActive \cup JobTerminal

\* _DOCUMENT_TRANSITIONS: the targets DocumentLifecycle.transition accepts.
DocumentTargets(status) ==
  CASE status = "draft"             -> {"draft", "in_progress"}
    [] status = "in_progress"       -> {"awaiting_approval", "ready", "draft"}
    [] status = "awaiting_approval" -> {"ready", "draft", "awaiting_approval"}
    [] status = "ready"             -> {"draft", "awaiting_approval"}

\* _JOB_TRANSITIONS: the targets AnalysisJobLifecycle.transition accepts.
JobTargets(status) ==
  CASE status = "pending"    -> {"dispatched", "failed", "cancelled"}
    [] status = "dispatched" -> {"processing"} \cup JobTerminal
    [] status = "processing" -> JobTerminal
    [] OTHER                 -> {}

\* What DocumentLifecycle lets a caller do in a status.
CanStartAnalysis(status)  == status \in {"draft", "awaiting_approval", "ready"}
NeedsConfirmation(status) == status = "ready"
CanEditSources(status)    == status # "in_progress"
CanReview(status)         == status = "awaiting_approval"
CanExport(status)         == status = "ready"
CanDelete(status)         == status # "in_progress"
CanResetReview(status)    == status \in {"awaiting_approval", "ready"}

\* What AnalysisJobLifecycle lets a caller do in a status.
IsActive(status)    == status \in JobActive
IsTerminal(status)  == status \in JobTerminal
CanDispatch(status) == status = "pending"

\* document_status_for: the status of a document whose current job has jobStatus.
DocumentStatusFor(jobStatus, hasPending) ==
  CASE jobStatus \in {"dispatched", "processing"} -> "in_progress"
    [] jobStatus \in {"success", "partial_success"} ->
         IF hasPending THEN "awaiting_approval" ELSE "ready"
    [] OTHER -> "draft"
=============================================================================

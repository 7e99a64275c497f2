----------------------------- MODULE AnalysisJobs -----------------------------
(***************************************************************************)
(* The analysis jobs of one document: the API requests that start, cancel  *)
(* and reset an analysis (app/domain/services/analysis_job_service.py),    *)
(* the queue, and the chord of Celery tasks that runs a job and finalises  *)
(* it (app/workers/tasks/analysis_tasks.py).                               *)
(*                                                                         *)
(* Requests run concurrently in transactions of isolation READ COMMITTED.  *)
(* A step is one read or one commit.  Between them a request keeps what it *)
(* read, because the ORM does: it decides on the loaded objects, and an    *)
(* assignment reaches the database only if it changes the loaded value     *)
(* (operator Assign).  Conditional UPDATEs and unique indexes are decided  *)
(* at the commit.  What one subtask does to its source is module           *)
(* SourceClaim; here a subtask only marks the job and answers.             *)
(***************************************************************************)
EXTENDS Naturals, Sequences, FiniteSets, Lifecycle

CONSTANTS
  Req,            \* API requests that may be in flight together
  Key,            \* values of the Idempotency-Key header
  NoKey,          \* no such header
  Ops,            \* operations requested: a subset of {"start", "cancel", "reset", "review"}
  ForceFlag,      \* values of the force flag
  MaxJobs,        \* bound on jobs created
  MaxRequests,    \* bound on requests served
  MaxCrashes,     \* bound on API requests that die halfway
  LosesTasks,     \* a subtask or the finalising task may fail outright
  LosesAnswers    \* the queue may accept a job and still report an error

ASSUME AnalysisAssumption ==
  /\ NoKey \notin Key /\ Ops \subseteq {"start", "cancel", "reset", "review"}
  /\ ForceFlag \subseteq BOOLEAN
  /\ MaxJobs \in Nat /\ MaxRequests \in Nat /\ MaxCrashes \in Nat
  /\ LosesTasks \in BOOLEAN /\ LosesAnswers \in BOOLEAN

VARIABLES
  doc,       \* the row of documents: status, current_analysis_job_id, review_version
  jobs,      \* the rows of analysis_jobs in creation order: status, idempotency_key
  sugg,      \* per job, its suggestions: none, some pending, or all decided
  req,       \* per request, its place and what it has loaded
  chord,     \* per job, the state of its chord in the queue
  begun,     \* jobs some subtask of which has passed the check of the job
  results,   \* per job, the kinds of result its subtasks have returned
  loaded,    \* per job, what its finalising task has loaded
  revoked,   \* jobs whose finalising task the workers were told to drop
  taskId,    \* jobs whose celery_task_id is stored
  enqueued,  \* history: per job, how often it was handed to the queue
  answers,   \* history: <<key, job>> for every answered request with a key
  served,    \* requests served so far
  crashes    \* requests that died so far

worker == <<chord, begun, results, loaded>>
vars == <<doc, jobs, sugg, req, chord, begun, results, loaded, revoked, taskId,
          enqueued, answers, served, crashes>>

NoJob == 0
JobId == 1..MaxJobs
Document == [status : DocumentStatus, current : 0..MaxJobs, version : Nat]
Job == [status : JobStatus, key : Key \cup {NoKey}]

\* A request: its place, what was asked, the job it works on, the document it has loaded.
Place == {"idle", "check", "insert", "dispatch", "dispatching", "enqueue", "unavailable",
          "task_id", "cancel", "cancel_known", "cancelling", "cancelling_known", "revoke",
          "resetting", "reviewing"}
Request == [pc : Place, key : Key \cup {NoKey}, force : BOOLEAN, job : 0..MaxJobs, seen : Document]

NoDocument == [status |-> "draft", current |-> NoJob, version |-> 0]
Idle == [pc |-> "idle", key |-> NoKey, force |-> FALSE, job |-> NoJob, seen |-> NoDocument]

Init ==
  /\ doc = NoDocument /\ jobs = <<>>
  /\ sugg = [j \in JobId |-> "none"]
  /\ req = [r \in Req |-> Idle]
  /\ chord = [j \in JobId |-> "none"]
  /\ begun = {} /\ results = [j \in JobId |-> {}]
  /\ loaded = [j \in JobId |-> NoDocument]
  /\ revoked = {} /\ taskId = {}
  /\ enqueued = [j \in JobId |-> 0] /\ answers = {}
  /\ served = 0 /\ crashes = 0

-----------------------------------------------------------------------------
(* The database.                                                           *)

\* Flushing obj.status = target: an UPDATE is sent only if the loaded value differs.
Assign(row, seen, target) == IF seen = target THEN row ELSE target

\* get_active_by_document_id, and the partial unique index "one active job per document".
Active == {j \in DOMAIN jobs : IsActive(jobs[j].status)}

\* get_by_idempotency_key, and the unique index on (document, key).
Keyed(key) == {j \in DOMAIN jobs : key # NoKey /\ jobs[j].key = key}

SetJob(j, status) == jobs' = [jobs EXCEPT ![j].status = status]

\* _set_job_status of a request that loaded the document as seen: the document follows
\* only if the job is its current one, and only along a legal transition.
Follows(seen, j) == seen.current = j
CanFollow(seen, j, target) == Follows(seen, j) => target \in DocumentTargets(seen.status)
Follow(seen, j, target) ==
  doc' = IF Follows(seen, j) THEN [doc EXCEPT !.status = Assign(@, seen.status, target)]
         ELSE doc

-----------------------------------------------------------------------------
(* Starting an analysis: find_job_by_idempotency_key, create_job, dispatch. *)

Enter(r, state) == req' = [req EXCEPT ![r] = state]
Move(r, pc) == req' = [req EXCEPT ![r].pc = pc]
Leave(r) == Enter(r, Idle)

\* A new request is served.
Arrive(r) == req[r].pc = "idle" /\ served < MaxRequests /\ served' = served + 1

\* The existing job of this key is the answer; nobody dispatches it again.
AnswerExisting(r, key) ==
  \E j \in Keyed(key) : answers' = answers \cup {<<key, j>>} /\ Leave(r)

\* The document and the job of this key are read; the document must be startable.
\* (The router's own lookup of the key before this one is a read with the same outcome.)
Start(r) ==
  /\ "start" \in Ops /\ Arrive(r)
  /\ \E key \in Key \cup {NoKey}, force \in ForceFlag :
       \/ AnswerExisting(r, key)
       \/ /\ Keyed(key) = {} /\ CanStartAnalysis(doc.status)
          /\ Enter(r, [Idle EXCEPT !.pc = "check", !.key = key, !.force = force, !.seen = doc])
          /\ UNCHANGED answers
  /\ UNCHANGED <<doc, jobs, sugg, worker, revoked, taskId, enqueued, crashes>>

\* The active job is read: with the same key it is the answer, otherwise the request is
\* refused; a ready document needs force.
CheckActive(r) ==
  /\ req[r].pc = "check"
  /\ \/ /\ Active # {} /\ Active \subseteq Keyed(req[r].key)
        /\ AnswerExisting(r, req[r].key)
     \/ /\ Active # {} /\ ~(Active \subseteq Keyed(req[r].key))
        /\ Leave(r) /\ UNCHANGED answers
     \/ /\ Active = {} /\ NeedsConfirmation(req[r].seen.status) /\ ~req[r].force
        /\ Leave(r) /\ UNCHANGED answers
     \/ /\ Active = {} /\ (NeedsConfirmation(req[r].seen.status) => req[r].force)
        /\ Move(r, "insert") /\ UNCHANGED answers
  /\ UNCHANGED <<doc, jobs, sugg, worker, revoked, taskId, enqueued, served, crashes>>

\* The transaction of create_job commits.  An index may refuse the INSERT: the loser
\* answers with the job of its key, or is refused (_raise_create_conflict).
Insert_NoKeyIndex(r) ==
  /\ req[r].pc = "insert"
  /\ \/ Active # {} /\ Leave(r) /\ UNCHANGED <<doc, jobs, answers>>
     \/ /\ Active = {} /\ Len(jobs) < MaxJobs
        /\ jobs' = Append(jobs, [status |-> "pending", key |-> req[r].key])
        /\ doc' = [doc EXCEPT !.status = Assign(@, req[r].seen.status, "draft"),
                             !.current = Len(jobs) + 1]
        /\ req' = [req EXCEPT ![r].pc = "dispatch", ![r].job = Len(jobs) + 1]
        /\ answers' = IF req[r].key = NoKey THEN answers
                      ELSE answers \cup {<<req[r].key, Len(jobs) + 1>>}
  /\ UNCHANGED <<sugg, worker, revoked, taskId, enqueued, served, crashes>>
Insert_DispatchesExisting(r) ==
  /\ req[r].pc = "insert"
  /\ \/ /\ Keyed(req[r].key) # {}
        /\ \E j \in Keyed(req[r].key) : req' = [req EXCEPT ![r].pc = "dispatch", ![r].job = j]
        /\ UNCHANGED <<doc, jobs, answers>>
     \/ /\ Active # {} /\ Keyed(req[r].key) = {}
        /\ Leave(r) /\ UNCHANGED <<doc, jobs, answers>>
     \/ /\ Active = {} /\ Keyed(req[r].key) = {} /\ Len(jobs) < MaxJobs
        /\ jobs' = Append(jobs, [status |-> "pending", key |-> req[r].key])
        /\ doc' = [doc EXCEPT !.status = Assign(@, req[r].seen.status, "draft"),
                             !.current = Len(jobs) + 1]
        /\ req' = [req EXCEPT ![r].pc = "dispatch", ![r].job = Len(jobs) + 1]
        /\ UNCHANGED answers
  /\ UNCHANGED <<sugg, worker, revoked, taskId, enqueued, served, crashes>>
Insert(r) ==
  /\ req[r].pc = "insert"
  /\ \/ AnswerExisting(r, req[r].key) /\ UNCHANGED <<doc, jobs>>
     \/ /\ Active # {} /\ Keyed(req[r].key) = {}
        /\ Leave(r) /\ UNCHANGED <<doc, jobs, answers>>
     \/ /\ Active = {} /\ Keyed(req[r].key) = {} /\ Len(jobs) < MaxJobs
        /\ jobs' = Append(jobs, [status |-> "pending", key |-> req[r].key])
        /\ doc' = [doc EXCEPT !.status = Assign(@, req[r].seen.status, "draft"),
                             !.current = Len(jobs) + 1]
        /\ req' = [req EXCEPT ![r].pc = "dispatch", ![r].job = Len(jobs) + 1]
        /\ answers' = IF req[r].key = NoKey THEN answers
                      ELSE answers \cup {<<req[r].key, Len(jobs) + 1>>}
  /\ UNCHANGED <<sugg, worker, revoked, taskId, enqueued, served, crashes>>

\* dispatch_job reads the document again; of the job it keeps what create_job returned,
\* so its own check of the status (CanDispatch) always sees pending.
ReadForDispatch(r) ==
  /\ req[r].pc = "dispatch"
  /\ req' = [req EXCEPT ![r].pc = "dispatching", ![r].seen = doc]
  /\ UNCHANGED <<doc, jobs, sugg, worker, revoked, taskId, enqueued, answers, served, crashes>>

\* Job dispatched, document in_progress.  An illegal transition of the loaded document or
\* the index on active jobs fails the request and rolls back.
Dispatch_NoIndex(r) ==
  LET j == req[r].job  seen == req[r].seen IN
  /\ req[r].pc = "dispatching" /\ CanFollow(seen, j, "in_progress")
  /\ SetJob(j, "dispatched") /\ Follow(seen, j, "in_progress")
  /\ req' = [req EXCEPT ![r].pc = "enqueue",
                        ![r].seen.status = IF Follows(seen, j) THEN "in_progress" ELSE @]
  /\ UNCHANGED <<sugg, worker, revoked, taskId, enqueued, answers, served, crashes>>
Dispatch(r) ==
  LET j == req[r].job  seen == req[r].seen IN
  /\ req[r].pc = "dispatching"
  /\ \/ /\ CanFollow(seen, j, "in_progress") /\ Active \subseteq {j}
        /\ SetJob(j, "dispatched") /\ Follow(seen, j, "in_progress")
        /\ req' = [req EXCEPT ![r].pc = "enqueue",
                              ![r].seen.status = IF Follows(seen, j) THEN "in_progress" ELSE @]
     \/ /\ ~(CanFollow(seen, j, "in_progress") /\ Active \subseteq {j})
        /\ Leave(r) /\ UNCHANGED <<doc, jobs>>
  /\ UNCHANGED <<sugg, worker, revoked, taskId, enqueued, answers, served, crashes>>

\* queue.enqueue: a chord over the sources, or only the finalising task without any.
Publish(j) ==
  /\ \E state \in {"running", "empty"} : chord' = [chord EXCEPT ![j] = state]
  /\ enqueued' = [enqueued EXCEPT ![j] = @ + 1]

Enqueue(r) ==
  /\ req[r].pc = "enqueue" /\ Publish(req[r].job) /\ Move(r, "task_id")
  /\ UNCHANGED <<doc, jobs, sugg, begun, results, loaded, revoked, taskId, answers, served, crashes>>

\* The broker's error; with LosesAnswers the messages may be out all the same.
EnqueueFails_Silent(r) ==
  /\ req[r].pc = "enqueue" /\ Leave(r)
  /\ UNCHANGED <<doc, jobs, sugg, worker, revoked, taskId, enqueued, answers, served, crashes>>
EnqueueFails(r) ==
  /\ req[r].pc = "enqueue" /\ Move(r, "unavailable")
  /\ (LosesAnswers /\ Publish(req[r].job)) \/ UNCHANGED <<chord, enqueued>>
  /\ UNCHANGED <<doc, jobs, sugg, begun, results, loaded, revoked, taskId, answers, served, crashes>>

\* _mark_queue_unavailable: the loaded job is dispatched, the loaded document in_progress.
MarkUnavailable(r) ==
  LET j == req[r].job IN
  /\ req[r].pc = "unavailable"
  /\ SetJob(j, "failed") /\ Follow(req[r].seen, j, "draft")
  /\ Leave(r)
  /\ UNCHANGED <<sugg, worker, revoked, taskId, enqueued, answers, served, crashes>>

SetTaskId(r) ==
  /\ req[r].pc = "task_id"
  /\ taskId' = taskId \cup {req[r].job}
  /\ Leave(r)
  /\ UNCHANGED <<doc, jobs, sugg, worker, revoked, enqueued, answers, served, crashes>>

-----------------------------------------------------------------------------
(* Cancelling and resetting.                                               *)

\* cancel_job reads the job, which must be active; the stored task id is read with it.  A
\* job already cancelled is not touched, only its task is revoked once more.
CancelJob(r) ==
  /\ "cancel" \in Ops /\ Arrive(r)
  /\ \/ \E j \in Active :
          Enter(r, [Idle EXCEPT !.pc = IF j \in taskId THEN "cancel_known" ELSE "cancel", !.job = j])
     \/ \E j \in taskId :
          jobs[j].status = "cancelled" /\ Enter(r, [Idle EXCEPT !.pc = "revoke", !.job = j])
  /\ UNCHANGED <<doc, jobs, sugg, worker, revoked, taskId, enqueued, answers, crashes>>

\* Then the document.
CancelDocument(r) ==
  /\ req[r].pc \in {"cancel", "cancel_known"}
  /\ req' = [req EXCEPT ![r].pc = IF @ = "cancel" THEN "cancelling" ELSE "cancelling_known",
                        ![r].seen = doc]
  /\ UNCHANGED <<doc, jobs, sugg, worker, revoked, taskId, enqueued, answers, served, crashes>>

\* Job cancelled, document draft; draft is reachable from every status.
Cancel(r) ==
  LET j == req[r].job IN
  /\ req[r].pc \in {"cancelling", "cancelling_known"}
  /\ SetJob(j, "cancelled") /\ Follow(req[r].seen, j, "draft")
  /\ IF req[r].pc = "cancelling" THEN Leave(r) ELSE Move(r, "revoke")
  /\ UNCHANGED <<sugg, worker, revoked, taskId, enqueued, answers, served, crashes>>

\* revoke_celery_task, best effort: the stored id is that of the finalising task.
Revoke(r) ==
  /\ req[r].pc = "revoke" /\ Leave(r)
  /\ revoked' \in {revoked, revoked \cup {req[r].job}}
  /\ UNCHANGED <<doc, jobs, sugg, worker, taskId, enqueued, answers, served, crashes>>

\* reset_analysis reads the document, which must have been reviewed.
ReadForReset(r) ==
  /\ "reset" \in Ops /\ Arrive(r)
  /\ CanResetReview(doc.status) /\ doc.current # NoJob
  /\ Enter(r, [Idle EXCEPT !.pc = "resetting", !.job = doc.current, !.seen = doc])
  /\ UNCHANGED <<doc, jobs, sugg, worker, revoked, taskId, enqueued, answers, crashes>>

\* The loaded job's suggestions are pending again, the document awaits approval.
ResetAnalysis(r) ==
  LET j == req[r].job IN
  /\ req[r].pc = "resetting"
  /\ sugg' = [sugg EXCEPT ![j] = IF @ = "decided" THEN "pending" ELSE @]
  /\ Follow(req[r].seen, j, "awaiting_approval")
  /\ Leave(r)
  /\ UNCHANGED <<jobs, worker, revoked, taskId, enqueued, answers, served, crashes>>

\* atomic_review_save with finalize reads the document, which must await approval.
ReadForReview(r) ==
  /\ "review" \in Ops /\ Arrive(r)
  /\ CanReview(doc.status) /\ doc.current # NoJob
  /\ Enter(r, [Idle EXCEPT !.pc = "reviewing", !.job = doc.current, !.seen = doc])
  /\ UNCHANGED <<doc, jobs, sugg, worker, revoked, taskId, enqueued, answers, crashes>>

\* It decides what is pending and writes ready, if no other save changed the version.
\* The statements of a save and their races with other reviewers are module Review.
SaveReview(r) ==
  LET j == req[r].job IN
  /\ req[r].pc = "reviewing" /\ Leave(r)
  /\ \/ /\ doc.version = req[r].seen.version
        /\ sugg' = [sugg EXCEPT ![j] = IF @ = "pending" THEN "decided" ELSE @]
        /\ doc' = [doc EXCEPT !.status = "ready", !.version = @ + 1]
     \/ doc.version # req[r].seen.version /\ UNCHANGED <<doc, sugg>>
  /\ UNCHANGED <<jobs, worker, revoked, taskId, enqueued, answers, served, crashes>>

\* The API process dies; nothing resumes the request.
Die(r) ==
  /\ req[r].pc # "idle" /\ crashes < MaxCrashes
  /\ crashes' = crashes + 1 /\ Leave(r)
  /\ UNCHANGED <<doc, jobs, sugg, worker, revoked, taskId, enqueued, answers, served>>

-----------------------------------------------------------------------------
(* The workers.                                                            *)

\* mark_processing_if_active, a conditional UPDATE.  A late duplicate of a subtask may
\* run it even after the chord is over.
MarkProcessing_Always(j) ==
  /\ chord[j] \notin {"none", "empty"}
  /\ SetJob(j, "processing") /\ begun' = begun \cup {j}
  /\ UNCHANGED <<doc, sugg, req, chord, results, loaded, revoked, taskId, enqueued, answers, served, crashes>>
MarkProcessing(j) ==
  /\ chord[j] \notin {"none", "empty"} /\ j \in Active
  /\ SetJob(j, "processing") /\ begun' = begun \cup {j}
  /\ UNCHANGED <<doc, sugg, req, chord, results, loaded, revoked, taskId, enqueued, answers, served, crashes>>

\* A subtask answers.  Its suggestions may be stored although the job was cancelled in
\* between: see RecheckJob and Store in module SourceClaim.
SubtaskAnswers(j) ==
  /\ chord[j] = "running"
  /\ \/ /\ j \in begun /\ sugg' \in {sugg, [sugg EXCEPT ![j] = "pending"]}
        /\ results' = [results EXCEPT ![j] = @ \cup {"ok"}]
     \/ /\ j \in begun /\ UNCHANGED sugg
        /\ results' = [results EXCEPT ![j] = @ \cup {"failed"}]
     \/ /\ j \notin Active /\ UNCHANGED sugg
        /\ results' = [results EXCEPT ![j] = @ \cup {"cancelled"}]
  /\ UNCHANGED <<doc, jobs, req, chord, begun, loaded, revoked, taskId, enqueued, answers, served, crashes>>

\* A subtask fails outright, by its time limit or a database error: the chord's body
\* is never called.
LoseSubtask(j) ==
  /\ LosesTasks /\ chord[j] = "running"
  /\ chord' = [chord EXCEPT ![j] = "lost"]
  /\ UNCHANGED <<doc, jobs, sugg, req, begun, results, loaded, revoked, taskId, enqueued, answers, served, crashes>>

\* Every subtask has answered, or there was none: the broker calls the chord's body.
HeaderDone(j) == chord[j] = "empty" \/ (chord[j] = "running" /\ results[j] # {})

\* _finalize reads the job and the document; a terminal job is left alone.
ReadForFinalize(j) ==
  /\ HeaderDone(j)
  /\ \/ /\ IsTerminal(jobs[j].status) /\ chord' = [chord EXCEPT ![j] = "over"]
        /\ UNCHANGED loaded
     \/ /\ IsActive(jobs[j].status) /\ chord' = [chord EXCEPT ![j] = "finalizing"]
        /\ loaded' = [loaded EXCEPT ![j] = doc]
  /\ UNCHANGED <<doc, jobs, sugg, req, begun, results, revoked, taskId, enqueued, answers, served, crashes>>

\* A revoked finalising task is dropped instead.
DropFinalize(j) ==
  /\ j \in revoked /\ HeaderDone(j)
  /\ chord' = [chord EXCEPT ![j] = "over"]
  /\ UNCHANGED <<doc, jobs, sugg, req, begun, results, loaded, revoked, taskId, enqueued, answers, served, crashes>>

\* The status _finalize derives from the subtasks' results.
Outcome(rs) ==
  CASE "cancelled" \in rs                -> "cancelled"
    [] rs = {"failed"}                   -> "failed"
    [] rs = {"failed", "ok"}             -> "partial_success"
    [] rs \subseteq {"ok"}               -> "success"

\* _finalize commits: job and document, the latter if the job was its current one; an
\* illegal transition of the loaded document fails the task.
Finalize_ForgetsDocument(j) ==
  /\ chord[j] = "finalizing"
  /\ SetJob(j, Outcome(results[j]))
  /\ chord' = [chord EXCEPT ![j] = "over"]
  /\ UNCHANGED <<doc, sugg, req, begun, results, loaded, revoked, taskId, enqueued, answers, served, crashes>>
Finalize(j) ==
  LET status == Outcome(results[j])
      target == DocumentStatusFor(status, sugg[j] = "pending")
  IN
  /\ chord[j] = "finalizing"
  /\ \/ /\ CanFollow(loaded[j], j, target)
        /\ SetJob(j, status) /\ Follow(loaded[j], j, target)
        /\ chord' = [chord EXCEPT ![j] = "over"]
     \/ /\ ~CanFollow(loaded[j], j, target)
        /\ chord' = [chord EXCEPT ![j] = "lost"] /\ UNCHANGED <<doc, jobs>>
  /\ UNCHANGED <<sugg, req, begun, results, loaded, revoked, taskId, enqueued, answers, served, crashes>>

\* _finalize fails by a database error, a lost connection or any other exception, at
\* whatever place: its transaction rolls back and nothing calls it again.
FinalizeFails(j) ==
  /\ LosesTasks /\ (HeaderDone(j) \/ chord[j] = "finalizing")
  /\ chord' = [chord EXCEPT ![j] = "lost"]
  /\ UNCHANGED <<doc, jobs, sugg, req, begun, results, loaded, revoked, taskId, enqueued, answers, served, crashes>>

-----------------------------------------------------------------------------
Serve(r) ==
  \/ CheckActive(r) \/ Insert(r) \/ ReadForDispatch(r) \/ Dispatch(r)
  \/ Enqueue(r) \/ EnqueueFails(r) \/ MarkUnavailable(r) \/ SetTaskId(r)
  \/ CancelDocument(r) \/ Cancel(r) \/ Revoke(r) \/ ResetAnalysis(r) \/ SaveReview(r)

Run(j) ==
  \/ MarkProcessing(j) \/ SubtaskAnswers(j) \/ ReadForFinalize(j) \/ DropFinalize(j)
  \/ Finalize(j)

Lose(j) == LoseSubtask(j) \/ FinalizeFails(j)

Next ==
  \/ \E r \in Req : Start(r) \/ CancelJob(r) \/ ReadForReset(r) \/ ReadForReview(r) \/ Serve(r) \/ Die(r)
  \/ \E j \in DOMAIN jobs : Run(j) \/ Lose(j)

Spec == Init /\ [][Next]_vars

\* The API process goes on with a request it serves, the broker delivers and the workers
\* run; nobody is bound to send a request or to lose anything.
FairSpec ==
  /\ Spec
  /\ \A r \in Req : WF_vars(Serve(r))
  /\ \A j \in JobId : WF_vars(j \in DOMAIN jobs /\ Run(j))

-----------------------------------------------------------------------------
(* Properties.                                                             *)

\* Types of the rows, the requests and the chords.
TypeOK ==
  /\ doc \in Document
  /\ jobs \in Seq(Job) /\ Len(jobs) <= MaxJobs
  /\ sugg \in [JobId -> {"none", "pending", "decided"}]
  /\ req \in [Req -> Request]
  /\ chord \in [JobId -> {"none", "running", "empty", "finalizing", "over", "lost"}]
  /\ begun \subseteq JobId /\ results \in [JobId -> SUBSET {"ok", "failed", "cancelled"}]
  /\ loaded \in [JobId -> Document] /\ revoked \subseteq JobId /\ taskId \subseteq JobId
  /\ enqueued \in [JobId -> Nat] /\ answers \subseteq Key \X JobId
  /\ served \in 0..MaxRequests /\ crashes \in 0..MaxCrashes

Status(j) == jobs[j].status
CurrentStatus == Status(doc.current)

\* A document has at most one active analysis (README, life cycle), however requests,
\* late dispatches and workers interleave.
OneActiveJob == \A i, j \in Active : i = j

\* A job is handed to the queue at most once, so its sources are never paid for twice:
\* only the request that created the job dispatches it.
EnqueuedOnce == \A j \in JobId : enqueued[j] <= 1

\* All requests with the same Idempotency-Key are answered with the same job, also when
\* they race or when the first analysis is already over.
SameKeySameJob == \A a, b \in answers : a[1] = b[1] => a[2] = b[2]

\* As long as no API process died, a job that says it is queued or processed is in the
\* queue or about to be put there or marked failed: none waits for workers in vain.
NeverOrphaned ==
  \A j \in DOMAIN jobs :
    Status(j) \in {"dispatched", "processing"} /\ chord[j] = "none" =>
      \/ crashes > 0
      \/ \E r \in Req : req[r].job = j /\ req[r].pc \in {"enqueue", "unavailable"}

\* Once its finalising task is over a job is terminal for good: no late duplicate of a
\* subtask, no slow request brings it back.
FinalizedIsTerminal == \A j \in JobId : chord[j] = "over" => IsTerminal(Status(j))

\* A job in the words of JobLife; a job whose chord is over has to be terminal.
PhaseOf(j) ==
  IF j \notin DOMAIN jobs THEN "none"
  ELSE IF chord[j] = "none" THEN IF IsActive(Status(j)) THEN "open" ELSE "shut"
  ELSE IF IsActive(Status(j)) THEN IF chord[j] = "over" THEN "stuck" ELSE "queued"
  ELSE "ended"

Life == INSTANCE JobLife WITH Job <- JobId, phase <- [j \in JobId |-> PhaseOf(j)]

\* Whatever requests and workers interleave, each step of theirs is one step of one job's
\* life or none: no second analysis opens beside a live one, none is queued twice, and one
\* that ended after it was queued is over for good.
JobLifeSpec == Life!Spec

\* The status of a document follows its current job (README, life cycle): checked for
\* one client at a time, who does not cancel, and a broker that reports no error for what
\* it has taken; without these it is broken.
DocFollowsJob ==
  doc.current # NoJob =>
    CASE CurrentStatus \in {"dispatched", "processing"}      -> doc.status = "in_progress"
      [] CurrentStatus \in {"success", "partial_success"} -> doc.status \in {"awaiting_approval", "ready"}
      [] OTHER                                            -> doc.status = "draft"

\* A document under analysis comes out of it, whatever its subtasks answer, unless the API
\* process that was to queue it died, a subtask failed outright, or _finalize did.  No code
\* recovers from these: the job stays active until somebody cancels it.
AnalysisEnds ==
  doc.status = "in_progress" ~>
    doc.status # "in_progress" \/ crashes > 0 \/ chord[doc.current] = "lost"

\* Failure or cancellation brings the document back to draft (the life cycle's diagram in
\* README): a cancelled analysis does not leave its document in_progress, where it can be
\* neither analysed, nor edited, nor deleted.
CancelFreesDocument ==
  doc.current # NoJob /\ CurrentStatus = "cancelled" => doc.status # "in_progress"
=============================================================================

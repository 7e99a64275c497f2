-------------------------- MODULE AnalysisJobs_proofs --------------------------
(***************************************************************************)
(* Proofs about module AnalysisJobs, for any number of clients, keys,      *)
(* jobs, requests and crashes: what the unique indexes, the conditional    *)
(* UPDATEs and the order of the steps of a request guarantee, whatever     *)
(* stale objects the requests decide on.                                   *)
(***************************************************************************)
EXTENDS AnalysisJobs, TLAPS

\* Before, and after, a request has handed its job to the queue.
ToQueue == {"dispatch", "dispatching", "enqueue"}
Working == ToQueue \cup {"unavailable", "task_id", "cancel", "cancel_known", "cancelling",
                         "cancelling_known", "revoke"}

\* The unique index on (document, key), and what the answers rely on.
Keys ==
  /\ \A i, j \in DOMAIN jobs : jobs[i].key = jobs[j].key /\ jobs[i].key # NoKey => i = j
  /\ \A a \in answers : a[2] \in DOMAIN jobs /\ jobs[a[2]].key = a[1]

\* A job is in the queue exactly if it was handed over, once; its task id and its
\* revocation are known only then; revoked and finalised jobs are terminal.
Queue ==
  \A j \in JobId :
    /\ enqueued[j] = IF chord[j] = "none" THEN 0 ELSE 1
    /\ j \notin DOMAIN jobs => chord[j] = "none"
    /\ j \in taskId \cup revoked => chord[j] # "none"
    /\ chord[j] = "over" \/ j \in revoked => IsTerminal(Status(j))

\* A job is handed over by one request only, the one that created it.
Requests ==
  /\ \A r \in Req : req[r].pc \in Working => req[r].job \in DOMAIN jobs
  /\ \A r \in Req : req[r].pc \in ToQueue => chord[req[r].job] = "none"
  /\ \A r \in Req : req[r].pc = "task_id" => chord[req[r].job] # "none"
  /\ \A r \in Req : req[r].pc \in {"cancel_known", "cancelling_known", "revoke"} =>
                      req[r].job \in taskId
  /\ \A r \in Req : req[r].pc = "revoke" => IsTerminal(Status(req[r].job))
  /\ \A r, q \in Req :
       req[r].pc \in ToQueue /\ req[q].pc \in ToQueue /\ req[r].job = req[q].job => r = q

IInv == TypeOK /\ OneActiveJob /\ Keys /\ Queue /\ Requests /\ NeverOrphaned

-----------------------------------------------------------------------------
(* Types.                                                                  *)

LEMMA Statuses ==
  /\ JobStatus = {"pending", "dispatched", "processing", "success", "partial_success",
                  "failed", "cancelled"}
  /\ \A s : IsActive(s) <=> s \in {"pending", "dispatched", "processing"}
  /\ \A s : IsTerminal(s) <=> s \in {"success", "partial_success", "failed", "cancelled"}
BY DEF JobStatus, IsActive, IsTerminal, JobActive, JobTerminal

\* The rows of jobs.
LEMMA JobsType ==
  ASSUME TypeOK
  PROVE  /\ DOMAIN jobs = 1..Len(jobs) /\ DOMAIN jobs \subseteq JobId
         /\ \A j \in DOMAIN jobs : jobs[j] \in Job
         /\ Len(jobs) \in Nat
BY AnalysisAssumption DEF TypeOK, JobId

\* Writing the status of a job changes nothing else.
LEMMA SetJobType ==
  ASSUME TypeOK, NEW j, NEW status \in JobStatus, SetJob(j, status)
  PROVE  /\ jobs' \in Seq(Job) /\ Len(jobs') = Len(jobs) /\ DOMAIN jobs' = DOMAIN jobs
         /\ j \in DOMAIN jobs => jobs'[j].status = status
         /\ \A i \in DOMAIN jobs : jobs'[i].key = jobs[i].key
         /\ \A i \in DOMAIN jobs \ {j} : jobs'[i] = jobs[i]
<1>1. CASE j \in DOMAIN jobs
  <2>1. jobs[j] \in Job /\ [jobs[j] EXCEPT !.status = status] \in Job
    BY <1>1, JobsType DEF Job
  <2> QED BY <1>1, <2>1, JobsType DEF SetJob, TypeOK, Job
<1>2. CASE j \notin DOMAIN jobs
  <2>1. jobs' = jobs
    BY <1>2, JobsType DEF SetJob, TypeOK
  <2> QED BY <1>2, <2>1, JobsType DEF TypeOK
<1> QED BY <1>1, <1>2

\* A new job is the last one.
LEMMA AppendType ==
  ASSUME TypeOK, NEW key \in Key \cup {NoKey}, Len(jobs) < MaxJobs,
         jobs' = Append(jobs, [status |-> "pending", key |-> key])
  PROVE  /\ jobs' \in Seq(Job) /\ Len(jobs') = Len(jobs) + 1 /\ Len(jobs') <= MaxJobs
         /\ DOMAIN jobs' = DOMAIN jobs \cup {Len(jobs) + 1} /\ Len(jobs) + 1 \notin DOMAIN jobs
         /\ jobs'[Len(jobs) + 1] = [status |-> "pending", key |-> key]
         /\ \A i \in DOMAIN jobs : jobs'[i] = jobs[i]
         /\ Len(jobs) + 1 \in JobId
<1> DEFINE job == [status |-> "pending", key |-> key]
<1>1. job \in Job
  BY Statuses DEF Job
<1>2. jobs \in Seq(Job) /\ Len(jobs) \in Nat /\ DOMAIN jobs = 1..Len(jobs)
  BY JobsType DEF TypeOK
<1> HIDE DEF job
<1>3. jobs' = Append(jobs, job)
  BY DEF job
<1>4. /\ jobs' \in Seq(Job) /\ Len(jobs') = Len(jobs) + 1 /\ jobs'[Len(jobs) + 1] = job
      /\ \A i \in 1..Len(jobs) : jobs'[i] = jobs[i]
  BY <1>1, <1>2, <1>3
<1>5. DOMAIN jobs' = 1..(Len(jobs) + 1)
  BY <1>4
<1>6. /\ DOMAIN jobs' = DOMAIN jobs \cup {Len(jobs) + 1} /\ Len(jobs) + 1 \notin DOMAIN jobs
  BY <1>2, <1>5
<1>7. Len(jobs) + 1 \in JobId /\ Len(jobs) + 1 <= MaxJobs
  BY <1>2, AnalysisAssumption DEF JobId
<1> QED BY <1>2, <1>4, <1>6, <1>7 DEF job

\* The document a request writes.
LEMMA FollowType ==
  ASSUME TypeOK, NEW seen \in Document, NEW j, NEW target \in DocumentStatus,
         Follow(seen, j, target)
  PROVE  doc' \in Document
<1>1. Assign(doc.status, seen.status, target) \in DocumentStatus
  BY DEF TypeOK, Document, Assign
<1> QED BY <1>1 DEF TypeOK, Document, Follow

LEMMA IdleType == Idle \in Request /\ Idle.pc = "idle" /\ NoDocument \in Document
<1>1. NoDocument \in Document
  BY AnalysisAssumption DEF NoDocument, Document, DocumentStatus, NoJob
<1>2. Idle.pc = "idle"
  BY DEF Idle
<1>3. Idle \in Request
  BY <1>1, AnalysisAssumption DEF Idle, Request, Place, NoJob
<1> QED BY <1>1, <1>2, <1>3

-----------------------------------------------------------------------------
(* How a request moves.                                                    *)

\* Request r goes to a place with a job; no other request moves.
Goes(r, pc, job) ==
  /\ req' \in [Req -> Request] /\ \A p \in Req \ {r} : req'[p] = req[p]
  /\ req'[r].pc = pc /\ req'[r].job = job

LEMMA EnterGoes ==
  ASSUME TypeOK, NEW r \in Req, NEW q \in Request, Enter(r, q)
  PROVE  Goes(r, q.pc, q.job)
BY DEF TypeOK, Enter, Goes

LEMMA LeaveGoes ==
  ASSUME TypeOK, NEW r \in Req, Leave(r)
  PROVE  Goes(r, "idle", NoJob)
<1>1. Idle \in Request /\ Idle.pc = "idle" /\ Idle.job = NoJob
  BY IdleType DEF Idle
<1> QED BY <1>1, EnterGoes DEF Leave

\* A request that begins, with what it was asked and has loaded.
LEMMA FreshGoes ==
  ASSUME TypeOK, NEW r \in Req, NEW pc \in Place, NEW key \in Key \cup {NoKey},
         NEW force \in BOOLEAN, NEW job \in 0..MaxJobs, NEW seen \in Document,
         Enter(r, [Idle EXCEPT !.pc = pc, !.key = key, !.force = force, !.job = job, !.seen = seen])
  PROVE  Goes(r, pc, job)
<1> DEFINE q == [Idle EXCEPT !.pc = pc, !.key = key, !.force = force, !.job = job, !.seen = seen]
<1>1. q \in Request /\ q.pc = pc /\ q.job = job
  BY IdleType DEF Request, Idle
<1> HIDE DEF q
<1> QED BY <1>1, EnterGoes DEF q

\* A request that goes on, perhaps with another job or a document it has loaded again.
LEMMA AlterGoes ==
  ASSUME TypeOK, NEW r \in Req, NEW pc \in Place, NEW job \in 0..MaxJobs, NEW seen \in Document,
         req' = [req EXCEPT ![r] = [req[r] EXCEPT !.pc = pc, !.job = job, !.seen = seen]]
  PROVE  Goes(r, pc, job)
<1> DEFINE q == [req[r] EXCEPT !.pc = pc, !.job = job, !.seen = seen]
<1>1. req[r] \in Request
  BY DEF TypeOK
<1>2. q \in Request /\ q.pc = pc /\ q.job = job
  BY <1>1 DEF Request
<1> HIDE DEF q
<1> QED BY <1>2, EnterGoes DEF q, Enter

LEMMA MoveGoes ==
  ASSUME TypeOK, NEW r \in Req, NEW pc \in Place, Move(r, pc)
  PROVE  Goes(r, pc, req[r].job)
<1>1. req[r] \in Request /\ req[r].job \in 0..MaxJobs /\ req[r].seen \in Document
  BY DEF TypeOK, Request
<1>2. req' = [req EXCEPT ![r] = [req[r] EXCEPT !.pc = pc, !.job = req[r].job, !.seen = req[r].seen]]
  BY <1>1 DEF Move, TypeOK, Request
<1> QED BY <1>1, <1>2, AlterGoes

\* The steps that write a request field by field.
LEMMA InsertGoes ==
  ASSUME TypeOK, NEW r \in Req, Len(jobs) < MaxJobs,
         req' = [req EXCEPT ![r].pc = "dispatch", ![r].job = Len(jobs) + 1]
  PROVE  Goes(r, "dispatch", Len(jobs) + 1)
<1>1. /\ req[r] \in Request /\ req[r].seen \in Document /\ "dispatch" \in Place
      /\ Len(jobs) + 1 \in 0..MaxJobs
  BY JobsType, AnalysisAssumption DEF TypeOK, Request, Place
<1>2. req' = [req EXCEPT ![r] = [req[r] EXCEPT !.pc = "dispatch", !.job = Len(jobs) + 1,
                                               !.seen = req[r].seen]]
  BY <1>1 DEF TypeOK, Request
<1> QED BY <1>1, <1>2, AlterGoes

LEMMA LoadGoes ==
  ASSUME TypeOK, NEW r \in Req, NEW pc \in Place,
         req' = [req EXCEPT ![r].pc = pc, ![r].seen = doc]
  PROVE  Goes(r, pc, req[r].job)
<1>1. req[r] \in Request /\ req[r].job \in 0..MaxJobs /\ doc \in Document
  BY DEF TypeOK, Request
<1>2. req' = [req EXCEPT ![r] = [req[r] EXCEPT !.pc = pc, !.job = req[r].job, !.seen = doc]]
  BY <1>1 DEF TypeOK, Request
<1> QED BY <1>1, <1>2, AlterGoes

LEMMA DispatchGoes ==
  ASSUME TypeOK, NEW r \in Req, NEW status \in DocumentStatus,
         req' = [req EXCEPT ![r].pc = "enqueue", ![r].seen.status = status]
  PROVE  Goes(r, "enqueue", req[r].job)
<1> DEFINE seen == [req[r].seen EXCEPT !.status = status]
<1>1. req[r] \in Request /\ req[r].job \in 0..MaxJobs /\ "enqueue" \in Place
  BY DEF TypeOK, Request, Place
<1>2. seen \in Document
  BY <1>1 DEF Request, Document
<1>3. req' = [req EXCEPT ![r] = [req[r] EXCEPT !.pc = "enqueue", !.job = req[r].job, !.seen = seen]]
  BY <1>1 DEF TypeOK, Request
<1> HIDE DEF seen
<1> QED BY <1>1, <1>2, <1>3, AlterGoes

-----------------------------------------------------------------------------
(* Type correctness.                                                       *)

LEMMA OutcomeType ==
  ASSUME NEW rs \in SUBSET {"ok", "failed", "cancelled"}
  PROVE  Outcome(rs) \in JobTerminal
<1>1. "cancelled" \in rs \/ rs = {"failed"} \/ rs = {"failed", "ok"} \/ rs \subseteq {"ok"}
  OBVIOUS
<1> QED BY <1>1 DEF Outcome, JobTerminal

LEMMA DocumentStatusForType ==
  ASSUME NEW status, NEW pending \in BOOLEAN
  PROVE  DocumentStatusFor(status, pending) \in DocumentStatus
BY DEF DocumentStatusFor, DocumentStatus

LEMMA InitType == Init => TypeOK
BY IdleType, AnalysisAssumption DEF Init, TypeOK, NoJob, JobId

\* The job of a key.
LEMMA AnswersType ==
  ASSUME TypeOK, NEW key \in Key \cup {NoKey}, NEW j \in Keyed(key)
  PROVE  key \in Key /\ j \in JobId /\ j \in DOMAIN jobs /\ jobs[j].key = key
BY JobsType, AnalysisAssumption DEF Keyed

LEMMA PublishType ==
  ASSUME TypeOK, NEW j \in JobId, Publish(j)
  PROVE  /\ chord' \in [JobId -> {"none", "running", "empty", "finalizing", "over", "lost"}]
         /\ enqueued' \in [JobId -> Nat]
         /\ chord'[j] \in {"running", "empty"} /\ enqueued'[j] = enqueued[j] + 1
         /\ \A i \in JobId \ {j} : chord'[i] = chord[i] /\ enqueued'[i] = enqueued[i]
BY DEF TypeOK, Publish

-----------------------------------------------------------------------------
(* Steps that change no job and hand nothing to the queue.                 *)

LEMMA QuietKeeps ==
  ASSUME IInv, TypeOK', NEW r \in Req, NEW pc, NEW job, Goes(r, pc, job),
         UNCHANGED <<jobs, chord, enqueued>>,
         taskId \subseteq taskId', revoked \subseteq revoked',
         \A j \in taskId' \cup revoked' : j \in taskId \cup revoked \/ chord[j] # "none",
         \A j \in revoked' : j \in revoked \/ IsTerminal(Status(j)),
         pc \in Working => job \in DOMAIN jobs,
         pc \in ToQueue => req[r].pc \in ToQueue /\ job = req[r].job,
         pc = "task_id" => chord[job] # "none",
         pc \in {"cancel_known", "cancelling_known", "revoke"} => job \in taskId',
         pc = "revoke" => IsTerminal(Status(job)),
         req[r].pc \in {"enqueue", "unavailable"} =>
           (pc \in {"enqueue", "unavailable"} /\ job = req[r].job) \/ crashes' > 0,
         crashes' >= crashes,
         \A a \in answers' : a \in answers \/ a[2] \in Keyed(a[1])
  PROVE  IInv'
<1>1. OneActiveJob'
  BY DEF IInv, OneActiveJob, Active
<1>2. Keys'
  BY DEF IInv, Keys, Keyed
<1>3. Queue'
  BY DEF IInv, Queue, Status
<1>4. Requests'
  BY DEF IInv, Requests, Goes, Status
<1>5. NeverOrphaned'
  <2> SUFFICES ASSUME NEW j \in DOMAIN jobs, Status(j) \in {"dispatched", "processing"},
                      chord[j] = "none", ~(crashes' > 0)
               PROVE  \E q \in Req : req'[q].job = j /\ req'[q].pc \in {"enqueue", "unavailable"}
    BY DEF NeverOrphaned, Status
  <2>1. crashes \in Nat /\ crashes' \in Nat
    BY DEF IInv, TypeOK
  <2>2. PICK q \in Req : req[q].job = j /\ req[q].pc \in {"enqueue", "unavailable"}
    BY <2>1 DEF IInv, NeverOrphaned
  <2> QED BY <2>2 DEF Goes
<1> QED BY <1>1, <1>2, <1>3, <1>4, <1>5 DEF IInv

LEMMA ArriveType ==
  ASSUME TypeOK, NEW r \in Req, Arrive(r)
  PROVE  req[r].pc = "idle" /\ served' \in 0..MaxRequests
BY AnalysisAssumption DEF TypeOK, Arrive

\* An answer with the existing job of the key.
LEMMA AnswerKeeps ==
  ASSUME IInv, NEW r \in Req, NEW key \in Key \cup {NoKey}, AnswerExisting(r, key),
         req[r].pc \notin {"enqueue", "unavailable"}, served' \in 0..MaxRequests,
         UNCHANGED <<doc, jobs, sugg, worker, revoked, taskId, enqueued, crashes>>
  PROVE  IInv'
<1> USE DEF worker
<1>1. TypeOK
  BY DEF IInv
<1>2. Goes(r, "idle", NoJob)
  BY <1>1, LeaveGoes DEF AnswerExisting
<1>3. /\ answers' \subseteq Key \X JobId
      /\ \A a \in answers' : a \in answers \/ a[2] \in Keyed(a[1])
  BY <1>1, AnswersType DEF AnswerExisting, TypeOK
<1>4. TypeOK'
  BY <1>1, <1>2, <1>3 DEF TypeOK, Goes
<1>5. crashes' >= crashes
  BY <1>1 DEF TypeOK
<1> QED BY <1>2, <1>3, <1>4, <1>5, QuietKeeps DEF Working, ToQueue

\* A request that leaves.
LEMMA LeaveKeeps ==
  ASSUME IInv, TypeOK', NEW r \in Req, Leave(r), UNCHANGED <<jobs, chord, enqueued, answers>>,
         taskId \subseteq taskId', revoked \subseteq revoked',
         \A j \in taskId' \cup revoked' : j \in taskId \cup revoked \/ chord[j] # "none",
         \A j \in revoked' : j \in revoked \/ IsTerminal(Status(j)),
         req[r].pc \in {"enqueue", "unavailable"} => crashes' > 0, crashes' >= crashes
  PROVE  IInv'
<1>1. Goes(r, "idle", NoJob)
  BY LeaveGoes DEF IInv
<1> QED BY <1>1, QuietKeeps DEF Working, ToQueue

LEMMA StartKeeps == ASSUME IInv, NEW r \in Req, Start(r) PROVE IInv'
<1> USE DEF worker
<1>1. TypeOK /\ served' \in 0..MaxRequests /\ req[r].pc = "idle" /\ doc \in Document
  <2>1. TypeOK /\ Arrive(r)
    BY DEF IInv, Start
  <2>2. doc \in Document
    BY <2>1 DEF TypeOK
  <2> QED BY <2>1, <2>2, ArriveType
<1>2. PICK key \in Key \cup {NoKey}, force \in ForceFlag :
       \/ AnswerExisting(r, key)
       \/ /\ Keyed(key) = {} /\ CanStartAnalysis(doc.status)
          /\ Enter(r, [Idle EXCEPT !.pc = "check", !.key = key, !.force = force, !.seen = doc])
          /\ UNCHANGED answers
  BY DEF Start
<1>3. CASE AnswerExisting(r, key)
  BY <1>1, <1>3, AnswerKeeps DEF Start
<1>4. CASE /\ Enter(r, [Idle EXCEPT !.pc = "check", !.key = key, !.force = force, !.seen = doc])
           /\ UNCHANGED answers
  <2> DEFINE q == [Idle EXCEPT !.pc = "check", !.key = key, !.force = force, !.seen = doc]
  <2>1. force \in BOOLEAN /\ "check" \in Place
    BY AnalysisAssumption DEF Place
  <2>2. q \in Request /\ q.pc = "check"
    <3>1. q \in Request
      BY <1>1, <2>1, IdleType DEF Request
    <3>2. q.pc = "check"
      BY DEF Idle
    <3> QED BY <3>1, <3>2
  <2> HIDE DEF q
  <2>3. Goes(r, "check", q.job)
    BY <1>1, <1>4, <2>2, EnterGoes DEF q
  <2>4. TypeOK'
    BY <1>1, <1>4, <2>3 DEF Start, TypeOK, Goes
  <2>5. crashes' >= crashes
    BY <1>1, <1>4 DEF Start, TypeOK
  <2> QED BY <1>1, <1>4, <2>3, <2>4, <2>5, QuietKeeps DEF Start, Working, ToQueue
<1> QED BY <1>2, <1>3, <1>4

LEMMA CheckActiveKeeps == ASSUME IInv, NEW r \in Req, CheckActive(r) PROVE IInv'
<1> USE DEF worker
<1>1. TypeOK /\ req[r].pc = "check" /\ served' \in 0..MaxRequests /\ req[r].key \in Key \cup {NoKey}
  BY DEF IInv, TypeOK, CheckActive, Request
<1>2. crashes' >= crashes
  BY <1>1 DEF CheckActive, TypeOK
<1>3. CASE AnswerExisting(r, req[r].key)
  BY <1>1, <1>3, AnswerKeeps DEF CheckActive
<1>4. CASE Leave(r) /\ UNCHANGED answers
  <2>1. TypeOK'
    BY <1>1, <1>4, LeaveGoes DEF CheckActive, TypeOK, Goes
  <2> QED BY <1>1, <1>2, <1>4, <2>1, LeaveKeeps DEF CheckActive
<1>5. CASE Move(r, "insert") /\ UNCHANGED answers
  <2>1. Goes(r, "insert", req[r].job)
    BY <1>1, <1>5, MoveGoes DEF Place
  <2>2. TypeOK'
    BY <1>1, <1>5, <2>1 DEF CheckActive, TypeOK, Goes
  <2> QED BY <1>1, <1>2, <1>5, <2>1, <2>2, QuietKeeps DEF CheckActive, Working, ToQueue
<1> QED BY <1>3, <1>4, <1>5 DEF CheckActive

LEMMA ReadForDispatchKeeps == ASSUME IInv, NEW r \in Req, ReadForDispatch(r) PROVE IInv'
<1> USE DEF worker
<1>1. TypeOK /\ req[r].pc = "dispatch" /\ crashes' >= crashes
  BY DEF IInv, TypeOK, ReadForDispatch
<1>2. Goes(r, "dispatching", req[r].job)
  BY <1>1, LoadGoes DEF ReadForDispatch, Place
<1>3. TypeOK'
  BY <1>1, <1>2 DEF ReadForDispatch, TypeOK, Goes
<1>4. req[r].job \in DOMAIN jobs
  BY <1>1 DEF IInv, Requests, Working, ToQueue
<1> QED BY <1>1, <1>2, <1>3, <1>4, QuietKeeps DEF ReadForDispatch, Working, ToQueue

LEMMA SetTaskIdKeeps == ASSUME IInv, NEW r \in Req, SetTaskId(r) PROVE IInv'
<1> USE DEF worker
<1>1. /\ TypeOK /\ req[r].pc = "task_id" /\ crashes' >= crashes
      /\ req[r].job \in JobId /\ chord[req[r].job] # "none"
  BY JobsType DEF IInv, TypeOK, SetTaskId, Requests, Working
<1>2. TypeOK'
  BY <1>1, LeaveGoes DEF SetTaskId, TypeOK, Goes
<1> QED BY <1>1, <1>2, LeaveKeeps DEF SetTaskId

LEMMA CancelJobKeeps == ASSUME IInv, NEW r \in Req, CancelJob(r) PROVE IInv'
<1> USE DEF worker
<1>1. /\ TypeOK /\ req[r].pc = "idle" /\ crashes' >= crashes /\ served' \in 0..MaxRequests
      /\ NoDocument \in Document
  <2>1. TypeOK /\ Arrive(r) /\ crashes' = crashes
    BY DEF IInv, CancelJob
  <2>2. crashes' >= crashes
    BY <2>1 DEF TypeOK
  <2> QED BY <2>1, <2>2, ArriveType, IdleType
<1>2. ASSUME NEW j \in JobId, NEW pc \in {"cancel", "cancel_known", "revoke"},
             j \in DOMAIN jobs, pc # "cancel" => j \in taskId,
             pc = "revoke" => IsTerminal(Status(j)),
             Enter(r, [Idle EXCEPT !.pc = pc, !.job = j])
      PROVE  IInv'
  <2> DEFINE q == [Idle EXCEPT !.pc = pc, !.job = j]
  <2>1. pc \in Place /\ j \in 0..MaxJobs
    BY AnalysisAssumption DEF Place, JobId
  <2>2. q \in Request /\ q.pc = pc /\ q.job = j
    BY <2>1, IdleType DEF Request, Idle
  <2> HIDE DEF q
  <2>3. Goes(r, pc, j)
    BY <1>1, <1>2, <2>2, EnterGoes DEF q
  <2>4. TypeOK'
    BY <1>1, <2>3 DEF CancelJob, TypeOK, Goes
  <2> QED BY <1>1, <1>2, <2>3, <2>4, QuietKeeps DEF CancelJob, Working, ToQueue
<1>3. ASSUME NEW j \in Active,
             Enter(r, [Idle EXCEPT !.pc = IF j \in taskId THEN "cancel_known" ELSE "cancel", !.job = j])
      PROVE  IInv'
  <2>1. j \in DOMAIN jobs /\ j \in JobId
    BY <1>1, JobsType DEF Active
  <2> DEFINE pc == IF j \in taskId THEN "cancel_known" ELSE "cancel"
  <2>2. pc \in {"cancel", "cancel_known"} /\ (pc # "cancel" => j \in taskId)
    OBVIOUS
  <2>3. Enter(r, [Idle EXCEPT !.pc = pc, !.job = j])
    BY <1>3
  <2> HIDE DEF pc
  <2> QED BY <1>2, <2>1, <2>2, <2>3
<1>4. ASSUME NEW j \in taskId, jobs[j].status = "cancelled",
             Enter(r, [Idle EXCEPT !.pc = "revoke", !.job = j])
      PROVE  IInv'
  <2>1. j \in DOMAIN jobs /\ j \in JobId /\ IsTerminal(Status(j))
    BY <1>4, Statuses DEF IInv, TypeOK, Queue, Status
  <2> QED BY <1>2, <1>4, <2>1
<1> QED BY <1>3, <1>4 DEF CancelJob

LEMMA CancelDocumentKeeps == ASSUME IInv, NEW r \in Req, CancelDocument(r) PROVE IInv'
<1> USE DEF worker
<1>1. TypeOK /\ req[r].pc \in {"cancel", "cancel_known"} /\ crashes' >= crashes
  BY DEF IInv, TypeOK, CancelDocument
<1> DEFINE pc == IF req[r].pc = "cancel" THEN "cancelling" ELSE "cancelling_known"
<1>2. pc \in Place /\ pc \in {"cancelling", "cancelling_known"}
  BY DEF Place
<1>3. req' = [req EXCEPT ![r].pc = pc, ![r].seen = doc]
  BY <1>1 DEF CancelDocument, TypeOK, Request
<1>4. pc = "cancelling_known" => req[r].pc = "cancel_known"
  BY <1>1
<1> HIDE DEF pc
<1>5. Goes(r, pc, req[r].job)
  BY <1>1, <1>2, <1>3, LoadGoes
<1>6. TypeOK'
  BY <1>1, <1>5 DEF CancelDocument, TypeOK, Goes
<1>7. /\ req[r].job \in DOMAIN jobs
      /\ pc = "cancelling_known" => req[r].job \in taskId
  BY <1>1, <1>4 DEF IInv, Requests, Working
<1> QED BY <1>1, <1>2, <1>5, <1>6, <1>7, QuietKeeps DEF CancelDocument, Working, ToQueue

LEMMA RevokeKeeps == ASSUME IInv, NEW r \in Req, Revoke(r) PROVE IInv'
<1> USE DEF worker
<1>1. /\ TypeOK /\ req[r].pc = "revoke" /\ crashes' >= crashes
      /\ req[r].job \in taskId /\ IsTerminal(Status(req[r].job))
  BY DEF IInv, TypeOK, Revoke, Requests
<1>2. TypeOK'
  BY <1>1, LeaveGoes DEF Revoke, TypeOK, Goes
<1> QED BY <1>1, <1>2, LeaveKeeps DEF Revoke

\* reset_analysis and a save read the document, then write it.
LEMMA ReadDocumentKeeps ==
  ASSUME IInv, NEW r \in Req, NEW pc \in {"resetting", "reviewing"}, Arrive(r),
         Enter(r, [Idle EXCEPT !.pc = pc, !.job = doc.current, !.seen = doc]),
         UNCHANGED <<doc, jobs, sugg, worker, revoked, taskId, enqueued, answers, crashes>>
  PROVE  IInv'
<1> USE DEF worker
<1>1. TypeOK /\ doc \in Document /\ doc.current \in 0..MaxJobs /\ crashes' >= crashes
  BY DEF IInv, TypeOK, Document
<1>2. served' \in 0..MaxRequests /\ req[r].pc = "idle"
  BY <1>1, ArriveType
<1> DEFINE q == [Idle EXCEPT !.pc = pc, !.job = doc.current, !.seen = doc]
<1>3. q \in Request
  BY <1>1, IdleType DEF Request, Place
<1>4. q.pc = pc
  BY DEF Idle
<1> HIDE DEF q
<1>5. Goes(r, pc, q.job)
  BY <1>1, <1>3, <1>4, EnterGoes DEF q
<1>6. TypeOK'
  BY <1>1, <1>2, <1>5 DEF TypeOK, Goes
<1> QED BY <1>1, <1>2, <1>5, <1>6, QuietKeeps DEF Working, ToQueue

LEMMA ResetAnalysisKeeps == ASSUME IInv, NEW r \in Req, ResetAnalysis(r) PROVE IInv'
<1> USE DEF worker
<1>1. TypeOK /\ req[r].pc = "resetting" /\ req[r].seen \in Document /\ crashes' >= crashes
  BY DEF IInv, TypeOK, ResetAnalysis, Request
<1>2. doc' \in Document
  BY <1>1, FollowType DEF ResetAnalysis, DocumentStatus
<1>3. TypeOK'
  BY <1>1, <1>2, LeaveGoes DEF ResetAnalysis, TypeOK, Goes
<1> QED BY <1>1, <1>3, LeaveKeeps DEF ResetAnalysis

LEMMA SaveReviewKeeps == ASSUME IInv, NEW r \in Req, SaveReview(r) PROVE IInv'
<1> USE DEF worker
<1>1. TypeOK /\ req[r].pc = "reviewing" /\ doc \in Document /\ crashes' >= crashes
  BY DEF IInv, TypeOK, SaveReview
<1>2. doc' \in Document
  <2>1. doc.version + 1 \in Nat /\ "ready" \in DocumentStatus
    BY <1>1 DEF Document, DocumentStatus
  <2>2. doc' = [doc EXCEPT !.status = "ready", !.version = doc.version + 1] \/ doc' = doc
    BY <1>1 DEF SaveReview, Document
  <2> QED BY <1>1, <2>1, <2>2 DEF Document
<1>3. sugg' \in [JobId -> {"none", "pending", "decided"}]
  BY <1>1 DEF SaveReview, TypeOK
<1>4. TypeOK'
  BY <1>1, <1>2, <1>3, LeaveGoes DEF SaveReview, TypeOK, Goes
<1> QED BY <1>1, <1>4, LeaveKeeps DEF SaveReview

LEMMA DieKeeps == ASSUME IInv, NEW r \in Req, Die(r) PROVE IInv'
<1> USE DEF worker
<1>1. TypeOK /\ crashes' > 0 /\ crashes' >= crashes /\ crashes' \in 0..MaxCrashes
  BY AnalysisAssumption DEF IInv, TypeOK, Die
<1>2. TypeOK'
  BY <1>1, LeaveGoes DEF Die, TypeOK, Goes
<1> QED BY <1>1, <1>2, LeaveKeeps DEF Die

-----------------------------------------------------------------------------
(* Steps that create a job, hand it to the queue or change its status.     *)

\* The transaction of create_job: the indexes leave no other active job and none of this
\* key, and nobody else has the new job.
LEMMA InsertKeeps == ASSUME IInv, NEW r \in Req, Insert(r) PROVE IInv'
<1> USE DEF worker
<1>1. /\ TypeOK /\ req[r].pc = "insert" /\ req[r].key \in Key \cup {NoKey}
      /\ served' \in 0..MaxRequests /\ crashes' >= crashes
  BY DEF IInv, TypeOK, Insert, Request
<1>2. CASE AnswerExisting(r, req[r].key) /\ UNCHANGED <<doc, jobs>>
  BY <1>1, <1>2, AnswerKeeps DEF Insert
<1>3. CASE Leave(r) /\ UNCHANGED <<doc, jobs, answers>>
  <2>1. TypeOK'
    BY <1>1, <1>3, LeaveGoes DEF Insert, TypeOK, Goes
  <2> QED BY <1>1, <1>3, <2>1, LeaveKeeps DEF Insert
<1>4. CASE /\ Active = {} /\ Keyed(req[r].key) = {} /\ Len(jobs) < MaxJobs
           /\ jobs' = Append(jobs, [status |-> "pending", key |-> req[r].key])
           /\ doc' = [doc EXCEPT !.status = Assign(@, req[r].seen.status, "draft"),
                                !.current = Len(jobs) + 1]
           /\ req' = [req EXCEPT ![r].pc = "dispatch", ![r].job = Len(jobs) + 1]
           /\ answers' = IF req[r].key = NoKey THEN answers
                         ELSE answers \cup {<<req[r].key, Len(jobs) + 1>>}
  <2> DEFINE n == Len(jobs) + 1
  <2>1. /\ jobs' \in Seq(Job) /\ Len(jobs') <= MaxJobs /\ n \in JobId
        /\ DOMAIN jobs' = DOMAIN jobs \cup {n} /\ n \notin DOMAIN jobs
        /\ jobs'[n] = [status |-> "pending", key |-> req[r].key]
        /\ \A i \in DOMAIN jobs : jobs'[i] = jobs[i]
    BY <1>1, <1>4, AppendType
  <2>2. Goes(r, "dispatch", n)
    BY <1>1, <1>4, InsertGoes
  <2>3. doc' \in Document
    <3>1. doc \in Document /\ n \in 0..MaxJobs
      BY <1>1, <2>1, AnalysisAssumption DEF TypeOK, JobId
    <3> DEFINE status == Assign(doc.status, req[r].seen.status, "draft")
    <3>2. status \in DocumentStatus
      BY <3>1 DEF Assign, Document, DocumentStatus
    <3>3. doc' = [doc EXCEPT !.status = status, !.current = n]
      BY <1>4
    <3> HIDE DEF status, n
    <3> QED BY <3>1, <3>2, <3>3 DEF Document
  <2> HIDE DEF n
  <2>4. answers' \subseteq Key \X JobId
    BY <1>1, <1>4, <2>1 DEF TypeOK, n
  <2>5. TypeOK'
    BY <1>1, <2>1, <2>2, <2>3, <2>4 DEF Insert, TypeOK, Goes
  <2>6. OneActiveJob'
    BY <1>4, <2>1 DEF OneActiveJob, Active
  <2>7. Keys'
    <3>1. \A i \in DOMAIN jobs : req[r].key # NoKey => jobs[i].key # req[r].key
      BY <1>4 DEF Keyed
    <3>2. \A i, j \in DOMAIN jobs' : jobs'[i].key = jobs'[j].key /\ jobs'[i].key # NoKey => i = j
      BY <2>1, <3>1 DEF IInv, Keys
    <3>3. \A a \in answers' : a \in answers \/ (a = <<req[r].key, n>>)
      BY <1>4 DEF n
    <3>4. \A a \in answers' : a[2] \in DOMAIN jobs' /\ jobs'[a[2]].key = a[1]
      BY <2>1, <3>3 DEF IInv, Keys
    <3> QED BY <3>2, <3>4 DEF Keys
  <2>8. chord[n] = "none"
    BY <2>1 DEF IInv, Queue
  <2>9. Queue'
    <3> SUFFICES ASSUME NEW j \in JobId
                 PROVE  /\ enqueued'[j] = IF chord'[j] = "none" THEN 0 ELSE 1
                        /\ j \notin DOMAIN jobs' => chord'[j] = "none"
                        /\ j \in taskId' \cup revoked' => chord'[j] # "none"
                        /\ chord'[j] = "over" \/ j \in revoked' => IsTerminal(jobs'[j].status)
      BY DEF Queue, Status
    <3>1. UNCHANGED <<chord, enqueued, taskId, revoked>>
      BY DEF Insert
    <3>2. chord[j] = "over" \/ j \in revoked => j \in DOMAIN jobs
      BY DEF IInv, Queue
    <3> QED BY <2>1, <3>1, <3>2 DEF IInv, Queue, Status
  <2>10. Requests'
    <3>1. \A p \in Req : req[p].pc \in Working => req[p].job # n
      BY <2>1 DEF IInv, Requests
    <3>2. UNCHANGED <<chord, taskId>>
      BY DEF Insert
    <3> QED BY <2>1, <2>2, <2>8, <3>1, <3>2 DEF IInv, Requests, Goes, Working, ToQueue, Status
  <2>11. NeverOrphaned'
    <3>1. UNCHANGED <<chord, crashes>>
      BY DEF Insert
    <3>2. req[r].pc \notin {"enqueue", "unavailable"}
      BY <1>1
    <3> QED BY <2>1, <2>2, <3>1, <3>2 DEF IInv, NeverOrphaned, Goes, Status
  <2> QED BY <2>5, <2>6, <2>7, <2>9, <2>10, <2>11 DEF IInv
<1> QED BY <1>2, <1>3, <1>4 DEF Insert

\* The status of job j changes; the other jobs, the queue and the answers do not.
Sets(j, status) ==
  /\ j \in DOMAIN jobs /\ status \in JobStatus /\ SetJob(j, status)
  /\ UNCHANGED <<enqueued, revoked, taskId, answers, crashes>>

LEMMA SetsShape ==
  ASSUME IInv, NEW j, NEW status, Sets(j, status)
  PROVE  /\ TypeOK /\ jobs' \in Seq(Job) /\ Len(jobs') <= MaxJobs /\ DOMAIN jobs' = DOMAIN jobs
         /\ j \in JobId /\ jobs'[j].status = status /\ jobs[j].status \in JobStatus
         /\ \A i \in DOMAIN jobs \ {j} : jobs'[i] = jobs[i]
         /\ Keys'
<1>1. TypeOK /\ j \in JobId /\ jobs[j].status \in JobStatus
  BY JobsType DEF IInv, Sets, Job
<1>2. /\ jobs' \in Seq(Job) /\ Len(jobs') = Len(jobs) /\ DOMAIN jobs' = DOMAIN jobs
      /\ jobs'[j].status = status
      /\ \A i \in DOMAIN jobs : jobs'[i].key = jobs[i].key
      /\ \A i \in DOMAIN jobs \ {j} : jobs'[i] = jobs[i]
  BY <1>1, SetJobType DEF Sets
<1>3. Keys'
  BY <1>2 DEF IInv, Keys, Sets
<1> QED BY <1>1, <1>2, <1>3 DEF TypeOK

\* Only a job that is active, or beside which none is, may become active.
LEMMA OneActiveKept ==
  ASSUME IInv, NEW j, NEW status, Sets(j, status), Active \subseteq {j} \/ IsTerminal(status)
  PROVE  OneActiveJob'
<1>1. \A i \in Active' : i \in Active \/ (i = j /\ Active \subseteq {j})
  BY SetsShape, Statuses DEF Active, Sets
<1> QED BY <1>1 DEF IInv, OneActiveJob

\* A request ends its job: _mark_queue_unavailable, cancel_job.
LEMMA EndKeeps ==
  ASSUME IInv, TypeOK', NEW r \in Req, NEW status \in JobTerminal, Sets(req[r].job, status),
         UNCHANGED chord, NEW pc \in {"idle", "revoke"}, NEW job, Goes(r, pc, job),
         pc = "revoke" => job = req[r].job /\ job \in taskId
  PROVE  IInv'
<1> DEFINE j == req[r].job
<1>1. IsTerminal(status)
  BY DEF IsTerminal
<1>2. /\ DOMAIN jobs' = DOMAIN jobs /\ jobs'[j].status = status /\ j \in DOMAIN jobs
      /\ \A i \in DOMAIN jobs \ {j} : jobs'[i] = jobs[i]
      /\ Keys'
  BY SetsShape DEF Sets
<1> HIDE DEF j
<1>3. OneActiveJob'
  BY <1>1, OneActiveKept
<1>4. UNCHANGED <<enqueued, revoked, taskId, answers, crashes>>
  BY DEF Sets
<1>5. \A i \in JobId : IsTerminal(jobs[i].status) /\ i \in DOMAIN jobs => IsTerminal(jobs'[i].status)
  BY <1>1, <1>2
<1>6. Queue'
  BY <1>2, <1>4, <1>5 DEF IInv, Queue, Status
<1>7. Requests'
  <2>1. \A p \in Req : req'[p].pc = "revoke" => IsTerminal(jobs'[req'[p].job].status)
    <3> SUFFICES ASSUME NEW p \in Req, req'[p].pc = "revoke"
                 PROVE  IsTerminal(jobs'[req'[p].job].status)
      OBVIOUS
    <3>1. CASE p = r
      BY <1>1, <1>2, <3>1 DEF Goes, j
    <3>2. CASE p # r
      <4>1. req'[p] = req[p] /\ req[p].job \in DOMAIN jobs /\ IsTerminal(jobs[req[p].job].status)
        BY <3>2 DEF IInv, Requests, Working, Goes, Status
      <4> QED BY <1>1, <1>2, <4>1
    <3> QED BY <3>1, <3>2
  <2>2. pc \in Working => job \in DOMAIN jobs'
    BY <1>2 DEF Working, ToQueue, j
  <2> QED BY <1>2, <1>4, <2>1, <2>2 DEF IInv, Requests, Goes, ToQueue, Status
<1>8. NeverOrphaned'
  <2> SUFFICES ASSUME NEW i \in DOMAIN jobs, jobs'[i].status \in {"dispatched", "processing"},
                      chord[i] = "none", ~(crashes > 0)
               PROVE  \E q \in Req : req'[q].job = i /\ req'[q].pc \in {"enqueue", "unavailable"}
    BY <1>2, <1>4 DEF NeverOrphaned, Status
  <2>1. i # j /\ jobs[i].status \in {"dispatched", "processing"}
    BY <1>2 DEF JobTerminal
  <2>2. PICK q \in Req : req[q].job = i /\ req[q].pc \in {"enqueue", "unavailable"}
    BY <2>1 DEF IInv, NeverOrphaned, Status
  <2> QED BY <2>1, <2>2 DEF Goes, j
<1> QED BY <1>2, <1>3, <1>6, <1>7, <1>8 DEF IInv

LEMMA MarkUnavailableKeeps == ASSUME IInv, NEW r \in Req, MarkUnavailable(r) PROVE IInv'
<1> USE DEF worker
<1>1. TypeOK /\ req[r].pc = "unavailable" /\ req[r].seen \in Document /\ req[r].job \in DOMAIN jobs
  BY DEF IInv, TypeOK, MarkUnavailable, Request, Requests, Working
<1>2. Sets(req[r].job, "failed") /\ "failed" \in JobTerminal
  BY <1>1, Statuses DEF Sets, MarkUnavailable, JobTerminal
<1>3. doc' \in Document
  BY <1>1, FollowType DEF MarkUnavailable, DocumentStatus
<1>4. Goes(r, "idle", NoJob)
  BY <1>1, LeaveGoes DEF MarkUnavailable
<1>5. TypeOK'
  BY <1>1, <1>2, <1>3, <1>4, SetsShape DEF MarkUnavailable, TypeOK, Goes
<1> QED BY <1>2, <1>4, <1>5, EndKeeps DEF MarkUnavailable

LEMMA CancelKeeps == ASSUME IInv, NEW r \in Req, Cancel(r) PROVE IInv'
<1> USE DEF worker
<1>1. /\ TypeOK /\ req[r].pc \in {"cancelling", "cancelling_known"} /\ req[r].seen \in Document
      /\ req[r].job \in DOMAIN jobs
      /\ req[r].pc = "cancelling_known" => req[r].job \in taskId
  BY DEF IInv, TypeOK, Cancel, Request, Requests, Working
<1>2. Sets(req[r].job, "cancelled") /\ "cancelled" \in JobTerminal
  BY <1>1, Statuses DEF Sets, Cancel, JobTerminal
<1>3. doc' \in Document
  BY <1>1, FollowType DEF Cancel, DocumentStatus
<1>4. CASE req[r].pc = "cancelling"
  <2>1. Goes(r, "idle", NoJob)
    BY <1>1, <1>4, LeaveGoes DEF Cancel
  <2>2. TypeOK'
    BY <1>1, <1>2, <1>3, <2>1, SetsShape DEF Cancel, TypeOK, Goes
  <2> QED BY <1>2, <2>1, <2>2, EndKeeps DEF Cancel
<1>5. CASE req[r].pc = "cancelling_known"
  <2>1. Goes(r, "revoke", req[r].job)
    BY <1>1, <1>5, MoveGoes DEF Cancel, Place
  <2>2. TypeOK'
    BY <1>1, <1>2, <1>3, <2>1, SetsShape DEF Cancel, TypeOK, Goes
  <2> QED BY <1>1, <1>2, <1>5, <2>1, <2>2, EndKeeps DEF Cancel
<1> QED BY <1>1, <1>4, <1>5

LEMMA DispatchKeeps == ASSUME IInv, NEW r \in Req, Dispatch(r) PROVE IInv'
<1> USE DEF worker
<1> DEFINE j == req[r].job
           seen == req[r].seen
<1>1. /\ TypeOK /\ req[r].pc = "dispatching" /\ seen \in Document /\ crashes' >= crashes
      /\ j \in DOMAIN jobs /\ chord[j] = "none"
  BY DEF IInv, TypeOK, Dispatch, Request, Requests, Working, ToQueue
<1>2. CASE Leave(r) /\ UNCHANGED <<doc, jobs>>
  <2>1. TypeOK'
    BY <1>1, <1>2, LeaveGoes DEF Dispatch, TypeOK, Goes
  <2> QED BY <1>1, <1>2, <2>1, LeaveKeeps DEF Dispatch
<1>3. CASE /\ Active \subseteq {j} /\ SetJob(j, "dispatched") /\ Follow(seen, j, "in_progress")
           /\ req' = [req EXCEPT ![r].pc = "enqueue",
                                 ![r].seen.status = IF Follows(seen, j) THEN "in_progress" ELSE @]
  <2>1. Sets(j, "dispatched")
    BY <1>1, <1>3, Statuses DEF Sets, Dispatch
  <2>2. /\ jobs' \in Seq(Job) /\ Len(jobs') <= MaxJobs /\ DOMAIN jobs' = DOMAIN jobs
        /\ j \in JobId /\ \A i \in DOMAIN jobs \ {j} : jobs'[i] = jobs[i]
        /\ Keys'
    BY <2>1, SetsShape
  <2>3. doc' \in Document
    BY <1>1, <1>3, FollowType DEF DocumentStatus
  <2>4. Goes(r, "enqueue", j)
    <3> DEFINE status == IF Follows(seen, j) THEN "in_progress" ELSE seen.status
    <3>1. status \in DocumentStatus
      BY <1>1 DEF Document, DocumentStatus
    <3>2. req' = [req EXCEPT ![r].pc = "enqueue", ![r].seen.status = status]
      BY <1>1, <1>3 DEF TypeOK, Request, Document
    <3> HIDE DEF status
    <3> QED BY <1>1, <3>1, <3>2, DispatchGoes
  <2>5. OneActiveJob'
    BY <1>3, <2>1, OneActiveKept
  <2> HIDE DEF j, seen
  <2>6. UNCHANGED <<sugg, worker, revoked, taskId, enqueued, answers, served, crashes>>
    BY DEF Dispatch
  <2>7. TypeOK'
    BY <1>1, <2>2, <2>3, <2>4, <2>6 DEF TypeOK, Goes
  <2>8. j \notin taskId \cup revoked
    BY <1>1, <2>2 DEF IInv, Queue
  <2>9. Queue'
    BY <1>1, <2>2, <2>6, <2>8 DEF IInv, Queue, Status
  <2>10. Requests'
    <3>1. \A p \in Req : req[p].pc = "revoke" => req[p].job # j
      BY <2>8 DEF IInv, Requests
    <3>2. \A p \in Req : req'[p].pc = "revoke" => IsTerminal(jobs'[req'[p].job].status)
      <4> SUFFICES ASSUME NEW p \in Req, req'[p].pc = "revoke"
                   PROVE  IsTerminal(jobs'[req'[p].job].status)
        OBVIOUS
      <4>1. p # r /\ req'[p] = req[p] /\ req[p].job \in DOMAIN jobs
        BY <2>4 DEF Goes, IInv, Requests, Working
      <4> QED BY <2>2, <3>1, <4>1 DEF IInv, Requests, Status
    <3>3. j = req[r].job
      BY DEF j
    <3> QED BY <1>1, <2>2, <2>4, <2>6, <3>2, <3>3 DEF IInv, Requests, Goes, Working, ToQueue, Status
  <2>11. NeverOrphaned'
    <3> SUFFICES ASSUME NEW i \in DOMAIN jobs, jobs'[i].status \in {"dispatched", "processing"},
                        chord[i] = "none", ~(crashes > 0)
                 PROVE  \E q \in Req : req'[q].job = i /\ req'[q].pc \in {"enqueue", "unavailable"}
      BY <2>2, <2>6 DEF NeverOrphaned, Status
    <3>1. CASE i = j
      BY <2>4, <3>1 DEF Goes
    <3>2. CASE i # j
      <4>1. PICK q \in Req : req[q].job = i /\ req[q].pc \in {"enqueue", "unavailable"}
        BY <2>2, <3>2 DEF IInv, NeverOrphaned, Status
      <4> QED BY <1>1, <2>4, <4>1 DEF Goes
    <3> QED BY <3>1, <3>2
  <2> QED BY <2>2, <2>5, <2>7, <2>9, <2>10, <2>11 DEF IInv
<1> QED BY <1>2, <1>3 DEF Dispatch

\* The job is handed to the queue by the one request that may.
LEMMA PublishKeeps ==
  ASSUME IInv, TypeOK', NEW r \in Req, req[r].pc = "enqueue", Publish(req[r].job),
         NEW pc \in {"task_id", "unavailable"}, Move(r, pc),
         UNCHANGED <<jobs, revoked, taskId, answers, crashes>>
  PROVE  IInv'
<1> DEFINE j == req[r].job
<1>1. TypeOK /\ j \in DOMAIN jobs /\ j \in JobId /\ chord[j] = "none"
  BY JobsType DEF IInv, Requests, Working, ToQueue
<1>2. /\ chord'[j] \in {"running", "empty"} /\ enqueued'[j] = enqueued[j] + 1
      /\ \A i \in JobId \ {j} : chord'[i] = chord[i] /\ enqueued'[i] = enqueued[i]
  BY <1>1, PublishType
<1>3. Goes(r, pc, j)
  BY <1>1, MoveGoes DEF Place
<1>4. OneActiveJob' /\ Keys'
  BY DEF IInv, OneActiveJob, Active, Keys
<1>5. \A p \in Req \ {r} : req[p].pc \in ToQueue => req[p].job # j
  BY DEF IInv, Requests, ToQueue
<1>6. \A p \in Req : req[p].pc \in Working => req[p].job \in JobId
  BY <1>1, JobsType DEF IInv, Requests
<1> HIDE DEF j
<1>7. Queue'
  BY <1>1, <1>2 DEF IInv, Queue, Status
<1>8. Requests'
  <2>1. \A p \in Req : req'[p].pc \in ToQueue => p # r /\ req'[p] = req[p]
    BY <1>3 DEF Goes, ToQueue
  <2>2. \A p \in Req : req'[p].pc \in ToQueue => chord'[req'[p].job] = "none"
    BY <1>2, <1>5, <1>6, <2>1 DEF IInv, Requests, Working
  <2>3. \A p \in Req : req'[p].pc = "task_id" => chord'[req'[p].job] # "none"
    <3> SUFFICES ASSUME NEW p \in Req, req'[p].pc = "task_id"
                 PROVE  chord'[req'[p].job] # "none"
      OBVIOUS
    <3>1. CASE req'[p].job = j
      BY <1>2, <3>1
    <3>2. CASE req'[p].job # j
      <4>1. req'[p] = req[p]
        BY <1>3, <3>2 DEF Goes
      <4>2. req[p].job \in JobId /\ chord[req[p].job] # "none"
        BY <1>6, <4>1 DEF IInv, Requests, Working
      <4> QED BY <1>2, <3>2, <4>1, <4>2
    <3> QED BY <3>1, <3>2
  <2>4. \A p \in Req : req'[p].pc \in Working => req'[p].job \in DOMAIN jobs'
    BY <1>1, <1>3 DEF IInv, Requests, Goes
  <2>5. /\ \A p \in Req : req'[p].pc \in {"cancel_known", "cancelling_known", "revoke"} =>
                            req'[p].job \in taskId'
        /\ \A p \in Req : req'[p].pc = "revoke" => IsTerminal(jobs'[req'[p].job].status)
    BY <1>3 DEF IInv, Requests, Goes, Status
  <2>6. \A p, q \in Req :
          req'[p].pc \in ToQueue /\ req'[q].pc \in ToQueue /\ req'[p].job = req'[q].job => p = q
    BY <2>1 DEF IInv, Requests
  <2> QED BY <2>2, <2>3, <2>4, <2>5, <2>6 DEF Requests, Status
<1>9. NeverOrphaned'
  <2> SUFFICES ASSUME NEW i \in DOMAIN jobs, jobs[i].status \in {"dispatched", "processing"},
                      chord'[i] = "none", ~(crashes > 0)
               PROVE  \E q \in Req : req'[q].job = i /\ req'[q].pc \in {"enqueue", "unavailable"}
    BY DEF NeverOrphaned, Status
  <2>1. i # j /\ chord[i] = "none"
    BY <1>1, <1>2, JobsType
  <2>2. PICK q \in Req : req[q].job = i /\ req[q].pc \in {"enqueue", "unavailable"}
    BY <2>1 DEF IInv, NeverOrphaned, Status
  <2> QED BY <1>3, <2>1, <2>2 DEF Goes, j
<1> QED BY <1>4, <1>7, <1>8, <1>9 DEF IInv

LEMMA EnqueueKeeps == ASSUME IInv, NEW r \in Req, Enqueue(r) PROVE IInv'
<1>1. TypeOK /\ req[r].pc = "enqueue" /\ req[r].job \in JobId
  BY JobsType DEF IInv, Enqueue, Requests, Working, ToQueue
<1>2. Goes(r, "task_id", req[r].job)
  BY <1>1, MoveGoes DEF Enqueue, Place
<1>3. TypeOK'
  BY <1>1, <1>2, PublishType DEF Enqueue, TypeOK, Goes
<1> QED BY <1>1, <1>3, PublishKeeps DEF Enqueue

LEMMA EnqueueFailsKeeps == ASSUME IInv, NEW r \in Req, EnqueueFails(r) PROVE IInv'
<1>1. /\ TypeOK /\ req[r].pc = "enqueue" /\ req[r].job \in JobId /\ req[r].job \in DOMAIN jobs
      /\ crashes' >= crashes
  BY JobsType DEF IInv, EnqueueFails, Requests, Working, ToQueue, TypeOK
<1>2. Goes(r, "unavailable", req[r].job)
  BY <1>1, MoveGoes DEF EnqueueFails, Place
<1>3. CASE Publish(req[r].job)
  <2>1. TypeOK'
    BY <1>1, <1>2, <1>3, PublishType DEF EnqueueFails, TypeOK, Goes
  <2> QED BY <1>1, <1>3, <2>1, PublishKeeps DEF EnqueueFails
<1>4. CASE UNCHANGED <<chord, enqueued>>
  <2>1. TypeOK'
    BY <1>1, <1>2, <1>4 DEF EnqueueFails, TypeOK, Goes
  <2> QED BY <1>1, <1>2, <1>4, <2>1, QuietKeeps DEF EnqueueFails, Working, ToQueue
<1> QED BY <1>3, <1>4 DEF EnqueueFails

-----------------------------------------------------------------------------
(* The workers.                                                            *)

\* Only the state of the chord of a job in the queue changes, and perhaps its status: an
\* ended job stays ended, and a job becomes active only if no other one is.
LEMMA ChordKeeps ==
  ASSUME IInv, TypeOK', NEW j \in DOMAIN jobs, chord[j] # "none", chord'[j] # "none",
         \A i \in JobId \ {j} : chord'[i] = chord[i],
         UNCHANGED <<req, enqueued, revoked, taskId, answers, crashes>>,
         OneActiveJob', Keys', DOMAIN jobs' = DOMAIN jobs,
         \A i \in DOMAIN jobs \ {j} : jobs'[i] = jobs[i],
         chord'[j] = "over" => IsTerminal(jobs'[j].status),
         IsTerminal(Status(j)) => IsTerminal(jobs'[j].status)
  PROVE  IInv'
<1>1. j \in JobId /\ DOMAIN jobs \subseteq JobId
  BY JobsType DEF IInv
<1>2. \A i \in JobId : (chord'[i] = "none") <=> (chord[i] = "none")
  OBVIOUS
<1>3. Queue'
  <2> SUFFICES ASSUME NEW i \in JobId
               PROVE  /\ enqueued[i] = IF chord'[i] = "none" THEN 0 ELSE 1
                      /\ i \notin DOMAIN jobs => chord'[i] = "none"
                      /\ i \in taskId \cup revoked => chord'[i] # "none"
                      /\ chord'[i] = "over" \/ i \in revoked => IsTerminal(jobs'[i].status)
    BY DEF Queue, Status
  <2>1. chord[i] # "none" => i \in DOMAIN jobs
    BY DEF IInv, Queue
  <2>2. chord'[i] = "over" \/ i \in revoked => IsTerminal(jobs'[i].status)
    <3>1. CASE i = j
      BY <3>1 DEF IInv, Queue
    <3>2. CASE i # j
      BY <2>1, <3>2 DEF IInv, Queue, Status
    <3> QED BY <3>1, <3>2
  <2> QED BY <1>2, <2>1, <2>2 DEF IInv, Queue
<1>4. Requests'
  <2>1. \A p \in Req : req[p].pc \in Working => req[p].job \in JobId
    BY <1>1 DEF IInv, Requests
  <2>2. \A p \in Req : req[p].pc = "revoke" => IsTerminal(jobs'[req[p].job].status)
    <3> SUFFICES ASSUME NEW p \in Req, req[p].pc = "revoke"
                 PROVE  IsTerminal(jobs'[req[p].job].status)
      OBVIOUS
    <3>1. req[p].job \in DOMAIN jobs /\ IsTerminal(Status(req[p].job))
      BY DEF IInv, Requests, Working
    <3> QED BY <3>1 DEF Status
  <2> QED BY <1>2, <2>1, <2>2 DEF IInv, Requests, Working, ToQueue, Status
<1>5. NeverOrphaned'
  BY <1>1, <1>2 DEF IInv, NeverOrphaned, Status
<1> QED BY <1>3, <1>4, <1>5 DEF IInv

\* A step of the workers that writes no job.
LEMMA WaitKeeps ==
  ASSUME IInv, TypeOK', NEW j \in DOMAIN jobs, chord[j] # "none", chord'[j] # "none",
         \A i \in JobId \ {j} : chord'[i] = chord[i],
         UNCHANGED <<jobs, req, enqueued, revoked, taskId, answers, crashes>>,
         chord'[j] = "over" => IsTerminal(Status(j))
  PROVE  IInv'
<1>1. OneActiveJob' /\ Keys'
  BY DEF IInv, OneActiveJob, Active, Keys
<1> QED BY <1>1, ChordKeeps DEF Status

LEMMA MarkProcessingKeeps ==
  ASSUME IInv, NEW j \in DOMAIN jobs, MarkProcessing(j) PROVE IInv'
<1>1. /\ TypeOK /\ j \in JobId /\ j \in Active /\ chord[j] # "none" /\ UNCHANGED chord
  BY JobsType DEF IInv, MarkProcessing
<1>2. Sets(j, "processing")
  BY <1>1, Statuses DEF Sets, MarkProcessing
<1>3. /\ jobs' \in Seq(Job) /\ Len(jobs') <= MaxJobs /\ DOMAIN jobs' = DOMAIN jobs
      /\ \A i \in DOMAIN jobs \ {j} : jobs'[i] = jobs[i]
      /\ Keys'
  BY <1>2, SetsShape
<1>4. OneActiveJob'
  BY <1>1, <1>2, OneActiveKept DEF IInv, OneActiveJob
<1>5. TypeOK'
  BY <1>1, <1>3 DEF MarkProcessing, TypeOK
<1>6. ~IsTerminal(Status(j))
  BY <1>1, Statuses DEF Active, Status
<1>7. chord'[j] # "over"
  BY <1>1, <1>6 DEF IInv, Queue
<1> QED BY <1>1, <1>3, <1>4, <1>5, <1>6, <1>7, ChordKeeps DEF MarkProcessing

LEMMA SubtaskAnswersKeeps ==
  ASSUME IInv, NEW j \in DOMAIN jobs, SubtaskAnswers(j) PROVE IInv'
<1>1. TypeOK /\ j \in JobId /\ chord[j] = "running" /\ UNCHANGED chord
  BY JobsType DEF IInv, SubtaskAnswers
<1>2. sugg' \in [JobId -> {"none", "pending", "decided"}]
  BY <1>1 DEF SubtaskAnswers, TypeOK
<1>3. results' \in [JobId -> SUBSET {"ok", "failed", "cancelled"}]
  <2>1. results[j] \in SUBSET {"ok", "failed", "cancelled"}
    BY <1>1 DEF TypeOK
  <2>2. PICK kind \in {"ok", "failed", "cancelled"} :
          results' = [results EXCEPT ![j] = results[j] \cup {kind}]
    BY DEF SubtaskAnswers
  <2>3. results[j] \cup {kind} \in SUBSET {"ok", "failed", "cancelled"}
    BY <2>1
  <2> QED BY <1>1, <2>2, <2>3 DEF TypeOK
<1>4. TypeOK'
  BY <1>1, <1>2, <1>3 DEF SubtaskAnswers, TypeOK
<1> QED BY <1>1, <1>4, WaitKeeps DEF SubtaskAnswers

LEMMA LoseSubtaskKeeps ==
  ASSUME IInv, NEW j \in DOMAIN jobs, LoseSubtask(j) PROVE IInv'
<1>1. TypeOK /\ j \in JobId /\ chord[j] = "running" /\ chord'[j] = "lost"
  BY JobsType DEF IInv, LoseSubtask, TypeOK
<1>2. TypeOK'
  BY <1>1 DEF LoseSubtask, TypeOK
<1> QED BY <1>1, <1>2, WaitKeeps DEF LoseSubtask, TypeOK

LEMMA FinalizeFailsKeeps ==
  ASSUME IInv, NEW j \in DOMAIN jobs, FinalizeFails(j) PROVE IInv'
<1>1. TypeOK /\ j \in JobId /\ chord[j] # "none" /\ chord'[j] = "lost"
  BY JobsType DEF IInv, FinalizeFails, HeaderDone, TypeOK
<1>2. TypeOK'
  BY <1>1 DEF FinalizeFails, TypeOK
<1> QED BY <1>1, <1>2, WaitKeeps DEF FinalizeFails, TypeOK

LEMMA ReadForFinalizeKeeps ==
  ASSUME IInv, NEW j \in DOMAIN jobs, ReadForFinalize(j) PROVE IInv'
<1>1. /\ TypeOK /\ j \in JobId /\ chord[j] # "none" /\ doc \in Document
  BY JobsType DEF IInv, ReadForFinalize, HeaderDone, TypeOK
<1>2. PICK state \in {"over", "finalizing"} :
        chord' = [chord EXCEPT ![j] = state] /\ (state = "over" => IsTerminal(Status(j)))
  BY DEF ReadForFinalize, Status
<1>3. /\ chord'[j] = state /\ \A i \in JobId \ {j} : chord'[i] = chord[i]
      /\ chord' \in [JobId -> {"none", "running", "empty", "finalizing", "over", "lost"}]
  BY <1>1, <1>2 DEF TypeOK
<1>4. loaded' \in [JobId -> Document]
  BY <1>1 DEF ReadForFinalize, TypeOK
<1>5. TypeOK'
  BY <1>1, <1>3, <1>4 DEF ReadForFinalize, TypeOK
<1> QED BY <1>1, <1>2, <1>3, <1>5, WaitKeeps DEF ReadForFinalize

LEMMA DropFinalizeKeeps ==
  ASSUME IInv, NEW j \in DOMAIN jobs, DropFinalize(j) PROVE IInv'
<1>1. /\ TypeOK /\ j \in JobId /\ chord[j] # "none" /\ IsTerminal(Status(j))
  BY JobsType DEF IInv, DropFinalize, HeaderDone, Queue
<1>2. chord'[j] = "over" /\ \A i \in JobId \ {j} : chord'[i] = chord[i]
  BY <1>1 DEF DropFinalize, TypeOK
<1>3. TypeOK'
  BY <1>1 DEF DropFinalize, TypeOK
<1> QED BY <1>1, <1>2, <1>3, WaitKeeps DEF DropFinalize

LEMMA FinalizeKeeps ==
  ASSUME IInv, NEW j \in DOMAIN jobs, Finalize(j) PROVE IInv'
<1> DEFINE status == Outcome(results[j])
           target == DocumentStatusFor(status, sugg[j] = "pending")
<1>1. TypeOK /\ j \in JobId /\ chord[j] = "finalizing" /\ loaded[j] \in Document
  BY JobsType DEF IInv, Finalize, TypeOK
<1>2. status \in JobTerminal /\ target \in DocumentStatus
  BY <1>1, OutcomeType, DocumentStatusForType DEF TypeOK
<1>3. CASE /\ SetJob(j, status) /\ Follow(loaded[j], j, target)
           /\ chord' = [chord EXCEPT ![j] = "over"]
  <2>1. doc' \in Document
    BY <1>1, <1>2, <1>3, FollowType
  <2> HIDE DEF status, target
  <2>2. IsTerminal(status) /\ status \in JobStatus
    BY <1>2, Statuses DEF IsTerminal
  <2>3. Sets(j, status)
    BY <1>3, <2>2 DEF Sets, Finalize
  <2>4. /\ jobs' \in Seq(Job) /\ Len(jobs') <= MaxJobs /\ DOMAIN jobs' = DOMAIN jobs
        /\ jobs'[j].status = status /\ \A i \in DOMAIN jobs \ {j} : jobs'[i] = jobs[i]
        /\ Keys'
    BY <2>3, SetsShape
  <2>5. OneActiveJob'
    BY <2>2, <2>3, OneActiveKept
  <2>6. chord'[j] = "over" /\ \A i \in JobId \ {j} : chord'[i] = chord[i]
    BY <1>1, <1>3 DEF TypeOK
  <2>7. TypeOK'
    BY <1>1, <1>3, <2>1, <2>4 DEF Finalize, TypeOK
  <2> QED BY <1>1, <2>2, <2>4, <2>5, <2>6, <2>7, ChordKeeps DEF Finalize
<1>4. CASE chord' = [chord EXCEPT ![j] = "lost"] /\ UNCHANGED <<doc, jobs>>
  <2>1. TypeOK'
    BY <1>1, <1>4 DEF Finalize, TypeOK
  <2>2. chord'[j] = "lost" /\ \A i \in JobId \ {j} : chord'[i] = chord[i]
    BY <1>1, <1>4 DEF TypeOK
  <2> QED BY <1>1, <1>4, <2>1, <2>2, WaitKeeps DEF Finalize
<1> QED BY <1>3, <1>4 DEF Finalize

-----------------------------------------------------------------------------
(* The theorems.                                                           *)

LEMMA RequestKeeps ==
  ASSUME IInv, NEW r \in Req,
         Start(r) \/ CancelJob(r) \/ ReadForReset(r) \/ ReadForReview(r) \/ Serve(r) \/ Die(r)
  PROVE  IInv'
<1>1. CASE ReadForReset(r)
  BY <1>1, ReadDocumentKeeps DEF ReadForReset
<1>2. CASE ReadForReview(r)
  BY <1>2, ReadDocumentKeeps DEF ReadForReview
<1>3. CASE Serve(r)
  BY <1>3, CheckActiveKeeps, InsertKeeps, ReadForDispatchKeeps, DispatchKeeps, EnqueueKeeps,
     EnqueueFailsKeeps, MarkUnavailableKeeps, SetTaskIdKeeps, CancelDocumentKeeps, CancelKeeps,
     RevokeKeeps, ResetAnalysisKeeps, SaveReviewKeeps DEF Serve
<1> QED BY <1>1, <1>2, <1>3, StartKeeps, CancelJobKeeps, DieKeeps

LEMMA RunKeeps ==
  ASSUME IInv, NEW j \in DOMAIN jobs, Run(j) \/ Lose(j)
  PROVE  IInv'
BY MarkProcessingKeeps, SubtaskAnswersKeeps, ReadForFinalizeKeeps, DropFinalizeKeeps,
   FinalizeKeeps, LoseSubtaskKeeps, FinalizeFailsKeeps DEF Run, Lose

LEMMA StutterKeeps == ASSUME IInv, UNCHANGED vars PROVE IInv'
BY DEF IInv, vars, worker, TypeOK, OneActiveJob, Active, Keys, Queue, Requests, NeverOrphaned,
       Status, IsTerminal

LEMMA Inductive == IInv /\ [Next]_vars => IInv'
<1> SUFFICES ASSUME IInv, [Next]_vars PROVE IInv'
  OBVIOUS
<1>1. CASE \E r \in Req : \/ Start(r) \/ CancelJob(r) \/ ReadForReset(r) \/ ReadForReview(r)
                          \/ Serve(r) \/ Die(r)
  BY <1>1, RequestKeeps
<1>2. CASE \E j \in DOMAIN jobs : Run(j) \/ Lose(j)
  BY <1>2, RunKeeps
<1>3. CASE UNCHANGED vars
  BY <1>3, StutterKeeps
<1> QED BY <1>1, <1>2, <1>3 DEF Next

LEMMA InitInv == Init => IInv
<1> SUFFICES ASSUME Init PROVE IInv
  OBVIOUS
<1>1. TypeOK
  BY InitType
<1>2. DOMAIN jobs = {} /\ answers = {}
  BY DEF Init
<1>3. OneActiveJob /\ Keys /\ NeverOrphaned
  BY <1>2 DEF OneActiveJob, Active, Keys, NeverOrphaned
<1>4. Queue
  BY <1>2 DEF Init, Queue
<1>5. Requests
  <2>1. \A r \in Req : req[r].pc = "idle"
    BY IdleType DEF Init
  <2> QED BY <2>1 DEF Requests, Working, ToQueue
<1> QED BY <1>1, <1>3, <1>4, <1>5 DEF IInv

LEMMA Invariant == Spec => []IInv
BY InitInv, Inductive, PTL DEF Spec

\* The rows, the requests and the chords keep their types: every loaded object, every
\* status a stale object is written with and every job a request works on is a real one.
THEOREM TypeCorrect == Spec => []TypeOK
<1>1. IInv => TypeOK
  BY DEF IInv
<1> QED BY <1>1, Invariant, PTL

\* A document never has two active analyses: the partial unique index decides at the
\* commit of create_job and of dispatch_job, the conditional UPDATE in the workers.
THEOREM OneActive == Spec => []OneActiveJob
<1>1. IInv => OneActiveJob
  BY DEF IInv
<1> QED BY <1>1, Invariant, PTL

\* No job is handed to the queue twice: of all requests answered with a job only the one
\* that created it goes on to dispatch_job.
THEOREM QueuedOnce == Spec => []EnqueuedOnce
<1>1. IInv => EnqueuedOnce
  BY DEF IInv, Queue, EnqueuedOnce
<1> QED BY <1>1, Invariant, PTL

\* One Idempotency-Key, one job, for every request that is ever answered with the key.
THEOREM KeyAnswersOnce == Spec => []SameKeySameJob
<1>1. IInv => SameKeySameJob
  <2> SUFFICES ASSUME IInv, NEW a \in answers, NEW b \in answers, a[1] = b[1]
               PROVE  a[2] = b[2]
    BY DEF SameKeySameJob
  <2>1. a[1] # NoKey
    BY AnalysisAssumption DEF IInv, TypeOK
  <2> QED BY <2>1 DEF IInv, Keys
<1> QED BY <1>1, Invariant, PTL

\* Unless an API process died, a dispatched job is in the queue, or its request is still
\* about to put it there or to mark it failed.
THEOREM NeverWaitsInVain == Spec => []NeverOrphaned
<1>1. IInv => NeverOrphaned
  BY DEF IInv
<1> QED BY <1>1, Invariant, PTL

\* A job whose finalising task is over has ended: no late duplicate of a subtask, no slow
\* request makes it active again.
THEOREM FinalIsFinal == Spec => []FinalizedIsTerminal
<1>1. IInv => FinalizedIsTerminal
  BY DEF IInv, Queue, FinalizedIsTerminal
<1> QED BY <1>1, Invariant, PTL

-----------------------------------------------------------------------------
(* One client at a time.                                                   *)

\* One client, who does not cancel, and a broker whose errors are true.
OneClient == (\A r, q \in Req : r = q) /\ "cancel" \notin Ops /\ ~LosesAnswers

\* Only the current job can be active; a job is in the queue from its dispatch to its
\* end; whoever finalises it has loaded the document in progress.
Rows ==
  /\ doc.current # NoJob => doc.current \in DOMAIN jobs
  /\ \A j \in Active : j = doc.current
  /\ \A j \in DOMAIN jobs : IsTerminal(Status(j)) => chord[j] \in {"none", "over"}
  /\ \A j \in DOMAIN jobs : Status(j) = "pending" => chord[j] = "none"
  /\ \A j \in JobId : chord[j] = "finalizing" =>
       loaded[j].status = "in_progress" /\ loaded[j].current = j

\* What the client has loaded is still so: no worker writes a document that is not in
\* progress, and nobody else writes its job before it is in the queue.
Client(r) ==
  LET q == req[r] IN
  /\ q.pc \notin {"cancel", "cancel_known", "cancelling", "cancelling_known", "revoke"}
  /\ q.pc \in {"check", "insert", "dispatching", "resetting", "reviewing"} => q.seen = doc
  /\ q.pc \in {"check", "insert"} => CanStartAnalysis(doc.status)
  /\ q.pc \in {"dispatch", "dispatching"} => q.job = doc.current /\ Status(q.job) = "pending"
  /\ q.pc \in {"enqueue", "unavailable"} =>
       /\ q.job = doc.current /\ Status(q.job) = "dispatched" /\ chord[q.job] = "none"
       /\ q.seen.current = q.job /\ q.seen.status = "in_progress"
  /\ q.pc \in {"resetting", "reviewing"} =>
       q.job = doc.current /\ q.job # NoJob /\ CanResetReview(doc.status)

Serial == Rows /\ DocFollowsJob /\ \A r \in Req : Client(r)

\* DocFollowsJob, case by case.
LEMMA Followed ==
  DocFollowsJob <=>
    (doc.current # NoJob =>
       /\ CurrentStatus \in {"dispatched", "processing"} => doc.status = "in_progress"
       /\ CurrentStatus \in {"success", "partial_success"} => doc.status \in {"awaiting_approval", "ready"}
       /\ CurrentStatus \notin {"dispatched", "processing", "success", "partial_success"} =>
            doc.status = "draft")
BY DEF DocFollowsJob

LEMMA SameRows ==
  ASSUME Rows, DocFollowsJob, UNCHANGED <<doc, jobs, chord, loaded>>
  PROVE  Rows' /\ DocFollowsJob'
BY DEF Rows, DocFollowsJob, CurrentStatus, Status, Active, IsTerminal, IsActive

LEMMA ClientAtRest ==
  ASSUME NEW r \in Req, req'[r].pc \in {"idle", "task_id"}
  PROVE  Client(r)'
BY DEF Client

LEMMA LeaveRests ==
  ASSUME TypeOK, NEW r \in Req, Leave(r)
  PROVE  Client(r)'
BY LeaveGoes, ClientAtRest DEF Goes

\* A request that begins with a place, a job and a document.
LEMMA BeginsWith ==
  ASSUME TypeOK, NEW r \in Req, NEW q, Enter(r, q)
  PROVE  req'[r] = q
BY DEF TypeOK, Enter

LEMMA StartAlone ==
  ASSUME IInv, Rows, DocFollowsJob, NEW r \in Req, Start(r)
  PROVE  Rows' /\ DocFollowsJob' /\ Client(r)'
<1> USE DEF worker
<1>1. TypeOK /\ UNCHANGED <<doc, jobs, chord, loaded>>
  BY DEF IInv, Start
<1>2. Rows' /\ DocFollowsJob'
  BY <1>1, SameRows
<1>3. PICK key \in Key \cup {NoKey}, force \in ForceFlag :
       \/ AnswerExisting(r, key)
       \/ /\ CanStartAnalysis(doc.status)
          /\ Enter(r, [Idle EXCEPT !.pc = "check", !.key = key, !.force = force, !.seen = doc])
  BY DEF Start
<1>4. CASE AnswerExisting(r, key)
  BY <1>1, <1>2, <1>4, LeaveRests DEF AnswerExisting
<1>5. CASE /\ CanStartAnalysis(doc.status)
           /\ Enter(r, [Idle EXCEPT !.pc = "check", !.key = key, !.force = force, !.seen = doc])
  <2> DEFINE q == [Idle EXCEPT !.pc = "check", !.key = key, !.force = force, !.seen = doc]
  <2>1. q.pc = "check"
    BY DEF Idle
  <2>2. q.seen = doc
    BY DEF Idle
  <2> HIDE DEF q
  <2>3. req'[r] = q
    BY <1>1, <1>5, BeginsWith DEF q
  <2> QED BY <1>1, <1>2, <1>5, <2>1, <2>2, <2>3 DEF Client
<1> QED BY <1>3, <1>4, <1>5

LEMMA ReadAlone ==
  ASSUME IInv, Rows, DocFollowsJob, NEW r \in Req, ReadForReset(r) \/ ReadForReview(r)
  PROVE  Rows' /\ DocFollowsJob' /\ Client(r)'
<1> USE DEF worker
<1>1. /\ TypeOK /\ UNCHANGED <<doc, jobs, chord, loaded>> /\ doc.current # NoJob
      /\ CanResetReview(doc.status)
  BY DEF IInv, ReadForReset, ReadForReview, CanReview, CanResetReview
<1>2. Rows' /\ DocFollowsJob'
  BY <1>1, SameRows
<1>3. PICK pc \in {"resetting", "reviewing"} :
        Enter(r, [Idle EXCEPT !.pc = pc, !.job = doc.current, !.seen = doc])
  BY DEF ReadForReset, ReadForReview
<1> DEFINE q == [Idle EXCEPT !.pc = pc, !.job = doc.current, !.seen = doc]
<1>4. q.pc = pc
  BY DEF Idle
<1>5. q.job = doc.current
  BY DEF Idle
<1>6. q.seen = doc
  BY DEF Idle
<1> HIDE DEF q
<1>7. req'[r] = q
  BY <1>1, <1>3, BeginsWith DEF q
<1> QED BY <1>1, <1>2, <1>4, <1>5, <1>6, <1>7 DEF Client

LEMMA CheckActiveAlone ==
  ASSUME IInv, Rows, DocFollowsJob, NEW r \in Req, Client(r), CheckActive(r)
  PROVE  Rows' /\ DocFollowsJob' /\ Client(r)'
<1> USE DEF worker
<1>1. TypeOK /\ UNCHANGED <<doc, jobs, chord, loaded>> /\ req[r].pc = "check"
  BY DEF IInv, CheckActive
<1>2. Rows' /\ DocFollowsJob'
  BY <1>1, SameRows
<1>3. CASE Leave(r) \/ AnswerExisting(r, req[r].key)
  BY <1>1, <1>2, <1>3, LeaveRests DEF AnswerExisting
<1>4. CASE Move(r, "insert")
  <2>1. req'[r].pc = "insert" /\ req'[r].seen = req[r].seen
    BY <1>1, <1>4 DEF Move, TypeOK, Request
  <2> QED BY <1>1, <1>2, <2>1 DEF Client
<1> QED BY <1>3, <1>4 DEF CheckActive

LEMMA InsertAlone ==
  ASSUME IInv, Rows, DocFollowsJob, NEW r \in Req, Client(r), Insert(r)
  PROVE  Rows' /\ DocFollowsJob' /\ Client(r)'
<1> USE DEF worker
<1>1. TypeOK /\ UNCHANGED <<chord, loaded>> /\ req[r].pc = "insert" /\ req[r].seen = doc
  BY DEF IInv, Insert, Client
<1>2. CASE UNCHANGED <<doc, jobs>> /\ (Leave(r) \/ AnswerExisting(r, req[r].key))
  BY <1>1, <1>2, LeaveRests, SameRows DEF AnswerExisting
<1>3. CASE /\ Active = {} /\ Len(jobs) < MaxJobs
           /\ jobs' = Append(jobs, [status |-> "pending", key |-> req[r].key])
           /\ doc' = [doc EXCEPT !.status = Assign(@, req[r].seen.status, "draft"),
                                !.current = Len(jobs) + 1]
           /\ req' = [req EXCEPT ![r].pc = "dispatch", ![r].job = Len(jobs) + 1]
  <2> DEFINE n == Len(jobs) + 1
  <2>1. /\ DOMAIN jobs' = DOMAIN jobs \cup {n} /\ n \notin DOMAIN jobs /\ n \in JobId
        /\ jobs'[n].status = "pending" /\ \A i \in DOMAIN jobs : jobs'[i] = jobs[i]
    <3>1. req[r].key \in Key \cup {NoKey}
      BY <1>1 DEF TypeOK, Request
    <3> QED BY <1>1, <1>3, <3>1, AppendType
  <2>2. doc'.status = "draft" /\ doc'.current = n /\ n # NoJob
    BY <1>1, <1>3, <2>1 DEF TypeOK, Document, Assign, JobId, NoJob
  <2>3. chord[n] = "none"
    BY <2>1 DEF IInv, Queue
  <2>4. req'[r].pc = "dispatch" /\ req'[r].job = n
    BY <1>1, <1>3, InsertGoes DEF Goes
  <2> HIDE DEF n
  <2>5. Active' = {n}
    BY <1>3, <2>1, Statuses DEF Active
  <2>6. Rows'
    BY <1>1, <2>1, <2>2, <2>3, <2>5, Statuses DEF Rows, Status
  <2>7. DocFollowsJob'
    BY <2>1, <2>2 DEF DocFollowsJob, CurrentStatus, Status
  <2>8. Client(r)'
    BY <2>1, <2>2, <2>4 DEF Client, Status
  <2> QED BY <2>6, <2>7, <2>8
<1> QED BY <1>2, <1>3 DEF Insert

LEMMA ReadForDispatchAlone ==
  ASSUME IInv, Rows, DocFollowsJob, NEW r \in Req, Client(r), ReadForDispatch(r)
  PROVE  Rows' /\ DocFollowsJob' /\ Client(r)'
<1> USE DEF worker
<1>1. TypeOK /\ UNCHANGED <<doc, jobs, chord, loaded>> /\ req[r].pc = "dispatch"
  BY DEF IInv, ReadForDispatch
<1>2. req'[r].pc = "dispatching" /\ req'[r].seen = doc /\ req'[r].job = req[r].job
  BY <1>1 DEF ReadForDispatch, TypeOK, Request
<1> QED BY <1>1, <1>2, SameRows DEF Client, Status

\* The document has not moved since it was read, and it follows its own job.
LEMMA FollowsCurrent ==
  ASSUME TypeOK, NEW seen, NEW target, Follow(seen, doc.current, target),
         seen.current = doc.current, seen.status = doc.status \/ seen.status # target
  PROVE  doc'.status = target /\ doc'.current = doc.current
BY DEF Follow, Follows, Assign, TypeOK, Document

LEMMA DispatchAlone ==
  ASSUME IInv, Rows, DocFollowsJob, NEW r \in Req, Client(r), Dispatch(r)
  PROVE  Rows' /\ DocFollowsJob' /\ Client(r)'
<1> USE DEF worker
<1> DEFINE j == req[r].job
           seen == req[r].seen
<1>1. /\ TypeOK /\ UNCHANGED <<chord, loaded>> /\ req[r].pc = "dispatching"
      /\ seen = doc /\ j = doc.current /\ j \in DOMAIN jobs /\ j \in JobId /\ chord[j] = "none"
  BY JobsType DEF IInv, Dispatch, Client, Requests, Working, ToQueue
<1>2. CASE Leave(r) /\ UNCHANGED <<doc, jobs>>
  BY <1>1, <1>2, LeaveRests, SameRows
<1>3. CASE /\ SetJob(j, "dispatched") /\ Follow(seen, j, "in_progress")
           /\ req' = [req EXCEPT ![r].pc = "enqueue",
                                 ![r].seen.status = IF Follows(seen, j) THEN "in_progress" ELSE @]
  <2>1. /\ DOMAIN jobs' = DOMAIN jobs /\ jobs'[j].status = "dispatched"
        /\ \A i \in DOMAIN jobs \ {j} : jobs'[i] = jobs[i]
    BY <1>1, <1>3, SetJobType, Statuses
  <2>2. doc'.status = "in_progress" /\ doc'.current = j
    BY <1>1, <1>3, FollowsCurrent
  <2>3. req'[r].pc = "enqueue" /\ req'[r].job = j
    BY <1>1, <1>3 DEF TypeOK, Request
  <2>4. req'[r].seen.current = j /\ req'[r].seen.status = "in_progress"
    <3>1. Follows(seen, j)
      BY <1>1 DEF Follows
    <3>2. req' = [req EXCEPT ![r].pc = "enqueue", ![r].seen.status = "in_progress"]
      BY <1>3, <3>1
    <3>3. req'[r].seen = [seen EXCEPT !.status = "in_progress"]
      BY <1>1, <3>2 DEF TypeOK, Request
    <3>4. seen \in Document
      BY <1>1 DEF TypeOK
    <3> QED BY <1>1, <3>3, <3>4 DEF Document
  <2> HIDE DEF j, seen
  <2>5. Rows'
    BY <1>1, <2>1, <2>2, Statuses DEF Rows, Status, Active
  <2>6. DocFollowsJob'
    BY <2>1, <2>2 DEF DocFollowsJob, CurrentStatus, Status
  <2>7. Client(r)'
    BY <1>1, <2>1, <2>2, <2>3, <2>4 DEF Client, Status
  <2> QED BY <2>5, <2>6, <2>7
<1> QED BY <1>2, <1>3 DEF Dispatch

LEMMA EnqueueAlone ==
  ASSUME IInv, Rows, DocFollowsJob, NEW r \in Req, Client(r), Enqueue(r)
  PROVE  Rows' /\ DocFollowsJob' /\ Client(r)'
<1> USE DEF worker
<1> DEFINE j == req[r].job
<1>1. /\ TypeOK /\ UNCHANGED <<doc, jobs, loaded>> /\ req[r].pc = "enqueue" /\ Publish(j)
      /\ j \in DOMAIN jobs /\ j \in JobId /\ Status(j) = "dispatched"
  BY JobsType DEF IInv, Enqueue, Client, Requests, Working, ToQueue
<1>2. chord'[j] \in {"running", "empty"} /\ \A i \in JobId \ {j} : chord'[i] = chord[i]
  BY <1>1, PublishType
<1>3. Client(r)'
  BY <1>1, MoveGoes, ClientAtRest DEF Enqueue, Goes, Place
<1> HIDE DEF j
<1>4. Rows'
  BY <1>1, <1>2, JobsType, Statuses DEF Rows, Status, Active
<1> QED BY <1>1, <1>3, <1>4 DEF DocFollowsJob, CurrentStatus, Status

LEMMA EnqueueFailsAlone ==
  ASSUME IInv, OneClient, Rows, DocFollowsJob, NEW r \in Req, Client(r), EnqueueFails(r)
  PROVE  Rows' /\ DocFollowsJob' /\ Client(r)'
<1> USE DEF worker
<1>1. TypeOK /\ UNCHANGED <<doc, jobs, chord, loaded>> /\ req[r].pc = "enqueue"
  BY DEF IInv, EnqueueFails, OneClient
<1>2. req'[r].pc = "unavailable" /\ req'[r].seen = req[r].seen /\ req'[r].job = req[r].job
  BY <1>1 DEF EnqueueFails, Move, TypeOK, Request
<1> QED BY <1>1, <1>2, SameRows DEF Client, Status

LEMMA MarkUnavailableAlone ==
  ASSUME IInv, Rows, DocFollowsJob, NEW r \in Req, Client(r), MarkUnavailable(r)
  PROVE  Rows' /\ DocFollowsJob' /\ Client(r)'
<1> USE DEF worker
<1> DEFINE j == req[r].job
           seen == req[r].seen
<1>1. /\ TypeOK /\ UNCHANGED <<chord, loaded>> /\ req[r].pc = "unavailable"
      /\ SetJob(j, "failed") /\ Follow(seen, j, "draft") /\ Leave(r)
      /\ seen.status = "in_progress" /\ seen.current = j
      /\ j = doc.current /\ j \in DOMAIN jobs /\ j \in JobId /\ chord[j] = "none"
  BY JobsType DEF IInv, MarkUnavailable, Client, Requests, Working, ToQueue
<1>2. /\ DOMAIN jobs' = DOMAIN jobs /\ jobs'[j].status = "failed"
      /\ \A i \in DOMAIN jobs \ {j} : jobs'[i] = jobs[i]
  BY <1>1, SetJobType, Statuses
<1>3. doc'.status = "draft" /\ doc'.current = j
  BY <1>1, FollowsCurrent
<1>4. Client(r)'
  BY <1>1, LeaveRests
<1> HIDE DEF j, seen
<1>5. Rows'
  BY <1>1, <1>2, <1>3, Statuses DEF Rows, Status, Active
<1> QED BY <1>2, <1>3, <1>4, <1>5 DEF DocFollowsJob, CurrentStatus, Status

LEMMA ReviewAlone ==
  ASSUME IInv, Rows, DocFollowsJob, NEW r \in Req, Client(r), ResetAnalysis(r) \/ SaveReview(r)
  PROVE  Rows' /\ DocFollowsJob' /\ Client(r)'
<1> USE DEF worker
<1>1. /\ TypeOK /\ UNCHANGED <<jobs, chord, loaded>> /\ req[r].pc \in {"resetting", "reviewing"}
      /\ Leave(r) /\ doc.status \in {"awaiting_approval", "ready"} /\ doc.current # NoJob
      /\ req[r].seen = doc /\ req[r].job = doc.current
  BY DEF IInv, ResetAnalysis, SaveReview, Client, CanResetReview
<1>2. doc'.status \in {"awaiting_approval", "ready"} /\ doc'.current = doc.current
  <2>1. CASE ResetAnalysis(r)
    BY <1>1, <2>1, FollowsCurrent DEF ResetAnalysis
  <2>2. CASE SaveReview(r)
    BY <1>1, <2>2 DEF SaveReview, TypeOK, Document
  <2> QED BY <2>1, <2>2
<1>3. CurrentStatus \in {"success", "partial_success"}
  BY <1>1, Followed
<1>4. Rows'
  BY <1>1, <1>2 DEF Rows, Status, Active, IsActive, IsTerminal
<1>5. DocFollowsJob'
  BY <1>1, <1>2, <1>3 DEF DocFollowsJob, CurrentStatus, Status
<1> QED BY <1>1, <1>4, <1>5, LeaveRests

\* A job that is in the queue and not over is the current one of a document in progress.
LEMMA InQueue ==
  ASSUME IInv, Rows, DocFollowsJob, NEW j \in JobId, chord[j] \notin {"none", "over"}
  PROVE  /\ j \in DOMAIN jobs /\ j = doc.current /\ doc.status = "in_progress"
         /\ Status(j) \in {"dispatched", "processing"} /\ j # NoJob
<1>1. TypeOK /\ j \in DOMAIN jobs
  BY DEF IInv, Queue
<1>2. Status(j) \in JobStatus
  BY <1>1, JobsType DEF Job, Status
<1>3. Status(j) \in {"dispatched", "processing"}
  BY <1>1, <1>2, Statuses DEF Rows
<1>4. j = doc.current
  BY <1>1, <1>3, Statuses DEF Rows, Active, Status
<1>5. j # NoJob
  BY DEF JobId, NoJob
<1> QED BY <1>1, <1>3, <1>4, <1>5, Followed DEF CurrentStatus

\* A step of a worker that leaves the rows of documents and jobs alone.
LEMMA QueueMoves ==
  ASSUME IInv, Rows, DocFollowsJob, \A q \in Req : Client(q), NEW j \in JobId,
         UNCHANGED <<doc, jobs, req>>, chord[j] # "none" \/ chord' = chord,
         \A i \in JobId \ {j} : chord'[i] = chord[i] /\ loaded'[i] = loaded[i],
         IsTerminal(Status(j)) => chord'[j] \in {chord[j], "over"},
         chord'[j] = "finalizing" => loaded'[j].status = "in_progress" /\ loaded'[j].current = j
  PROVE  Rows' /\ DocFollowsJob' /\ \A q \in Req : Client(q)'
<1>1. DOMAIN jobs \subseteq JobId
  BY JobsType DEF IInv
<1>2. Rows'
  BY <1>1 DEF Rows, Active, Status, IsTerminal, IsActive
<1>3. ASSUME NEW q \in Req PROVE Client(q)'
  <2>1. req[q].pc \in {"enqueue", "unavailable"} => req[q].job \in JobId
    BY <1>1 DEF IInv, Requests, Working, ToQueue
  <2>2. req[q].pc \in {"enqueue", "unavailable"} => chord'[req[q].job] = "none"
    BY <2>1 DEF Client
  <2> QED BY <2>2 DEF Client, Status
<1> QED BY <1>2, <1>3 DEF DocFollowsJob, CurrentStatus, Status

LEMMA MarkProcessingAlone ==
  ASSUME IInv, Rows, DocFollowsJob, \A q \in Req : Client(q),
         NEW j \in DOMAIN jobs, MarkProcessing(j)
  PROVE  Rows' /\ DocFollowsJob' /\ \A q \in Req : Client(q)'
<1>1. /\ TypeOK /\ j \in JobId /\ UNCHANGED <<doc, req, chord, loaded>>
      /\ chord[j] # "none" /\ j \in Active /\ SetJob(j, "processing")
  BY JobsType DEF IInv, MarkProcessing
<1>2. /\ DOMAIN jobs' = DOMAIN jobs /\ jobs'[j].status = "processing"
      /\ \A i \in DOMAIN jobs \ {j} : jobs'[i] = jobs[i]
  BY <1>1, SetJobType, Statuses
<1>3. j = doc.current /\ Status(j) \in {"dispatched", "processing"} /\ j # NoJob
  BY <1>1, Statuses DEF Rows, Active, Status, JobId, NoJob
<1>4. doc.status = "in_progress"
  BY <1>3, Followed DEF CurrentStatus
<1>5. Rows'
  BY <1>1, <1>2, <1>3, Statuses DEF Rows, Active, Status
<1>6. DocFollowsJob'
  BY <1>1, <1>2, <1>3, <1>4 DEF DocFollowsJob, CurrentStatus, Status
<1>7. ASSUME NEW q \in Req PROVE Client(q)'
  <2>1. req[q].pc \in {"dispatch", "dispatching"} => FALSE
    BY <1>3 DEF Client
  <2>2. req[q].pc \in {"enqueue", "unavailable"} => FALSE
    BY <1>1, <1>3 DEF Client
  <2> QED BY <1>1, <2>1, <2>2 DEF Client
<1> QED BY <1>5, <1>6, <1>7

LEMMA FinalizeAlone ==
  ASSUME IInv, Rows, DocFollowsJob, \A q \in Req : Client(q),
         NEW j \in DOMAIN jobs, Finalize(j)
  PROVE  Rows' /\ DocFollowsJob' /\ \A q \in Req : Client(q)'
<1> DEFINE status == Outcome(results[j])
           target == DocumentStatusFor(status, sugg[j] = "pending")
<1>1. /\ TypeOK /\ j \in JobId /\ UNCHANGED <<req, loaded>> /\ chord[j] = "finalizing"
      /\ results[j] \in SUBSET {"ok", "failed", "cancelled"}
  BY JobsType DEF IInv, Finalize, TypeOK
<1>2. status \in JobTerminal
  BY <1>1, OutcomeType
<1>3. /\ status \in {"success", "partial_success"} => target \in {"awaiting_approval", "ready"}
      /\ status \in {"failed", "cancelled"} => target = "draft"
  BY DEF DocumentStatusFor
<1> HIDE DEF status, target
<1>4. /\ loaded[j].status = "in_progress" /\ loaded[j].current = j
      /\ j = doc.current /\ j # NoJob /\ doc.status = "in_progress"
      /\ Status(j) \in {"dispatched", "processing"}
  BY <1>1, InQueue DEF Rows
<1>5. target \in {"awaiting_approval", "ready", "draft"}
  BY <1>2, <1>3 DEF JobTerminal
<1>6. CanFollow(loaded[j], j, target)
  BY <1>4, <1>5 DEF CanFollow, DocumentTargets
<1>7. /\ SetJob(j, status) /\ Follow(loaded[j], j, target)
      /\ chord' = [chord EXCEPT ![j] = "over"]
  BY <1>6 DEF Finalize, status, target
<1>8. /\ DOMAIN jobs' = DOMAIN jobs /\ jobs'[j].status = status
      /\ \A i \in DOMAIN jobs \ {j} : jobs'[i] = jobs[i]
  BY <1>1, <1>2, <1>7, SetJobType DEF JobStatus
<1>9. doc'.status = target /\ doc'.current = j
  BY <1>1, <1>4, <1>5, <1>7, FollowsCurrent
<1>10. chord'[j] = "over" /\ \A i \in JobId \ {j} : chord'[i] = chord[i]
  BY <1>1, <1>7 DEF TypeOK
<1>11. Rows'
  BY <1>1, <1>2, <1>4, <1>8, <1>9, <1>10, JobsType, Statuses DEF Rows, Active, Status, JobTerminal
<1>12. DocFollowsJob'
  BY <1>2, <1>3, <1>8, <1>9 DEF DocFollowsJob, CurrentStatus, Status, JobTerminal
<1>13. ASSUME NEW q \in Req PROVE Client(q)'
  <2>1. req[q].pc \notin {"check", "insert", "resetting", "reviewing", "dispatch", "dispatching",
                          "enqueue", "unavailable"}
    <3>1. ~CanStartAnalysis(doc.status) /\ ~CanResetReview(doc.status)
      BY <1>4 DEF CanStartAnalysis, CanResetReview
    <3> QED BY <1>1, <1>4, <3>1 DEF Client
  <2> QED BY <1>1, <2>1 DEF Client
<1> QED BY <1>11, <1>12, <1>13

LEMMA RunAlone ==
  ASSUME IInv, Rows, DocFollowsJob, \A q \in Req : Client(q),
         NEW j \in DOMAIN jobs, Run(j) \/ Lose(j)
  PROVE  Rows' /\ DocFollowsJob' /\ \A q \in Req : Client(q)'
<1>1. TypeOK /\ j \in JobId
  BY JobsType DEF IInv
<1>2. CASE SubtaskAnswers(j)
  BY <1>1, <1>2, QueueMoves DEF SubtaskAnswers, Rows
<1>3. CASE ReadForFinalize(j)
  <2>1. chord[j] \in {"running", "empty"} /\ UNCHANGED <<doc, jobs, req>>
    BY <1>3 DEF ReadForFinalize, HeaderDone
  <2>2. j = doc.current /\ doc.status = "in_progress"
    BY <1>1, <2>1, InQueue
  <2>3. \A i \in JobId \ {j} : chord'[i] = chord[i] /\ loaded'[i] = loaded[i]
    BY <1>1, <1>3 DEF ReadForFinalize, TypeOK
  <2>4. chord'[j] = "over" \/ (chord'[j] = "finalizing" /\ loaded'[j] = doc /\ IsActive(Status(j)))
    BY <1>1, <1>3 DEF ReadForFinalize, TypeOK, Status
  <2> QED BY <1>1, <2>1, <2>2, <2>3, <2>4, QueueMoves, Statuses
<1>4. CASE DropFinalize(j)
  <2>1. /\ chord[j] # "none" /\ UNCHANGED <<doc, jobs, req, loaded>>
        /\ chord'[j] = "over" /\ \A i \in JobId \ {j} : chord'[i] = chord[i]
    BY <1>1, <1>4 DEF DropFinalize, HeaderDone, TypeOK
  <2> QED BY <1>1, <2>1, QueueMoves
<1>5. CASE Lose(j)
  <2>1. /\ chord[j] \notin {"none", "over"} /\ UNCHANGED <<doc, jobs, req, loaded>>
        /\ chord'[j] = "lost" /\ \A i \in JobId \ {j} : chord'[i] = chord[i]
    BY <1>1, <1>5 DEF Lose, LoseSubtask, FinalizeFails, HeaderDone, TypeOK
  <2>2. ~IsTerminal(Status(j))
    BY <1>1, <2>1, InQueue, Statuses
  <2> QED BY <1>1, <2>1, <2>2, QueueMoves
<1> QED BY <1>2, <1>3, <1>4, <1>5, MarkProcessingAlone, FinalizeAlone DEF Run

LEMMA RequestAlone ==
  ASSUME IInv, OneClient, Rows, DocFollowsJob, NEW r \in Req, Client(r),
         \/ Start(r) \/ CancelJob(r) \/ ReadForReset(r) \/ ReadForReview(r) \/ Serve(r) \/ Die(r)
  PROVE  Rows' /\ DocFollowsJob' /\ Client(r)'
<1> USE DEF worker
<1>1. TypeOK
  BY DEF IInv
<1>2. ~CancelJob(r) /\ ~CancelDocument(r) /\ ~Cancel(r) /\ ~Revoke(r)
  BY <1>1 DEF OneClient, CancelJob, CancelDocument, Cancel, Revoke, Client
<1>3. CASE SetTaskId(r) \/ Die(r)
  BY <1>1, <1>3, LeaveRests, SameRows DEF SetTaskId, Die
<1> QED
  BY <1>2, <1>3, StartAlone, ReadAlone, CheckActiveAlone, InsertAlone, ReadForDispatchAlone,
     DispatchAlone, EnqueueAlone, EnqueueFailsAlone, MarkUnavailableAlone, ReviewAlone DEF Serve

\* With one client at a time who does not cancel, and a broker that never reports an error
\* for what it has taken, a document's status is what its current job says, whatever the
\* workers do meanwhile and wherever requests die.
THEOREM DocumentFollows == OneClient => (Spec => []DocFollowsJob)
<1> SUFFICES ASSUME OneClient PROVE Spec => []DocFollowsJob
  OBVIOUS
<1>1. Init => Serial
  <2> SUFFICES ASSUME Init PROVE Serial
    OBVIOUS
  <2>1. \A r \in Req : Client(r)
    <3>1. \A r \in Req : req[r].pc = "idle"
      BY IdleType DEF Init
    <3> QED BY <3>1 DEF Client
  <2>2. DOMAIN jobs = {} /\ doc.current = NoJob
    BY DEF Init, NoDocument
  <2>3. \A j \in JobId : chord[j] = "none"
    BY DEF Init
  <2> QED BY <2>1, <2>2, <2>3 DEF Serial, Rows, Active, DocFollowsJob
<1>2. IInv /\ Serial /\ [Next]_vars => Serial'
  <2> SUFFICES ASSUME IInv, Serial, [Next]_vars PROVE Serial'
    OBVIOUS
  <2>1. ASSUME NEW r \in Req, \/ Start(r) \/ CancelJob(r) \/ ReadForReset(r) \/ ReadForReview(r)
                              \/ Serve(r) \/ Die(r)
        PROVE  Serial'
    <3>1. Rows' /\ DocFollowsJob' /\ Client(r)'
      BY <2>1, RequestAlone DEF Serial
    <3>2. \A q \in Req : q = r
      BY DEF OneClient
    <3> QED BY <3>1, <3>2 DEF Serial
  <2>2. ASSUME NEW j \in DOMAIN jobs, Run(j) \/ Lose(j) PROVE Serial'
    BY <2>2, RunAlone DEF Serial
  <2>3. CASE UNCHANGED vars
    BY <2>3, SameRows DEF Serial, Client, Status, vars, worker
  <2> QED BY <2>1, <2>2, <2>3 DEF Next
<1>3. Serial => DocFollowsJob
  BY DEF Serial
<1> QED BY <1>1, <1>2, <1>3, Invariant, PTL DEF Spec

-----------------------------------------------------------------------------
(* The life of a job: every step is one of JobLife, or none.               *)

phases == [j \in JobId |-> PhaseOf(j)]

\* A job's phase, as no job is stuck.
PhaseKnown ==
  \A j \in JobId :
    PhaseOf(j) = IF j \notin DOMAIN jobs THEN "none"
                 ELSE IF chord[j] = "none" THEN IF j \in Active THEN "open" ELSE "shut"
                 ELSE IF j \in Active THEN "queued" ELSE "ended"

LEMMA NoneStuck == IInv => PhaseKnown
<1> SUFFICES ASSUME IInv, NEW j \in JobId, j \in DOMAIN jobs, chord[j] = "over"
             PROVE  ~IsActive(Status(j))
  BY DEF PhaseKnown, PhaseOf, Active, Status
<1> QED BY Statuses DEF IInv, Queue

LEMMA NoneStuckNext == IInv' => PhaseKnown'
BY NoneStuck, PTL

\* The queue gets no job and loses none.
SameQueue == \A j \in JobId : chord'[j] = "none" <=> chord[j] = "none"

\* What a step may do to the jobs: nothing, open one, write the status of one that may take
\* it, or hand one to the queue.
Opens(n) ==
  /\ Active = {} /\ n \notin DOMAIN jobs /\ SameQueue
  /\ DOMAIN jobs' = DOMAIN jobs \cup {n} /\ Active' = {n}
Rewrites(j, status) ==
  /\ Sets(j, status) /\ SameQueue
  /\ IsActive(status) => j \in Active \/ (Active = {} /\ chord[j] = "none")
HandsOver(j) ==
  /\ jobs' = jobs /\ j \in DOMAIN jobs /\ chord[j] = "none" /\ chord'[j] # "none"
  /\ \A i \in JobId \ {j} : chord'[i] = chord[i]
JobStep ==
  \/ jobs' = jobs /\ SameQueue
  \/ \E n \in JobId : Opens(n)
  \/ \E j \in JobId, status \in JobStatus : Rewrites(j, status)
  \/ \E j \in JobId : HandsOver(j)

LEMMA InsertSteps == ASSUME IInv, NEW r \in Req, Insert(r) PROVE JobStep
<1>1. SameQueue
  BY DEF Insert, worker, SameQueue
<1>2. CASE /\ Active = {} /\ Len(jobs) < MaxJobs
           /\ jobs' = Append(jobs, [status |-> "pending", key |-> req[r].key])
  <2>1. TypeOK /\ req[r].key \in Key \cup {NoKey}
    BY DEF IInv, TypeOK, Request
  <2> DEFINE n == Len(jobs) + 1
  <2>2. /\ n \in JobId /\ DOMAIN jobs' = DOMAIN jobs \cup {n} /\ n \notin DOMAIN jobs
        /\ jobs'[n].status = "pending" /\ \A i \in DOMAIN jobs : jobs'[i] = jobs[i]
    BY <1>2, <2>1, AppendType
  <2> HIDE DEF n
  <2>3. Active' = {n}
    BY <1>2, <2>2, Statuses DEF Active
  <2> QED BY <1>1, <1>2, <2>2, <2>3 DEF JobStep, Opens
<1> QED BY <1>1, <1>2 DEF Insert, JobStep

LEMMA DispatchSteps == ASSUME IInv, NEW r \in Req, Dispatch(r) PROVE JobStep
<1> DEFINE j == req[r].job
<1>1. /\ SameQueue /\ UNCHANGED <<enqueued, revoked, taskId, answers, crashes>>
      /\ req[r].pc = "dispatching"
  BY DEF Dispatch, worker, SameQueue
<1>2. j \in DOMAIN jobs /\ j \in JobId /\ chord[j] = "none"
  BY <1>1, JobsType DEF IInv, Requests, Working, ToQueue
<1>3. CASE Active \subseteq {j} /\ SetJob(j, "dispatched")
  <2>1. "dispatched" \in JobStatus
    BY Statuses
  <2>2. Rewrites(j, "dispatched")
    BY <1>1, <1>2, <1>3, <2>1 DEF Rewrites, Sets
  <2> QED BY <1>2, <2>1, <2>2 DEF JobStep
<1> QED BY <1>1, <1>3 DEF Dispatch, JobStep

LEMMA EndSteps ==
  ASSUME IInv, NEW r \in Req, MarkUnavailable(r) \/ Cancel(r) PROVE JobStep
<1>1. /\ SameQueue /\ UNCHANGED <<enqueued, revoked, taskId, answers, crashes>>
      /\ req[r].pc \in {"unavailable", "cancelling", "cancelling_known"}
  BY DEF MarkUnavailable, Cancel, worker, SameQueue
<1>2. req[r].job \in DOMAIN jobs /\ req[r].job \in JobId
  BY <1>1, JobsType DEF IInv, Requests, Working
<1>3. PICK status \in {"failed", "cancelled"} : SetJob(req[r].job, status)
  BY DEF MarkUnavailable, Cancel
<1>4. status \in JobStatus /\ ~IsActive(status)
  BY Statuses
<1>5. Rewrites(req[r].job, status)
  BY <1>1, <1>2, <1>3, <1>4 DEF Rewrites, Sets
<1> QED BY <1>2, <1>4, <1>5 DEF JobStep

LEMMA EnqueueSteps ==
  ASSUME IInv, NEW r \in Req, Enqueue(r) \/ EnqueueFails(r) PROVE JobStep
<1>1. UNCHANGED jobs /\ req[r].pc = "enqueue"
  BY DEF Enqueue, EnqueueFails
<1>2. /\ TypeOK /\ req[r].job \in DOMAIN jobs /\ req[r].job \in JobId
      /\ chord[req[r].job] = "none"
  BY <1>1, JobsType DEF IInv, Requests, Working, ToQueue
<1>3. CASE Publish(req[r].job)
  BY <1>1, <1>2, <1>3, PublishType DEF JobStep, HandsOver
<1>4. CASE UNCHANGED chord
  BY <1>1, <1>4 DEF JobStep, SameQueue
<1> QED BY <1>3, <1>4 DEF Enqueue, EnqueueFails

LEMMA ServeSteps ==
  ASSUME IInv, NEW r \in Req,
         Start(r) \/ CancelJob(r) \/ ReadForReset(r) \/ ReadForReview(r) \/ Serve(r) \/ Die(r)
  PROVE  JobStep
<1>1. CASE UNCHANGED <<jobs, chord>>
  BY <1>1 DEF JobStep, SameQueue
<1>2. CASE \/ Start(r) \/ CancelJob(r) \/ ReadForReset(r) \/ ReadForReview(r) \/ Die(r)
           \/ CheckActive(r) \/ ReadForDispatch(r) \/ SetTaskId(r) \/ CancelDocument(r)
           \/ Revoke(r) \/ ResetAnalysis(r) \/ SaveReview(r)
  <2>1. UNCHANGED <<jobs, chord>>
    BY <1>2 DEF Start, CancelJob, ReadForReset, ReadForReview, Die, CheckActive, ReadForDispatch,
                SetTaskId, CancelDocument, Revoke, ResetAnalysis, SaveReview, worker
  <2> QED BY <1>1, <2>1
<1> QED BY <1>2, InsertSteps, DispatchSteps, EndSteps, EnqueueSteps DEF Serve

LEMMA MarkProcessingSteps ==
  ASSUME IInv, NEW j \in DOMAIN jobs, MarkProcessing(j) PROVE JobStep
<1>1. j \in JobId /\ "processing" \in JobStatus
  BY JobsType, Statuses DEF IInv
<1>2. Rewrites(j, "processing")
  BY <1>1 DEF Rewrites, Sets, MarkProcessing, SameQueue
<1> QED BY <1>1, <1>2 DEF JobStep

LEMMA FinalizeSteps ==
  ASSUME IInv, NEW j \in DOMAIN jobs, Finalize(j) PROVE JobStep
<1> DEFINE status == Outcome(results[j])
<1>1. /\ TypeOK /\ j \in JobId /\ chord[j] = "finalizing"
      /\ UNCHANGED <<enqueued, revoked, taskId, answers, crashes>>
  BY JobsType DEF IInv, Finalize
<1>2. status \in JobStatus /\ ~IsActive(status)
  <2>1. status \in JobTerminal
    BY <1>1, OutcomeType DEF TypeOK
  <2>2. IsTerminal(status)
    BY <2>1 DEF IsTerminal
  <2> HIDE DEF status
  <2> QED BY <2>2, Statuses
<1>3. PICK state \in {"over", "lost"} : chord' = [chord EXCEPT ![j] = state]
  BY DEF Finalize
<1>4. SameQueue
  BY <1>1, <1>3 DEF SameQueue, TypeOK
<1>5. SetJob(j, status) \/ UNCHANGED jobs
  BY DEF Finalize
<1> HIDE DEF status
<1>6. CASE SetJob(j, status)
  <2>1. Rewrites(j, status)
    BY <1>1, <1>2, <1>4, <1>6 DEF Rewrites, Sets
  <2> QED BY <1>1, <1>2, <2>1 DEF JobStep
<1> QED BY <1>4, <1>5, <1>6 DEF JobStep

LEMMA RunSteps ==
  ASSUME IInv, NEW j \in DOMAIN jobs, Run(j) \/ Lose(j)
  PROVE  JobStep
<1>1. CASE SubtaskAnswers(j) \/ Lose(j) \/ ReadForFinalize(j) \/ DropFinalize(j)
  <2>1. TypeOK /\ j \in JobId /\ UNCHANGED jobs /\ chord[j] # "none"
    BY <1>1, JobsType
       DEF IInv, SubtaskAnswers, Lose, LoseSubtask, FinalizeFails, ReadForFinalize, DropFinalize, HeaderDone
  <2>2. \/ UNCHANGED chord
        \/ \E state \in {"lost", "over", "finalizing"} : chord' = [chord EXCEPT ![j] = state]
    BY <1>1 DEF SubtaskAnswers, Lose, LoseSubtask, FinalizeFails, ReadForFinalize, DropFinalize
  <2> QED BY <2>1, <2>2 DEF JobStep, SameQueue, TypeOK
<1> QED BY <1>1, MarkProcessingSteps, FinalizeSteps DEF Run

LEMMA Advances ==
  ASSUME NEW j \in JobId, \A i \in JobId \ {j} : PhaseOf(i)' = PhaseOf(i),
         PhaseOf(j)' \in Life!Successor(PhaseOf(j)),
         PhaseOf(j)' = "open" => \A i \in JobId : PhaseOf(i) \notin {"open", "queued"}
  PROVE  Life!Next
<1>1. phases' = [phases EXCEPT ![j] = phases'[j]]
  BY DEF phases
<1>2. phases'[j] = PhaseOf(j)' /\ \A i \in JobId : phases[i] = PhaseOf(i)
  BY DEF phases
<1>3. Life!Advance(j)
  BY <1>1, <1>2 DEF Life!Advance, Life!Live, phases
<1> QED BY <1>3 DEF Life!Next

LEMMA LifeInit == Init => Life!Init
<1> SUFFICES ASSUME Init PROVE \A j \in JobId : PhaseOf(j) = "none"
  BY DEF Life!Init
<1>1. DOMAIN jobs = {}
  BY DEF Init
<1> QED BY <1>1 DEF PhaseOf

LEMMA LifeNext ==
  ASSUME IInv, [Next]_vars
  PROVE  [Life!Next]_phases
<1>1. TypeOK /\ PhaseKnown /\ PhaseKnown' /\ DOMAIN jobs \subseteq JobId
  BY Inductive, NoneStuck, NoneStuckNext, JobsType DEF IInv
<1>2. \A j \in DOMAIN jobs : j \in Active <=> IsActive(jobs[j].status)
  BY DEF Active
<1>3. /\ Life!Successor("none") = {"open"} /\ Life!Successor("open") = {"queued", "shut"}
      /\ Life!Successor("shut") = {"open", "ended"} /\ Life!Successor("queued") = {"ended"}
  BY DEF Life!Successor
<1>4. Active = {} => \A i \in JobId : PhaseOf(i) \notin {"open", "queued"}
  BY <1>1 DEF PhaseKnown
<1>5. CASE jobs' = jobs /\ SameQueue
  <2>1. Active' = Active
    BY <1>5 DEF Active
  <2>2. \A j \in JobId : PhaseOf(j)' = PhaseOf(j)
    BY <1>1, <1>5, <2>1 DEF PhaseKnown, SameQueue
  <2> QED BY <2>2 DEF phases
<1>6. ASSUME NEW n \in JobId, Opens(n) PROVE Life!Next
  <2>1. chord[n] = "none" /\ chord'[n] = "none"
    BY <1>6 DEF IInv, Queue, Opens, SameQueue
  <2>2. PhaseOf(n) = "none" /\ PhaseOf(n)' = "open"
    BY <1>1, <1>6, <2>1 DEF PhaseKnown, Opens
  <2>3. \A i \in JobId \ {n} : PhaseOf(i)' = PhaseOf(i)
    BY <1>1, <1>6 DEF PhaseKnown, Opens, SameQueue
  <2>4. Active = {}
    BY <1>6 DEF Opens
  <2> QED BY <1>3, <1>4, <2>2, <2>3, <2>4, Advances
<1>7. ASSUME NEW j \in JobId, NEW status \in JobStatus, Rewrites(j, status)
      PROVE  [Life!Next]_phases
  <2>1. /\ j \in DOMAIN jobs /\ DOMAIN jobs' = DOMAIN jobs /\ jobs'[j].status = status
        /\ \A i \in DOMAIN jobs \ {j} : jobs'[i] = jobs[i]
    BY <1>7, SetsShape DEF Rewrites, Sets
  <2>2. /\ \A i \in JobId \ {j} : i \in Active' <=> i \in Active
        /\ j \in Active' <=> IsActive(status)
    BY <2>1 DEF Active
  <2>3. \A i \in JobId \ {j} : PhaseOf(i)' = PhaseOf(i)
    BY <1>1, <1>7, <2>1, <2>2 DEF PhaseKnown, Rewrites, SameQueue
  <2>4. chord'[j] = "none" <=> chord[j] = "none"
    BY <1>7 DEF Rewrites, SameQueue
  <2>5. CASE j \in Active /\ j \notin Active'
    <3>1. \/ PhaseOf(j) = "open" /\ PhaseOf(j)' = "shut"
          \/ PhaseOf(j) = "queued" /\ PhaseOf(j)' = "ended"
      BY <1>1, <2>1, <2>4, <2>5 DEF PhaseKnown
    <3> QED BY <1>3, <2>3, <3>1, Advances
  <2>6. CASE j \notin Active /\ j \in Active'
    <3>1. Active = {} /\ chord[j] = "none"
      BY <1>7, <2>2, <2>6 DEF Rewrites
    <3>2. PhaseOf(j) = "shut" /\ PhaseOf(j)' = "open"
      BY <1>1, <2>1, <2>4, <2>6, <3>1 DEF PhaseKnown
    <3> QED BY <1>3, <1>4, <2>3, <3>1, <3>2, Advances
  <2>7. CASE j \in Active' <=> j \in Active
    <3>1. PhaseOf(j)' = PhaseOf(j)
      BY <1>1, <2>1, <2>4, <2>7 DEF PhaseKnown
    <3> QED BY <2>3, <3>1 DEF phases
  <2> QED BY <2>5, <2>6, <2>7
<1>8. ASSUME NEW j \in JobId, HandsOver(j) PROVE Life!Next
  <2>1. Active' = Active
    BY <1>8 DEF Active, HandsOver
  <2>2. \A i \in JobId \ {j} : PhaseOf(i)' = PhaseOf(i)
    BY <1>1, <1>8, <2>1 DEF PhaseKnown, HandsOver
  <2>3. \/ PhaseOf(j) = "open" /\ PhaseOf(j)' = "queued"
        \/ PhaseOf(j) = "shut" /\ PhaseOf(j)' = "ended"
    BY <1>1, <1>8, <2>1 DEF PhaseKnown, HandsOver
  <2> QED BY <1>3, <2>2, <2>3, Advances
<1>9. CASE UNCHANGED vars
  <2>1. jobs' = jobs /\ SameQueue
    BY <1>9 DEF vars, worker, SameQueue
  <2> QED BY <1>5, <2>1
<1>10. ASSUME Next PROVE JobStep
  BY <1>10, ServeSteps, RunSteps DEF Next
<1> QED BY <1>5, <1>6, <1>7, <1>8, <1>9, <1>10 DEF JobStep

\* The refinement: whatever stale objects requests decide on, each step of requests and
\* workers is one step of one job's life or none.  A second analysis never opens beside a
\* live one, a job reaches the queue once, and what ended after that is over for good.
THEOREM ImplementsJobLife == Spec => JobLifeSpec
<1>1. IInv /\ [Next]_vars => [Life!Next]_phases
  BY LifeNext
<1> QED BY <1>1, LifeInit, Invariant, PTL DEF Spec, JobLifeSpec, Life!Spec, phases
===============================================================================

# TLA+ models of SyncBack

SyncBack keeps a user's documents in step with sources. An *analysis* of a
document asks a language model, once per source, which places of the document
the source makes obsolete; the answers are stored as *suggestions*, reviewers
accept or reject them, and the reviewed document is exported. The API is an
asynchronous FastAPI application over PostgreSQL; analyses run as Celery chords;
status changes are announced to browsers through Redis and server-sent events.

The modules here model the parts in which several actors meet: the claim on a
source, the life of an analysis job, the review, the library of documents and
files, the events, the sessions, the calls of the model and the migrations; and
one algorithm, the way a text takes from the model's answer to the exported file.
Every definition is
translated from the code; `PROJECT.json` names for each the lines it stands for
(`map`), the runs, one mutant per checked property, the known disagreements
between code and documentation (`findings`) and the hazards of the code.

## Inventory

| Component | State it keeps | Operations | Interacts through | What makes it correct |
|---|---|---|---|---|
| Life cycles `domain/lifecycle.py` | none | transition tables, predicates | called by services, worker, routers | only legal transitions |
| Analysis jobs `analysis_job_service.py`, `analysis_job_repository.py` | rows of `analysis_jobs`, `documents.status`, `current_analysis_job_id` | start, bulk start, dispatch, cancel, reset | queue; document row shared with the worker and the review | one active job, one job per idempotency key, queued once, never queued in vain, status follows job |
| Subtask `analysis_tasks.py`, `analysis_job_source_repository.py` | row of `analysis_job_sources` (status, lock token, locked_at), retry counters in the message | claim, generate, release, store, retry | at-least-once broker, model, job row | one paid call at a time, one batch, honest answer, ends |
| Finaliser `analysis_tasks.py` `_finalize` | job and document rows | finalise | chord of Celery | job terminal for good, document leaves in_progress |
| Review `suggestion_service.py` | rows of `suggestions`, `documents.status`, `review_version` | save, decide, reset | rows shared with a new analysis | no lost decision, ready means decided, one save per version |
| Library `document_service.py`, `source_service.py`, `project_service.py`, `storage/` | rows of `projects`, `documents`, `sources`, `document_sources`; objects in S3 | upload, create, attach, delete | a row and its file cannot commit together; the status of the document says whether an analysis freezes it | no row without its file, every file has an owner, nothing changes under an analysis |
| Events `document_events.py`, `sse_broker.py`, `routers/sse.py` | outbox per service, Redis channel, one bounded queue per stream | record, flush, fan-out, subscribe, stop | Redis channel, SSE streams | announced after commit only and in order; slow clients do not block |
| Sessions `auth_service.py`, `infrastructure/security/` | accounts; refresh tokens and attempt counters in Redis | register, login, refresh, logout | Redis, single commands | a refresh token is used once, the throttle's counter is bounded |
| Pipeline and export `suggestion_mapper.py`, `exporters/`, `document_export_service.py` | none but the rows they read | map, normalise, page, apply | suggestions written by the worker, read by the export | what is kept can be applied, and where it belongs |
| Model calls `infrastructure/llm/` | OAuth token in each process and in Redis | headers, fetch, post, retry, refresh | Redis cache, OAuth server, model | a token is used within its life, a 401 is final only for a new one |
| Schema `alembic/versions`, `infrastructure/db/models` | tables, types, constraints, all rows | upgrade, downgrade | rows written by every other component | an upgrade goes through, but on rows it must refuse, and keeps what the rest mean |
| Dashboard, connectors, HTTP layer | rows, none | create/read/update/delete, wiring | database | single statements |

What is hard in this code is not an algorithm but what happens between two
statements. Requests and tasks run in transactions of isolation READ COMMITTED.
The ORM decides on objects loaded earlier and writes an attribute only if its
value changes. What protects the data are conditional UPDATEs
(`claim`, `mark_completed`, `release`, `mark_processing_if_active`,
`compare_and_increment_review_version`, `compare_and_set_status`, the bulk
updates of suggestions) and unique indexes; everything else is a read followed by
a blind write. Beside that: redelivered messages, workers that die, a model that
hangs, a queue whose error does not say whether the message was sent, API
processes that die between commit and enqueue.

## Modules

* `Lifecycle`: the status tables, without state.
* `SourceResult`: what the subtasks of one source promise the chord.
  `SourceClaim`: one source of one job and any number of deliveries of its
  subtask, which implements it. `SourceClaim_proofs` proves about it;
  `MCSourceClaim` instantiates it.
* `JobLife`: the life of one job, as promised. `AnalysisJobs`: the jobs of one
  document, the requests, the queue, the chords, which implements it.
  `AnalysisJobs_proofs` proves about it; `MCAnalysisJobs` instantiates it. It
  EXTENDS `Lifecycle`.
* `ReviewLedger`: the review as its clients may think of it, one indivisible
  operation per request. `Review`: the suggestions of one document, the reviewers'
  requests as transactions of several statements, and new analyses beside them,
  which implements it. `Review_proofs` proves about it; `MCReview` instantiates
  it. It EXTENDS `Lifecycle`.
* `StoredObject`: the life of one object of the storage, as promised.
  `Library`: documents, sources, their files and the freeze of an analysis, which
  implements it; `MCLibrary` instantiates it. It EXTENDS `Lifecycle`.
* `SessionLife`: the life of one session, as promised. `Sessions`: logins,
  refreshes and logouts of one account, which implements it.
* `Events`, `Sessions`, `TextFlow`, `Generation`, each with its `MC` module.
* `Library_proofs`, `Events_proofs`, `Sessions_proofs`, `TextFlow_proofs` and
  `Generation_proofs` prove about the module they are named for.
* `Revisions`: the Alembic chain as data, without state. `Migrations`: commands
  that run it on a database in use; `MCMigrations` instantiates it.

`AnalysisJobs` takes from `SourceClaim` that a subtask answers or is lost
(`EverySubtaskEnds`), and treats its suggestions as found, pending or decided.
`Review` takes from `AnalysisJobs` when an analysis starts and ends; each commit
of an analysis is one step there. `Library` takes from both only that an analysis
begins (`Dispatch`) and ends. `SourceClaim` abstracts to `Generate` and
`GenerateFails` what `Generation` does; `TextFlow` takes up the batch a `Store`
commits and the decisions of `Review`.

### SourceClaim

`row` is the row of `analysis_job_sources`, `leaseAge` the time since its
`locked_at`, `pc[d]` the place of a delivery in `_process_source` or in the task
around it, `token[d]` the `lock_token` it holds, `busy`, `llm` and `retries` the
counters of the message. Each transaction is a step taken at its commit; where
the code reads in one statement and writes in a later one (`Look` and `Claim`,
`RecheckJob` and `Store`) they are two. `batches` is the set of claims whose
suggestions are committed.

Time: `Tick` advances time; an age stops growing where no comparison can
tell it apart. `claim` compares `locked_at`, written by the holder with its own
`datetime.now(UTC)`, with the clock of the worker that claims; `ClockSkew` bounds
the difference of two such clocks, and each claim reads one of the `Leads` it
allows. `KillsOverdue` says whether the worker pool stops a task at its
hard limit. `Generate` may stay in progress as long as the limit allows. `Crash`
is a worker that dies before its acknowledgement (`acks_late`,
`reject_on_worker_lost`): the message is delivered again with its old counters.
`TimeOut` and `Fail` (a database error, or a retry that could not be published)
end the task with an exception: its message is done with and its claim left
behind. `JobEnds`, `DocumentDeleted` and
`SourceDeleted` are what the API does meanwhile, without any guard.

`SourceResult` knows the stored batches, whether the document is gone and what
each delivery told the chord. The refinement maps `batches` to the first, `job =
"gone"` to the second and, for a delivery whose message is acknowledged, `result`
to the third; claims, leases, retries and crashes are steps nobody sees there.

### AnalysisJobs

A request `req[r]` keeps the job it works on and the document as it loaded it
(`seen`). `Assign` is the ORM's assignment: no change of the loaded value, no
UPDATE. `Follow` is `_set_job_status` on the document: only if the loaded current
job is this one. The router's first look-up of the idempotency key is a read with
the same outcome as the service's and is merged with it. In `dispatch_job` the
document is read again while the job is still the object `create_job` returned,
because the caller holds a reference to it and the session's identity map
answers with it. Conditional UPDATEs and indexes are evaluated at the commit; a
row lock makes a blind write atomic there.

`chord[j]` is the state of the chord: its header running, only a body (a document
without sources), being finalised, over, or lost, when a subtask failed outright
so that the broker never calls the body, or when the body itself did (`LoseSubtask`,
`FinalizeFails`): `_finalize` is one transaction without a retry. `enqueued` and `answers` are history
variables.

`JobLife` has one variable, the phase of each job: "none", "open" (active, not in
the queue yet), "shut" (ended before it got there), "queued", "ended". The
refinement reads it off `jobs` and `chord` (`PhaseOf`); a job whose chord is over
while it is active would be "stuck", a phase `JobLife` does not have. What the
code does not promise is visible in it: `shut -> open` and `shut -> ended` are the
dispatch of a job that was cancelled meanwhile. There is no way out of "ended", and
a job opens only while no other is live.

### Review

A request is one transaction of several statements. `req[r].put`, `bump` and
`set` are its uncommitted writes; they lock what they touch (`DocumentFree`,
`RowsFree`), are seen by itself only (`View`), and become visible in `Commit`. An
UPDATE that had to wait decides on the rows as they are when it runs. The status
and current analysis of the document are those the request loaded first; the
version check and `_reopen_review` are conditional UPDATEs. `Abort` is any
exception, and also the database's way out of a deadlock: a reset locks
suggestions before the document, a save the other way round. `ResetAll` with
`WriteStatus` is `reset_analysis`: a filter over the loaded analysis and, if the
document was loaded as `ready`, an UPDATE of the status without a condition.
`finalize_review` of the service has no caller and is not modelled.

`analysis` says how far each job of the analysis is, as `AnalysisJobs` has it in
detail: `Restart` and `Dispatch` start one, `Find` stores what a subtask has found, also
after a cancellation, `Finish` ends it well and `Fail` is a failure or a cancellation.
`overrun` remembers the analyses that were current when a save that finalises, or a
`reset_analysis`, wrote the status it had decided on for an earlier one.

`ReviewLedger` has the variables of the committed rows, and `overrun`, and none for
requests; the refinement maps each to itself. A step of it is a save, a decision, a
reset, a reopening or a step of an analysis, on the rows as they are at that
moment. The statements of a request before its commit, its waiting and its failure
are stutters; what it decided on was read earlier, and that its commit is one of
these operations all the same is what the refinement says.

### Library and StoredObject

`docs` and `srcs` are the rows with what the services decide on (status, scope),
`files` the objects, named by the id their key is made of. A request's `keys` are
the files it still has to give an owner or to remove. Steps lie between the
statements whose effects others see: the scope check, the upload, the insert with
its commit, the undo; in a deletion the check, the two DELETEs, the commit and the
removal of each file. `overtaken` remembers that an analysis has begun since a
request's check; there the check protects nothing, and `FrozenWhileAnalysed` says
so. `leaked` marks the places where the code gives a file up: a process that dies,
a storage that fails, document-scoped sources of a deleted document (whose rows go
and whose files stay), an upload between the two halves of a project's deletion.
`doubted` marks an insert whose commit succeeded and was reported as failed; the
handler then removes the file of a living row.

`SourcesOf` is what the worker reads for a document (`list_for_analysis`): what is
attached to it and every source of the project. The services check the documents a
source is attached to, never those that use it because it is the project's, so a
project's source can be made, and deleted, in the middle of an analysis.
`FrozenWhileAnalysed` excepts exactly these two requests (`OfTheProject`), the second
only where the source is not attached to the document as well.

`StoredObject` has one variable, the phase of each object. The refinement maps an
object to "kept", "broken" (row without file), "offered" (file before its row),
"left" (file after its row), "new" or "gone" from `docs`, `srcs`, `files`, `used`
and the requests in flight. That no id is drawn twice, no file comes back and
no request touches another object's file is what the abstract steps allow.

### Events

`out[w]` is a service's outbox, its uncommitted changes and what it is publishing;
`channel` is what Redis has not handed over; `subs` holds for each stream the queue
and what its browser got. A step ends where the code awaits. `mode` is `"memory"`
without Redis: then the events of a worker reach nobody (`lost`). The shutdown is
in steps: the reader is cancelled, Redis is told (`StopFails`: one of those three calls
raises or never returns, and `close_all` is not reached), and then those of
`close_all`, the queues it has passed, the one it waits for, and the failure of its
loop when a stream unsubscribes meanwhile. `ReaderDies` is the end of `_reader_loop`
on any error; nothing restarts it. A browser reads, stalls (its stream waits in
`yield` and takes nothing more from its queue) or is gone. `missed` holds what a
stream was opened too late for and what found its queue full.
`EveryChangeArrives` does not speak of a stream that stalls; `StopEndsStreams` names
the three ways in which the end does not reach a browser that reads: Redis failed,
a stream ended while `close_all` waited, or it waits for a full queue that a stalled
or cancelled stream will never empty.

### Sessions

One account and one address. The counter of failures and the keys of refresh tokens
have times to live that `Tick` makes run out; the expiry a token carries itself is
a second, separate one. Reading the counter, checking the password and counting
are three steps, as are revoking, looking up the user and saving in a refresh.
`Die` is a process that ends anywhere: a session whose old token is revoked and
whose new one is not saved is over.

`SessionLife` has one variable, the phase of each session, a session being named by
the token of its login: "open" while one of its tokens has a key, "renewing" while a
request is between revoking the old token and saving the new one, then "over" if it
has had a token at all. Abstract steps never lead out of "over".

### TextFlow

A text is a sequence of words with breaks, and with spaces where they are not what
separates two words. `Mapped` is `map_to_suggestions` with
its normalisation and its reasons to skip; `InDocx` and `InText` are the two
exporters' applications of one change. The actions are the reply, the decisions,
the resets, and an export page by page; each page is a statement of its own.
`KeptIsApplied` is stated for items as the prompt asks for them, plus `modify`
items that repeat what they change. `Delivered` is what such a suggestion comes to:
the text of the reviewer before that of the model, except in a text file for a
delete, whose fragment `TextExporter` removes without looking at the edited text
(`DocxExporter` puts it in). Outside of these items the two sides disagree: an
addition to docx whose anchor spans two paragraphs is kept by the mapper
(`_skip_reason` returns before it looks for a break) and never applied by the
exporter, which looks into one paragraph; and a fragment with white space around it
is stripped for the mapper's check, stored as it came and, where the document has no
such white space, never found. `MCItems` holds items of all these kinds.

### Generation

`memory[p]` and `cache` are a token with the expiry assumed for it; `issued[t]` is
until when the server honours token `t`. `took` is the clock `_access_token` reads
once, before it fetches, and from which an expiry is counted that the server does
not name. The lock of `GigaChatOAuth` is per process and a worker process runs one
task at a time, so it never waits here. `TimeOut` is the soft limit: it may strike
between the assignments of `_token` and `_expires_at` too, and the process and its
memory live on. README.md:128 of the repository says the cache keeps processes that
start together from each fetching a token; with an empty cache they all do, since
nothing between processes makes one wait for the other.

### Revisions and Migrations

`Revisions` holds 38 revisions as lists of statements: what they do to the names of
a table, to the enumerated types and to the rules on rows; and the tables of the ORM
models. `Migrations` runs them: a revision is one transaction (`CommitRevision`),
except for what an `autocommit_block` commits before it (`ExecuteApart`). A statement
the database refuses ends the command (`Refuse`), and so does a crash. Between
commands, on the last revision, the application writes: analyses with what they
have come to, the end of an analysis that was running before the upgrade,
decisions and downloads with their log entries.

What came to light and the properties state around:

* An analysis that runs while 0017a drops `current_analysis_job_id` is nobody's
  current one after 0023 adds it again. When it ends, its document stays
  `in_progress` (`stranded`).
* A review under way when 0017a drops the column is out of reach after 0023: its
  document awaits approval, but without a current analysis the list of suggestions
  is empty and accepting is refused (suggestion_service.py:170-171, 188-189). Only a
  new analysis helps. 0017a:6 calls the column "never read". `StatusTellsTheReview`
  is about the current analysis and names these documents (`unlinked`).
* Rows the schema of 0001 allows make an upgrade be refused, and
  `UpgradeGoesThrough` lists them: 0016 casts the confidence, any float until then,
  to NUMERIC(4,3), which has no room for ten or more. Its rules are NOT VALID, but
  PostgreSQL asks them of every row written: 0017a fills in the document of every
  suggestion, so it is refused on a confidence outside 0..1, one revision before
  0017b would validate the rule; and it dates the sources without a date. A source
  without its file, text or address is refused there or by 0017b. Of the five rules
  0017b validates, the other three hold: the size comes with a default of 0, nothing
  writes `document_blocks`, and 0003 asks more of a log entry.
* Not modelled: the downgrade of 0024 is refused on a log entry without a user
  (the application writes none and deletes no user), and that of 0016 on a document
  whose name has more than 500 characters.
* 0012 says its rows of `partial_success` are removed further up the chain; nothing
  removes them, and 0006's downgrade is refused on them. A later upgrade goes
  through all the same.
* A database taken below 0006 and up again has forgotten which documents await
  approval: they are ready. Below 0003 a `reset` in the log blocks the way back up.
* The pipeline runs `alembic check` and a round trip on an empty database only.

## Runs

| Run | Bounds | Shows |
|---|---|---|
| `SourceClaim` | 2 deliveries, 1 crash, lease 2, limits 1, clocks 1 apart, 2 busy waits of 2, 1 LLM retry | the safety properties below, 2.6 M states |
| `SourceClaimLive` | 2 deliveries, 1 crash, lease 2, clocks 1 apart, 1 busy wait of 2, no LLM retry | every delivery ends, under fairness; refinement of `SourceResult` |
| `AnalysisJobs` | 2 requests at a time, 3 in all, 2 jobs, 1 key, 1 crash, lost tasks, lost answers | the guarantees of indexes and conditional UPDATEs; refinement of `JobLife`, 2.5 M states |
| `AnalysisSerial` | 1 request at a time, 4 in all, 3 jobs, 1 crash, lost tasks, no cancel | status follows job; analyses end |
| `Review` | 2 clients, 2 suggestions, 2 analyses that end well or not, 3 requests, every operation | optimistic lock, safe reopening; refinement of `ReviewLedger`, 1.1 M states |
| `AnalysisStuck` | 2 requests, 1 job, start and cancel | violation: cancelled job, document in_progress |
| `Library` | 2 clients, 2 documents, 2 sources of which one is an address, 5 requests, 1 failure of any kind | rows, files, freeze and refinement, 1.2 M states |
| `Events` | 2 writers, 2 streams of 2 users, queues of 1, 2 changes, 1 fault (a stalling browser counts as one) | order, truth and arrival of events, shutdown, 0.7 M states |
| `Sessions` | 3 clients, 2 attempts, 3 tokens, 6 requests | rotation, throttle and refinement of `SessionLife`, 0.3 M states |
| `TextFlow` | a heading and 3 paragraphs, 13 items, 2 suggestions, pages of 1, 2 resets | mapper against exporters, paging, 0.6 M states |
| `Generation` | 2 processes, 3 calls, 2 tokens, 1 retry, 1 fault | life of tokens, refresh, retry budgets, 5.7 M states |
| `Migrations` | 1 document, 2 old jobs, targets 0001, 0012, 0032, 3 commands, 2 writes, 1 crash | chain, rows and schema, 1.5 M states |

Properties of `SourceClaim`: `BatchMatchesRow` (repeated delivery never
duplicates suggestions), `OneCaller` (one paid call at a time), `HolderOwnsRow`
(what was paid for is not thrown away),
`GivesUpOnlyOnNewClaim` (20 waits of 30 seconds outlast a lease of 600
seconds), `FullBudget` (the two retry budgets are independent); of its liveness
run `EverySubtaskEnds` and `SourceResultSpec`, the refinement. Of
`AnalysisJobs`: `OneActiveJob`, `SameKeySameJob`, `EnqueuedOnce`,
`NeverOrphaned`, `JobLifeSpec` (the refinement), `DocFollowsJob`, `AnalysisEnds`. Of
`Review`: `SaveHoldsItsVersion`, `AwaitingIsAnalysed`, `ReadyUnlessReopened` (saves
side by side do not add up to a finished review), `ReviewLedgerSpec` (the
refinement). Of
`Library`: `RowHasFile`, `FilesAccounted`, `FrozenWhileAnalysed`, and
`StoredObjectSpec`, the refinement. Of `Events`: `SeenAfterCommit`, `InOrder`,
`EveryChangeArrives`, `StopEndsStreams`. Of `Sessions`: `OneTokenPerLogin` (a
rotation never forks), `AnsweredTokenWorks`, `AttemptsBounded` (the lock lets
through at most the requests that had passed it), `SessionLifeSpec`, the
refinement. Of `TextFlow`: `KeptIsApplied`,
`OthersStay`, `ExportComplete`. Of `Generation`: `TakenTokenIsAlive`,
`RefusedWithNewToken`. Of `Migrations`:
`UpgradeGoesThrough`, `InProgressHasItsJob`, `StatusTellsTheReview`,
`WritesAreTaken`, `SchemaIsTheModels`. The type invariants of all modules
with proofs (in `TextFlow_proofs` a part of `Pages`), `OkMeansStored` (which `SourceResultSpec` implies of stored batches),
`FinalizedIsTerminal` (`JobLifeSpec` implies it: a chord that is over is never "stuck"),
`DecisionsStick` (`ReviewLedgerSpec` names the operations that may undo a decision) and
`UnavailableAfterAllAttempts` are proved and therefore not checked again.

Why the bounds are enough. Two deliveries already give a holder, a waiter and,
with a crash, a takeover of an expired lease; the lease is one unit longer than
the hard limit, as the code demands on import, and clocks differ by that unit at
most; the busy waits together exceed the lease by as much or more, which the code's
do only for clocks that agree (20 · 30 s = 600 s). Two
requests and a worker give every race of a read and a write; two jobs give an
outdated job beside the current one. Two suggestions tell a request that matched
all of its rows from one that matched some. Clients, deliveries and suggestions
are interchangeable and are symmetry sets in the safety runs (the phase of a session
names tokens, not clients); the runs with liveness use none. The analysis and review runs stop when their requests are
used up and say `CHECK_DEADLOCK FALSE`; the claim never stops, because its clock
does not. In `Library` one failure at any place beside two requests is every way a
row and its file can part; two documents share a source. A queue of one event is
full as soon as it is used. In `Sessions` a third client lets two race beside one
that is logged in. In `TextFlow` one paragraph repeats a word of another, and pages
of one make every border between pages a page border. In `Generation` the default
life of a token is shorter than the real one, and the margin shorter than both, as
in the code (25 and 30 minutes, 1 minute); the clock can pass a whole life. In
`Migrations` the targets are the first revision, one before the ones that drop and
add the current analysis, and the last; three commands go up, down and up again.

Fairness. `FairSpec` of `SourceClaim`: a running worker takes its next step, the
pool's time limit strikes, the clock advances; nothing promises that the model
answers or fails in time, nor that anything crashes. `FairSpec` of
`AnalysisJobs`: the API process goes on with a request it has begun, the broker
delivers and the workers run; nobody has to send a request. `AnalysisEnds`
excepts a crash of the API process and a chord one of whose subtasks, or whose
finalising task, failed outright, because no code recovers from these: such a job
stays active, and its document in_progress, until it is cancelled. `Fairness` of `Events`: a service publishes what is in its outbox, the
reader reads while it lives, the task of a stream goes on when it has an event and its
browser reads, or when its browser is gone, and the shutdown goes on when it can: these
are tasks of one event loop, which runs what is ready. A browser may stall for ever
(`Stall`): nothing makes it read or go away, and nobody has to make a change, open a
stream or stop the process.

## Where code and documentation disagree

`AnalysisStuck`: a cancellation that loaded the document before a dispatch
committed assigns `draft` to an object that is `draft`; nothing is written. The job
is cancelled, the document stays `in_progress`, although the documentation draws
the way back to `draft`.

Further disagreements are behaviours of the models that the properties above state
around, and are listed with their lines in `hazards`. Three are of a cancellation,
too: `dispatch_job` overwrites one
committed after `create_job` returned the job, although `_JOB_TRANSITIONS` leads nowhere
from `cancelled`; `_finalize` overwrites one committed after it loaded the job, although
README.md:319 says a cancelled job is not overwritten; and `_process_source` stores the
batch of a job cancelled after its last look at it, although README.md:318 says
suggestions are written only while the job is active. What bounds the damage is proved:
no job that was queued and ended becomes active again, no two are active, none is queued
twice (`JobLifeSpec`), and no source gets a second batch. Then: a reset committed
between the count of pending suggestions and the commit of `ready` leaves a ready
document with an undecided suggestion (`Review`; hence `reopened` in
`ReadyUnlessReopened`); a `reset_analysis` that loaded a ready document writes
`awaiting_approval` without a condition, and a save that finalises writes `ready`, also
over a new analysis that has started meanwhile, so that its unfinished
suggestions can be decided, its dispatch is refused, or its end is (`Review`; hence
`overrun` in `AwaitingIsAnalysed`), although README.md:52 has a document await approval only
once its analysis is done, and `_reopen_review` (suggestion_service.py:150-167)
compares for this very race; a deleted document's own sources leave their files behind,
also for the deletion of the project, which promises to take them (`Library`); the
a source of the whole project is made or deleted while documents that use it are
analysed, although README.md:303 lets sources change everywhere except in `in_progress`
and README.md:49 has the project's take part in every analysis (`Library`, hence
`OfTheProject`); the end of the API's lifespan does not end the streams of browsers that
read when Redis fails first or one browser has stopped reading (`Events`, hence the
exceptions of `StopEndsStreams`); the text a reviewer puts in place of a deleted fragment is lost in the export of a text
file, although README.md:264 and 273 use it for every suggestion, a fragment with white
space around it is kept although the export cannot apply it (suggestion_mapper.py:13-14),
and so is a docx anchor over two paragraphs (`TextFlow`); the simultaneous fetch of tokens
(`Generation`); the notes under Migrations above. Further consequences of stale
snapshots are a start that leaves its job pending, `reset_analysis` over a running
analysis and a save that finalises after a new analysis. This is why
`DocFollowsJob` is checked for one client at a time. One client is not enough: if
the queue reports an error for a message it has taken, the job is marked
unavailable, the document is free, a new start is dispatched, and the first job's
finaliser, which loaded the document before, writes it. `AnalysisSerial` therefore
has a broker whose errors are true (`LosesAnswers = FALSE`), and so has the theorem.

## Proofs

Each theorem has the form `Spec => []P` (or `Spec => P` for an action property or
a refinement) for a property `P`, most of which some run checks on a small instance, and holds for every value of the constants that satisfies the named
assumptions of its module. The one further hypothesis is that of `DocumentFollows`,
named `OneClient`.

| Module | Theorem | Property |
|---|---|---|
| `SourceClaim_proofs` | `TypeCorrect` | `TypeOK` |
| | `OneBatch` | `BatchMatchesRow` |
| | `OkIsStored` | `OkMeansStored` |
| | `OneCallerAtATime` | `OneCaller` |
| | `HolderKeepsRow` | `HolderOwnsRow` |
| | `BudgetsAreFull` | `FullBudget` |
| | `PatienceIsEnough` | `GivesUpOnlyOnNewClaim` |
| | `ImplementsSourceResult` | `SourceResultSpec` |
| `AnalysisJobs_proofs` | `TypeCorrect` | `TypeOK` |
| | `OneActive` | `OneActiveJob` |
| | `QueuedOnce` | `EnqueuedOnce` |
| | `KeyAnswersOnce` | `SameKeySameJob` |
| | `NeverWaitsInVain` | `NeverOrphaned` |
| | `FinalIsFinal` | `FinalizedIsTerminal` |
| | `DocumentFollows` | `OneClient => DocFollowsJob` |
| | `ImplementsJobLife` | `JobLifeSpec` |
| `Review_proofs` | `TypeCorrect` | `TypeOK` |
| | `VersionIsHeld` | `SaveHoldsItsVersion` |
| | `AwaitsFinishedAnalysis` | `AwaitingIsAnalysed` |
| | `DecisionsAreKept` | `DecisionsStick` |
| | `ReadyIsDecided` | `ReadyUnlessReopened` |
| | `ImplementsReviewLedger` | `ReviewLedgerSpec` |
| `Library_proofs` | `TypeCorrect` | `TypeOK` |
| | `RowsHaveFiles` | `RowHasFile` |
| | `NoFileIsForgotten` | `FilesAccounted` |
| | `Frozen` | `FrozenWhileAnalysed` |
| | `ImplementsStoredObject` | `StoredObjectSpec` |
| `Events_proofs` | `TypeCorrect` | `TypeOK` |
| | `OnlyCommittedIsHeard` | `SeenAfterCommit` |
| | `StreamsAreInOrder` | `InOrder` |
| `Sessions_proofs` | `TypeCorrect` | `TypeOK` |
| | `SessionsDoNotFork` | `OneTokenPerLogin` |
| | `GivenTokensWork` | `AnsweredTokenWorks` |
| | `LockHolds` | `AttemptsBounded` |
| | `ImplementsSessionLife` | `SessionLifeSpec` |
| `TextFlow_proofs` | `PagesMakeUpTheList` | `ExportComplete` |
| `Generation_proofs` | `TypeCorrect` | `TypeOK` |
| | `TakenTokenLives` | `TakenTokenIsAlive` |
| | `RefusalIsOfANewToken` | `RefusedWithNewToken` |
| | `AllAttemptsAreMade` | `UnavailableAfterAllAttempts` |

**SourceClaim**, for any number of deliveries, crashes and ticks. Assumed: the
limits are natural numbers, the hard limit is shorter than the lease, Celery's
limit is the sum of the two budgets, and all busy waits together are at least as
long as the lease (`WaitAssumption`; in the code they are equal, 20 · 30 s = 600 s).
What clocks that differ do to these margins is in the hypotheses of the properties:
`DiesInTime` wants `TimeLimit + ClockSkew <= Lease`, for which the code leaves 30
seconds, and `WaitsOutlastLease` wants `Lease + ClockSkew <= BusyLimit *
BusyCountdown`, for which it leaves none. `OneBatch` rests on tokens: the row's token
is never larger than the number of claims issued, and is exactly that number
while the row is processing; a delivery's token never exceeds it either, so a
delivery that owns the row holds the last claim, and `Store` is the only step
that adds a batch. `OneBatch` needs no time limit at all: it also holds with
`KillsOverdue = FALSE`. `HolderKeepsRow` and `OneCallerAtATime` do need it: while
a delivery holds the row, the lease is not older than the delivery's own task,
which is not older than `TimeLimit`; so on no clock within `ClockSkew` anybody's
claim can succeed meanwhile. `BudgetsAreFull` needs that the message's count of retries never
exceeds those of the two budgets together, so that Celery's limit is reached only
with both budgets spent. `PatienceIsEnough` needs `WaitInv`: a delivery that waits
for a claim which is still there has seen it grow older by one countdown for each
wait begun, less what is left of the present wait, so when the waits are used up the
lease has run out; and `ClaimFree` then grants the claim to the delivery itself
instead of answering busy. `ImplementsSourceResult` puts these together: `Store` is
the abstract `Store` because it finds no batch, an acknowledgement is an `Answer` to
a chord that has none from this delivery yet, and everything else is a stutter.

**AnalysisJobs**, for any number of clients, keys, jobs, requests and crashes.
Assumed: the shape of the constants, and that `NoKey` is no key. The inductive
invariant has three parts beside the types. `Keys`: no two jobs share a key, and
an answer names a job of its key; `Insert` keeps it because the index leaves it no
job of the key to collide with. `Queue`: a job was handed over once if its chord
exists and never otherwise, task ids and revocations exist only for such jobs, and
a revoked or finalised job has ended. `Requests`: of the requests on their way to
the queue no two have the same job, and their jobs have no chord yet; a request
that revokes has an ended job. `OneActive` does not need the requests at all: each
of the three steps that can make a job active is guarded at its commit by the
index or by the condition of its UPDATE. `QueuedOnce` and `NeverWaitsInVain` do:
`Enqueue` finds no chord only because nobody else is before the queue with this
job. `FinalIsFinal` needs the link of the two: `dispatch_job` writes its status
blindly, but cannot hit a finalised job, as its own job is not yet in the queue.

`DocumentFollows` is about stale reads, and says what makes them harmless. Its
hypothesis `OneClient` is one request at a time, no cancellation, and a broker whose
errors are true; each is needed (see above). `Rows`: only the document's current job
can be active, its chord exists while it is queued or running, and a finaliser has
loaded the document as it is now. `Client`: what the request in flight has loaded is
still so, since no worker writes a document that is not in progress and nobody else
writes a job before it is in the queue. A request may die at any step; a lemma per
step shows that the half-done work it leaves keeps `Rows`.

`ImplementsJobLife` first shows that no job is ever "stuck", which is `FinalIsFinal`;
so the phase of every job is one `JobLife` knows, before and after each step. Then each
action is shown to leave all jobs in their phases or to move one of them: `Insert`
opens it, `Dispatch` opens it or finds it open, `Enqueue` queues it or ends it if it
was shut, and the endings shut or end it. That `Enqueue` finds a job that is not in
the queue is `Requests`; that nothing is live beside a job that opens is the index,
evaluated at the commit of `Insert` and of `Dispatch`.

**Review**, for any number of clients, suggestions and analyses. The invariant has
`Locks` (no two requests have uncommitted writes to one row), `Stored` (what the
committed rows say: a document under review or ready has an analysis that ended well
or was overrun, and none after it has begun) and `Sound`,
what a request in flight relies on: since it took the version nobody else could
bump it, each decision it has written is over a pending suggestion, the analysis it
loaded has ended well or was overrun, and a document
`_reopen_review` reopens still belongs to it. `ReadyIsDecided` adds
`FirstReview`: until the first reset or new analysis a suggestion that a finalising
save has counted as decided stays decided, because only its own transaction and
committed saves write decisions and none of them writes `pending`.

`ImplementsReviewLedger` has to find in every commit one operation on the rows as
they are at that moment, although the request decided what to write some statements
earlier. `Held` is the strengthening this needs, again one clause per thing a request
has put aside: all it has written belongs to the analysis it loaded, what it takes
back is decided still, the version is taken by saves and by every save, and a request
that reopens the document, but for `reset_analysis`, has taken something back and still
finds it `ready`. With it and `Sound` a
`Commit` is a `Save`, a `Decide`, a `Reset`, a `ResetAll` or a `Reopen` of the ledger by what the
request holds, and the steps of an analysis are those of the ledger under the same
names; the document changing under a request is where `Held` could break, and the locks
on its rows (`Locks`) are why it does not.

**Library**, for any number of clients, documents, sources, requests and failures;
nothing is assumed but the shape of the constants. `FreshIds` and `OneMaker` say that
an id not drawn has left no trace and that one request at most is making the object
of an id. `Shape` says what a request holds at each place, `Relies` what it takes for
granted there: a file it has put is still there when it inserts the row, the rows
whose files it removes are deleted. `Owned` is the accounting itself, stated for every
object. `Warned` is what `Frozen` rests on: either the status a request checked is the
status still, or the request is marked as overtaken; that leaves the requests of
`OfTheProject`, which check nothing of the document. `ImplementsStoredObject` shows
for each step which object it moves and that no other object changes its phase, a
request in flight being part of an object's phase too.

**Events**, for any number of services, streams, changes and any size of the queues.
A change moves from outbox to channel to queue to browser. `Places` says that what is
in any of them is committed, and what is in an uncommitted outbox is of that
transaction. `Order` compares two places at a time: what is further on was recorded
before what is behind it, if one service recorded both, and is not the same change.
A step takes the head of one sequence to the tail of the next, so the lemmas about
sequences that the steps share are proved once. It holds with Redis and without it,
because without it the channel stays empty. That events arrive and streams end is
liveness and stays with the run.

**Sessions**, for any finite set of clients and any lives of tokens and locks. A
session could fork in three ways, two working tokens, two requests about to issue the
next one, or one of each; `OneWorks`, `OneHolds` and `NotBoth` exclude them and need
each other: `revoke_if_valid` turns the only working token into the only request, and
`Save` turns it back. `GivenTokensWork` needs that the key outlives what the token
says of itself (`KeyOutlivesToken`). `LockHolds` counts: the failures plus the
requests already past the lock never exceed the limit less one plus the number of
clients. `ImplementsSessionLife` adds `Successive`: who is about to issue a token does
so for a login that already has had one, so nothing but a login starts a session and
nothing revives one.

**TextFlow**, for any document, any number of suggestions, resets and decisions and
any page size. Pages are cut by position in a list that changes between two of them.
The proof counts: the position of an accepted suggestion is its `Rank`, the number of
accepted ones up to it, which grows with what enters and shrinks with what leaves.
`Pages` says that while nothing was taken back no unread suggestion lies below the
offset (`Unread`), and while nothing entered all that lies ahead comes after what was read
(`Behind`, `Ordered`); a short page ends the export with all read (`AllRead`).

**Generation**, for any number of processes, calls, tokens and any lives of tokens.
Assumed: the margin is shorter than the default life, and that not longer than the
life of a token, as in the code (1, 25 and 30 minutes). The difficult case is a
process cut off by its time limit between its two assignments: it is left with a new
token beside the expiry of the old one. `Memory` says why such a half-written pair is
harmless: a token that was fetched outlives the old expiry, and one is taken from Redis
only when the old expiry is within the margin, so no call takes the pair for fresh.
`Token` follows a token through a call, `Rounds` counts the attempts and says that after a 401 a forced refresh ends with a
token issued later than it.

What only TLC checks, and why:

* `EverySubtaskEnds`, `AnalysisEnds`, `EveryChangeArrives` and `StopEndsStreams` are
  liveness under fairness, which the prover does not do.
* `KeptIsApplied` and `OthersStay` say what recursive operators on texts return for
  every text; that takes an induction over data.
* The five properties of `Migrations` fold 38 concrete revisions over the schema. The
  data are finite and TLC evaluates all of them; no constant is left to generalise over
  but the number of documents and commands.

## Plan

1. `InProgressHasItsJob` and `StatusTellsTheReview` for any number of documents, with a
   non-recursive description of what a range of revisions does to a row.
2. The editor's blocks and the paging of lists by key.

## Not modelled

The HTTP layer and the source connectors are validation, wiring and I/O without
state; the dashboard and the audit log's listing are queries. Renaming and moving
documents and sources change one row. Parsers of html and pdf, and the segmentation
into blocks for the editor, are formatting. Of the database: column types other than
enumerated ones, lengths, defaults, triggers and what a foreign key does on a
deletion. Password hashing and access tokens have no state. Texts, ids, names and
timestamps are abstracted to what the properties tell apart.

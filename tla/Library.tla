------------------------------- MODULE Library -------------------------------
(***************************************************************************)
(* The documents and sources of one project, their files in the object     *)
(* storage and the lock an analysis puts on them (document_service.py,     *)
(* source_service.py, project_service.py of app/domain/services).          *)
(*                                                                         *)
(* A file and the row that owns it cannot be committed together.  Uploads  *)
(* write the file first and take it back when the row fails; deletions     *)
(* remove the row first and then, at best effort, the file.  A step is one *)
(* call of the storage or one statement of the database whose effects      *)
(* others can tell apart; what a request has loaded may be stale by then.  *)
(* The analysis itself is module AnalysisJobs; here it only begins, which  *)
(* freezes what the document is analysed with, and ends.                   *)
(***************************************************************************)
EXTENDS Naturals, FiniteSets, Lifecycle

CONSTANTS
  Req,          \* clients, each with one request in flight
  Doc,          \* ids of documents: uuid4, drawn once
  Src,          \* ids of sources, likewise
  Url,          \* the sources that are addresses and have no file
  Ops,          \* operations requested
  Faults,       \* what may fail: a subset of {"crash", "storage", "answer"}
  MaxFaults,    \* bound on the failures
  MaxRequests   \* bound on requests served

ASSUME LibraryAssumption ==
  /\ Url \subseteq Src /\ Doc \cap Src = {}
  /\ Ops \subseteq {"upload", "create", "link", "attach", "delete_source", "delete_document", "delete_project"}
  /\ Faults \subseteq {"crash", "storage", "answer"}
  /\ MaxFaults \in Nat /\ MaxRequests \in Nat

VARIABLES
  project,   \* the row of projects exists
  docs,      \* rows of documents: their status, none before and deleted after
  srcs,      \* rows of sources: their scope, none before and deleted after
  attached,  \* rows of document_sources
  files,     \* objects in the storage, by the id their key is made of
  used,      \* ids drawn
  leaked,    \* history: ids whose file nobody is left to remove
  doubted,   \* history: ids whose insert was committed but reported as failed
  req,       \* per client, its request
  served,    \* requests served so far
  faults     \* failures so far

rows == <<project, docs, srcs, attached>>
vars == <<project, docs, srcs, attached, files, used, leaked, doubted, req, served, faults>>

Object == Doc \cup Src
Scope  == {"project", "document"}
Stored == Doc \cup (Src \ Url)   \* objects with a file

\* A request: its place; the document it is about, if any; the sources it is about; the
\* files it has put or is to remove; the documents whose analysis began, or
\* that were given a source, after it had arrived and checked them (history).
Idle == [pc |-> "idle", op |-> "none", doc |-> {}, src |-> {}, keys |-> {}, victims |-> {}, overtaken |-> {}]

Live(d) == docs[d] \in DocumentStatus
Exists(s) == srcs[s] \in Scope
HasRow(o) == IF o \in Doc THEN Live(o) ELSE Exists(o)

Init ==
  /\ project = TRUE
  /\ docs = [d \in Doc |-> "none"] /\ srcs = [s \in Src |-> "none"]
  /\ attached = {} /\ files = {} /\ used = {} /\ leaked = {} /\ doubted = {}
  /\ req = [r \in Req |-> Idle]
  /\ served = 0 /\ faults = 0

-----------------------------------------------------------------------------
(* Requests, failures and locks.                                           *)

Arrive(r, op) ==
  /\ op \in Ops /\ req[r].pc = "idle" /\ served < MaxRequests /\ project
  /\ served' = served + 1

Enter(r, op, pc, ds, ss) ==
  req' = [req EXCEPT ![r] = [Idle EXCEPT !.pc = pc, !.op = op, !.doc = ds, !.src = ss]]
Move(r, pc) == req' = [req EXCEPT ![r].pc = pc]
Leave(r) == req' = [req EXCEPT ![r] = Idle]

Fault(kind) == kind \in Faults /\ faults < MaxFaults /\ faults' = faults + 1

\* Sources whose rows a transaction has deleted but not committed are locked.
Unlocked(r, ss) == \A q \in Req \ {r} : req[q].victims \cap ss = {}

\* Documents change after the requests in flight have checked them.
Overtake(ds) ==
  [r \in Req |-> IF req[r].pc = "idle" THEN Idle ELSE [req[r] EXCEPT !.overtaken = @ \cup ds]]

\* The rows of document_sources an ON DELETE CASCADE leaves.
Detached(ds, ss) == {p \in attached : p[1] \notin ds /\ p[2] \notin ss}

-----------------------------------------------------------------------------
(* Uploads: the file, then the row.                                        *)

\* upload_document: get_allowed_project has found the project.  The key is made of the
\* id drawn, not of the file's name.
UploadDocument_KeyOfName(r) ==
  /\ Arrive(r, "upload")
  /\ \E d \in {e \in Doc : ~Live(e) /\ \A q \in Req : e \notin req[q].doc} :
       /\ used' = used \cup {d}
       /\ Enter(r, "upload", "put", {d}, {})
  /\ UNCHANGED <<rows, files, leaked, doubted, faults>>
UploadDocument(r) ==
  /\ Arrive(r, "upload")
  /\ \E d \in Doc \ used :
       /\ used' = used \cup {d}
       /\ Enter(r, "upload", "put", {d}, {})
  /\ UNCHANGED <<rows, files, leaked, doubted, faults>>

\* _target_document: a source of scope document needs one that lets its sources change.
TargetDocument == {{}} \cup {{d} : d \in {e \in Doc : Live(e) /\ CanEditSources(docs[e])}}

\* create_file_source and create_note_source.
CreateStoredSource(r) ==
  /\ Arrive(r, "create")
  /\ \E s \in Src \ (Url \cup used), ds \in TargetDocument :
       /\ used' = used \cup {s}
       /\ Enter(r, "create", "put", ds, {s})
  /\ UNCHANGED <<rows, files, leaked, doubted, faults>>

\* create_url_source: the same without a file.
CreateUrlSource(r) ==
  /\ Arrive(r, "link")
  /\ \E s \in Url \ used, ds \in TargetDocument :
       /\ used' = used \cup {s}
       /\ Enter(r, "link", "insert", ds, {s})
  /\ UNCHANGED <<rows, files, leaked, doubted, faults>>

\* S3FileStorage.upload, under a key made of the id.  When it fails the object may have
\* been written all the same, and nobody takes it back.
Put(r) ==
  LET key == IF req[r].op = "upload" THEN req[r].doc ELSE req[r].src IN
  /\ req[r].pc = "put"
  /\ files' = files \cup key
  /\ \/ /\ req' = [req EXCEPT ![r].pc = "insert", ![r].keys = key]
        /\ UNCHANGED <<leaked, faults>>
     \/ Fault("storage") /\ Leave(r) /\ leaked' = leaked \cup key
  /\ UNCHANGED <<rows, used, doubted, served>>
PutFails(r) ==
  /\ req[r].pc = "put" /\ Fault("storage") /\ Leave(r)
  /\ UNCHANGED <<rows, files, used, leaked, doubted, served>>

\* The foreign keys of the rows to insert.
ParentsExist(r) == project /\ \A d \in Doc \cap req[r].doc : req[r].op = "upload" \/ Live(d)

Written(r) ==
  IF req[r].op = "upload"
  THEN docs' = [d \in Doc |-> IF d \in req[r].doc THEN "draft" ELSE docs[d]] /\ UNCHANGED <<srcs, attached>>
  ELSE /\ srcs' = [s \in Src |-> IF s \notin req[r].src THEN srcs[s]
                                 ELSE IF req[r].doc = {} THEN "project" ELSE "document"]
       /\ attached' = attached \cup (req[r].doc \X req[r].src)
       /\ UNCHANGED docs

\* The rows are inserted and committed; the answer of the commit may be lost.
Insert(r) ==
  /\ req[r].pc = "insert" /\ ParentsExist(r) /\ Written(r)
  /\ \/ Leave(r) /\ UNCHANGED <<doubted, faults>>
     \/ /\ Fault("answer")
        /\ doubted' = doubted \cup req[r].keys
        /\ IF req[r].keys = {} THEN Leave(r) ELSE Move(r, "undo")
  /\ UNCHANGED <<project, files, used, leaked, served>>

\* The insert or its commit fails: a parent is gone, or the database breaks a deadlock.
InsertFails_KeepsFile(r) ==
  /\ req[r].pc = "insert" /\ Leave(r)
  /\ UNCHANGED <<rows, files, used, leaked, doubted, served, faults>>
InsertFails(r) ==
  /\ req[r].pc = "insert"
  /\ IF req[r].keys = {} THEN Leave(r) ELSE Move(r, "undo")
  /\ UNCHANGED <<rows, files, used, leaked, doubted, served, faults>>

\* The exception handler takes the file back.
Undo(r) ==
  /\ req[r].pc = "undo" /\ Leave(r)
  /\ \/ files' = files \ req[r].keys /\ UNCHANGED <<leaked, faults>>
     \/ Fault("storage") /\ leaked' = leaked \cup req[r].keys /\ UNCHANGED files
  /\ UNCHANGED <<rows, used, doubted, served>>

-----------------------------------------------------------------------------
(* Attachment, and deletions: the row, then the file.                      *)

\* attach_sources: the document and the sources are loaded, the status checked.
AttachSources(r) ==
  /\ Arrive(r, "attach")
  /\ \E d \in Doc, ss \in SUBSET {s \in Src : Exists(s)} :
       /\ Live(d) /\ CanEditSources(docs[d]) /\ ss # {}
       /\ Enter(r, "attach", "attach", {d}, ss)
  /\ UNCHANGED <<rows, files, used, leaked, doubted, faults>>

\* attach_to_document, ON CONFLICT DO NOTHING, for every source, and the commit; a row
\* that is gone fails them all.
Attach(r) ==
  /\ req[r].pc = "attach" /\ Unlocked(r, req[r].src)
  /\ req' = [Overtake(req[r].doc) EXCEPT ![r] = Idle]
  /\ attached' = IF (\A d \in req[r].doc : Live(d)) /\ (\A s \in req[r].src : Exists(s))
                 THEN attached \cup (req[r].doc \X req[r].src) ELSE attached
  /\ UNCHANGED <<project, docs, srcs, files, used, leaked, doubted, served, faults>>

\* delete_source: none of the documents it is attached to may be under analysis; those
\* that use it because it is the project's are not looked at.  The checks are three reads;
\* what changes between them could as well change after them.
DeleteSource_NoLock(r) ==
  /\ Arrive(r, "delete_source")
  /\ \E s \in Src : Exists(s) /\ Enter(r, "delete_source", "drop", {}, {s})
  /\ UNCHANGED <<rows, files, used, leaked, doubted, faults>>
DeleteSource(r) ==
  /\ Arrive(r, "delete_source")
  /\ \E s \in Src :
       /\ Exists(s) /\ \A d \in Doc : <<d, s>> \in attached => CanEditSources(docs[d])
       /\ Enter(r, "delete_source", "drop", {}, {s})
  /\ UNCHANGED <<rows, files, used, leaked, doubted, faults>>

\* The deletion and its commit, then the file.  A source that is gone already is only a
\* warning of the session.
Drop(r) ==
  LET ss == req[r].src IN
  /\ req[r].pc = "drop" /\ Unlocked(r, ss)
  /\ srcs' = [s \in Src |-> IF s \in ss THEN "deleted" ELSE srcs[s]]
  /\ attached' = Detached({}, ss)
  /\ \/ /\ req' = [req EXCEPT ![r].pc = "erase", ![r].keys = ss \ Url]
        /\ UNCHANGED <<leaked, faults>>
     \/ Fault("answer") /\ Leave(r) /\ leaked' = leaked \cup (ss \cap files)
  /\ UNCHANGED <<project, docs, files, used, doubted, served>>

\* delete_document_by_id: the document is loaded and its status checked.
DeleteDocument(r) ==
  /\ Arrive(r, "delete_document")
  /\ \E d \in Doc :
       Live(d) /\ CanDelete(docs[d]) /\ Enter(r, "delete_document", "scoped", {d}, {})
  /\ UNCHANGED <<rows, files, used, leaked, doubted, faults>>

\* delete_document_scoped_sources: of the sources attached by now.
DeleteScopedSources(r) ==
  LET mine == {s \in Src : srcs[s] = "document" /\ \E d \in req[r].doc : <<d, s>> \in attached} IN
  /\ req[r].pc = "scoped" /\ Unlocked(r, mine)
  /\ req' = [req EXCEPT ![r].pc = "row", ![r].victims = mine]
  /\ UNCHANGED <<rows, files, used, leaked, doubted, served, faults>>

\* delete_by_id, whatever the status is by now, and the commit.  Only the keys of the
\* document itself are removed from the storage afterwards: those of its sources are lost.
DeleteRow(r) ==
  LET ds == req[r].doc  ss == req[r].victims IN
  /\ req[r].pc = "row" /\ \A d \in ds : Live(d)
  /\ docs' = [d \in Doc |-> IF d \in ds THEN "deleted" ELSE docs[d]]
  /\ srcs' = [s \in Src |-> IF s \in ss THEN "deleted" ELSE srcs[s]]
  /\ attached' = Detached(ds, ss)
  /\ \/ /\ req' = [req EXCEPT ![r].pc = "erase", ![r].keys = ds, ![r].victims = {}]
        /\ leaked' = leaked \cup (ss \cap files)
        /\ UNCHANGED faults
     \/ Fault("answer") /\ Leave(r) /\ leaked' = leaked \cup ((ds \cup ss) \cap files)
  /\ UNCHANGED <<project, files, used, doubted, served>>

\* delete_project: collect_storage_keys, whatever the documents' statuses are.
DeleteProject(r) ==
  /\ Arrive(r, "delete_project") /\ Enter(r, "delete_project", "collect", {}, {})
  /\ UNCHANGED <<rows, files, used, leaked, doubted, faults>>
CollectKeys(r) ==
  /\ req[r].pc = "collect"
  /\ req' = [req EXCEPT ![r].pc = "wipe", ![r].keys = {o \in Stored : HasRow(o)}]
  /\ UNCHANGED <<rows, files, used, leaked, doubted, served, faults>>

\* The row of the project and, by cascade, all others, also those added since.
Wipe(r) ==
  LET lost == {o \in Stored : HasRow(o)} \ req[r].keys IN
  /\ req[r].pc = "wipe" /\ Unlocked(r, Src)
  /\ project' = FALSE
  /\ docs' = [d \in Doc |-> IF Live(d) THEN "deleted" ELSE docs[d]]
  /\ srcs' = [s \in Src |-> IF Exists(s) THEN "deleted" ELSE srcs[s]]
  /\ attached' = {}
  /\ \/ Move(r, "erase") /\ leaked' = leaked \cup (lost \cap files) /\ UNCHANGED faults
     \/ Fault("answer") /\ Leave(r) /\ leaked' = leaked \cup ((lost \cup req[r].keys) \cap files)
  /\ UNCHANGED <<files, used, doubted, served>>

\* A deletion whose row is gone already, or that the database aborts, is rolled back.
Rollback_ErasesAnyway(r) ==
  /\ req[r].pc \in {"attach", "drop", "scoped", "row", "collect", "wipe"}
  /\ req' = [req EXCEPT ![r].pc = "erase", ![r].keys = @ \cup (req[r].src \ Url)]
  /\ UNCHANGED <<rows, files, used, leaked, doubted, served, faults>>
Rollback(r) ==
  /\ req[r].pc \in {"attach", "drop", "scoped", "row", "collect", "wipe"} /\ Leave(r)
  /\ UNCHANGED <<rows, files, used, leaked, doubted, served, faults>>

\* _delete_storage_objects: a failure is logged and the next key tried.
EraseOne(r) ==
  \E o \in req[r].keys :
    /\ req[r].pc = "erase"
    /\ req' = [req EXCEPT ![r].keys = @ \ {o}]
    /\ \/ files' = files \ {o} /\ UNCHANGED <<leaked, faults>>
       \/ Fault("storage") /\ leaked' = leaked \cup ({o} \cap files) /\ UNCHANGED files
    /\ UNCHANGED <<rows, used, doubted, served>>
EraseDone(r) ==
  /\ req[r].pc = "erase" /\ req[r].keys = {} /\ Leave(r)
  /\ UNCHANGED <<rows, files, used, leaked, doubted, served, faults>>

\* The process dies: its transaction is rolled back, the files stay.
Die(r) ==
  /\ req[r].pc # "idle" /\ Fault("crash") /\ Leave(r)
  /\ leaked' = leaked \cup {o \in req[r].keys \cap files : ~HasRow(o)}
  /\ UNCHANGED <<rows, files, used, doubted, served>>

-----------------------------------------------------------------------------
(* The analysis.                                                           *)

\* dispatch_job commits the status; requests that arrived before have read another one.
Dispatch(d) ==
  /\ Live(d) /\ docs[d] = "draft"
  /\ docs' = [docs EXCEPT ![d] = "in_progress"]
  /\ req' = Overtake({d})
  /\ UNCHANGED <<project, srcs, attached, files, used, leaked, doubted, served, faults>>

\* _finalize, cancel_job: the document leaves in_progress.
EndAnalysis(d) ==
  /\ docs[d] = "in_progress"
  /\ \E to \in DocumentTargets("in_progress") : docs' = [docs EXCEPT ![d] = to]
  /\ UNCHANGED <<project, srcs, attached, files, used, leaked, doubted, req, served, faults>>

Next ==
  \/ \E r \in Req :
       \/ UploadDocument(r) \/ CreateStoredSource(r) \/ CreateUrlSource(r)
       \/ Put(r) \/ PutFails(r) \/ Insert(r) \/ InsertFails(r) \/ Undo(r)
       \/ AttachSources(r) \/ Attach(r) \/ DeleteSource(r) \/ Drop(r)
       \/ DeleteDocument(r) \/ DeleteScopedSources(r) \/ DeleteRow(r)
       \/ DeleteProject(r) \/ CollectKeys(r) \/ Wipe(r)
       \/ Rollback(r) \/ EraseOne(r) \/ EraseDone(r) \/ Die(r)
  \/ \E d \in Doc : Dispatch(d) \/ EndAnalysis(d)

Spec == Init /\ [][Next]_vars

-----------------------------------------------------------------------------
(* Properties.                                                             *)

\* A document or source that can be opened has its file, through every failure and race,
\* unless the answer of its own insert was lost (the handler then removes the file of a
\* row that exists).
RowHasFile == \A o \in Stored : HasRow(o) => o \in files \/ o \in doubted

\* Every object in the storage is owned by a row or by a request that will give it one or
\* remove it, or it was leaked where the code gives it up: a failure, the sources of a
\* deleted document, what was added while the project's keys were collected.
FilesAccounted ==
  \A o \in files : HasRow(o) \/ o \in leaked \/ \E r \in Req : o \in req[r].keys

\* list_for_analysis: the project's sources and those attached to the document.
SourcesOf(d) == {s \in Src : srcs[s] = "project" \/ <<d, s>> \in attached}

\* The requests no check stops: of a source of the whole project, its making, and its
\* deletion while it is not attached to the document as well.
OfTheProject(r, d) ==
  \/ req[r].op \in {"create", "link"} /\ req[r].doc = {}
  \/ req[r].op = "delete_source" /\ \A s \in req[r].src : <<d, s>> \notin attached

\* While a document is analysed nobody deletes it or changes what list_for_analysis reads
\* for it, except a request that checked before the analysis began or before such a
\* request came in, the deletion of another document that takes a shared source with it,
\* that of the project, and the requests OfTheProject, against src/README.md:49 and 303.
MayTouch(r, d) ==
  /\ req[r].pc # "idle" /\ req'[r].pc # req[r].pc
  /\ \/ d \in req[r].overtaken
     \/ req[r].op = "delete_project"
     \/ req[r].op = "delete_document" /\ d \notin req[r].doc
     \/ OfTheProject(r, d)
FrozenWhileAnalysed ==
  [][\A d \in Doc :
       docs[d] = "in_progress" /\ (docs'[d] = "deleted" \/ SourcesOf(d)' # SourcesOf(d))
         => \E r \in Req : MayTouch(r, d)]_vars

\* An object's life in the words of StoredObject.
Status(o) == IF o \in Doc THEN docs[o] ELSE srcs[o]
Awaited(o) ==   \* its file is still to be put
  \/ o \notin used
  \/ \E r \in Req : req[r].pc = "put" /\ o \in req[r].doc \cup req[r].src /\ (o \in Doc => req[r].op = "upload")
PhaseOf(o) ==
  CASE HasRow(o) /\ o \in files                            -> "kept"
    [] HasRow(o) /\ o \notin files                         -> "broken"
    [] ~HasRow(o) /\ o \in files /\ Status(o) = "none"     -> "offered"
    [] ~HasRow(o) /\ o \in files /\ Status(o) # "none"     -> "left"
    [] ~HasRow(o) /\ o \notin files /\ Awaited(o)          -> "new"
    [] ~HasRow(o) /\ o \notin files /\ ~Awaited(o)         -> "gone"
Storage == INSTANCE StoredObject WITH Object <- Stored, phase <- [o \in Stored |-> PhaseOf(o)]

\* No object, row or file comes back once it is gone, no row is written before its file,
\* and no file of another object is touched: the library implements StoredObject.
StoredObjectSpec == Storage!Spec
=============================================================================

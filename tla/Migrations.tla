------------------------------ MODULE Migrations ------------------------------
(***************************************************************************)
(* The database under `alembic upgrade` and `alembic downgrade`            *)
(* (alembic/env.py, alembic/versions), with the rows that were there       *)
(* before and those the application of the last revision writes.           *)
(*                                                                         *)
(* A revision (module Revisions) runs in a transaction of its own, but for *)
(* what an autocommit_block commits before it; a command stops at a        *)
(* statement the database refuses, or with the process that runs it.  Of   *)
(* the rows, modelled are the statuses of documents, jobs and suggestions, *)
(* the current analysis, a suggestion's confidence, the type, date and     *)
(* contents of sources and the audit log.                                  *)
(***************************************************************************)
EXTENDS Revisions, FiniteSets, SequencesExt

CONSTANTS
  Doc,          \* documents
  None,         \* NULL
  Targets,      \* the revisions commands are given
  OldJobs,      \* jobs a document may have before the first upgrade
  MaxCommands,  \* bound on the commands run
  MaxWrites,    \* bound on the writes of the application
  MaxCrashes    \* bound on the crashes of a command

ASSUME MigrationsAssumption ==
  /\ OldJobs \in Nat /\ MaxCommands \in Nat /\ MaxWrites \in Nat /\ MaxCrashes \in Nat
  /\ None \notin Doc

VARIABLES
  db,       \* what is committed
  cmd,      \* the command: none, upgrade or downgrade, its target revision, the next of its revision's statements
  refusal,  \* the last statement refused, if any, with its command
  unlinked, \* history: the analysis that was current when its column was dropped, while no other is current
  stranded, \* history: documents left in progress by an analysis that was not their current one
  turned,   \* history: writes of the application the database turned away
  spent     \* commands, writes and crashes so far

vars == <<db, cmd, refusal, unlinked, stranded, turned, spent>>

-----------------------------------------------------------------------------
(* The rows.                                                               *)

ActiveNow == {"pending", "dispatched", "processing"}
OnDocument == {"download", "finalize", "finalize_review"}

JobsOf(d, x) == {j \in DOMAIN d.job : d.job[j].doc = x}
Newest(J)    == CHOOSE j \in J : \A k \in J : k <= j     \* created_at DESC, id DESC

PendingIn(d, j) == \E s \in d.sug : s.job = j /\ s.status = "pending"

\* The constraints the statements add, and what each asks of the rows.
Holds(c, d) ==
  CASE c = "one active job" -> \A x \in Doc :
         Cardinality({j \in JobsOf(d, x) : d.job[j].status \in {"pending", "processing"}}) <= 1
    [] c = "one active job, dispatched too" -> \A x \in Doc :
         Cardinality({j \in JobsOf(d, x) : d.job[j].status \in ActiveNow}) <= 1
    [] c = "target of a log entry" -> \A l \in d.log :
         \/ l.action \in {"accept", "reject"} /\ l.sug # None /\ l.doc = None
         \/ l.action = "download" /\ l.doc # None /\ l.sug = None
    [] c = "target of every log entry" -> \A l \in d.log :
         IF l.action \in OnDocument THEN l.doc # None /\ l.sug = None ELSE l.sug # None
    [] c = "a log entry refers" -> \A l \in d.log : l.sug # None \/ l.doc # None
    [] c = "a log entry has a suggestion" -> \A l \in d.log : l.sug # None
    [] c = "a suggestion has a document" -> \A s \in d.sug : s.doc # None
    [] c = "confidence has three decimals and one digit" -> \A s \in d.sug : s.confidence # "too large"
    [] c = "confidence in range" -> \A s \in d.sug : s.confidence = "in range"
    [] c = "a source is dated" -> \A s \in d.src : s.dated
    [] c = "fields of a source with text" -> \A s \in d.src :
         \/ s.type = "url" /\ "url" \in s.has
         \/ s.type = "file" /\ "key" \in s.has
         \/ s.type = "text" /\ "text" \in s.has
    [] c = "fields of a source" -> \A s \in d.src :
         \/ s.type = "file" /\ "key" \in s.has
         \/ s.type = "url" /\ "url" \in s.has
    \* The column comes with 0, and nothing writes the table of blocks.
    [] c \in {"no size is negative", "only headings have a level"} -> TRUE

\* The values of an enumerated type that rows hold.
Held(t, d) ==
  CASE t = "document_status"     -> {d.doc[x].status : x \in Doc}
    [] t = "analysis_job_status" -> {d.job[j].status : j \in DOMAIN d.job}
    [] t = "source_type"         -> {s.type : s \in d.src}
    [] t = "audit_action"        -> {l.action : l \in d.log}

-----------------------------------------------------------------------------
(* The statements that change rows.                                        *)

\* Mutants of the next definition: every document under analysis goes on; a suggestion of any
\* analysis counts.
Target_AlwaysOn(d, x) ==
  CASE d.doc[x].status \in {"uploaded", "error"} -> "draft"
    [] d.doc[x].status = "analyzing" -> "in_progress"
    [] d.doc[x].status = "analyzed" /\ d.doc[x].current # None
       /\ PendingIn(d, d.doc[x].current) -> "awaiting_approval"
    [] OTHER -> "ready"
Target_AnyAnalysis(d, x) ==
  CASE d.doc[x].status \in {"uploaded", "error"} -> "draft"
    [] d.doc[x].status = "analyzing" ->
         IF \E j \in JobsOf(d, x) : d.job[j].status \in {"pending", "processing"}
         THEN "in_progress" ELSE "draft"
    [] d.doc[x].status = "analyzed" /\ \E j \in JobsOf(d, x) : PendingIn(d, j) -> "awaiting_approval"
    [] OTHER -> "ready"

\* 0006: what a status of the old cycle becomes.
Target(d, x) ==
  LET r == d.doc[x] IN
  CASE r.status \in {"uploaded", "error"} -> "draft"
    [] r.status = "analyzing" ->
         IF \E j \in JobsOf(d, x) : d.job[j].status \in {"pending", "processing"}
         THEN "in_progress" ELSE "draft"
    [] r.status = "analyzed" /\ r.current # None /\ PendingIn(d, r.current) -> "awaiting_approval"
    [] OTHER -> "ready"

\* 0006: of several active jobs of a document the newest stays.
CloseSuperseded(d) ==
  LET active(x) == {j \in JobsOf(d, x) : d.job[j].status \in {"pending", "processing"}}
      closed    == UNION {active(x) \ {Newest(active(x))} : x \in {y \in Doc : active(y) # {}}}
  IN [d EXCEPT !.job = [j \in DOMAIN @ |->
       [@[j] EXCEPT !.status = IF j \in closed THEN "failed" ELSE @]]]

\* 0006, downwards.
Origin(s) == CASE s = "draft" -> "uploaded" [] s = "in_progress" -> "analyzing" [] OTHER -> "analyzed"

Updated(by, d) ==
  CASE by = "close superseded"     -> CloseSuperseded(d)
    [] by = "cancelled is failed"  ->
         [d EXCEPT !.job = [j \in DOMAIN @ |->
            [@[j] EXCEPT !.status = IF @ = "cancelled" THEN "failed" ELSE @]]]
    [] by = "name types anew"      ->
         [d EXCEPT !.src = {[s EXCEPT !.type = CASE @ = "note" -> "text" [] @ = "link" -> "url"
                                                 [] OTHER -> @] : s \in @}]
    [] by = "fill in documents"    -> [d EXCEPT !.sug = {[s EXCEPT !.doc = d.job[s.job].doc] : s \in @}]
    [] by = "date sources"         -> [d EXCEPT !.src = {[s EXCEPT !.dated = TRUE] : s \in @}]
    [] by = "technical is draft"   ->
         [d EXCEPT !.doc = [x \in Doc |->
            [@[x] EXCEPT !.status = IF @ \in {"error", "cancelled"} THEN "draft" ELSE @]]]

\* The suggestions and sources such a statement writes, alone: a rule that is not validated yet
\* is asked of every row written, whatever column changes.
Rewritten(by, d) ==
  LET n == Updated(by, d) IN
  [n EXCEPT !.log = {},
            !.sug = IF by = "fill in documents" THEN @ ELSE {},
            !.src = IF by = "date sources" THEN @ \ d.src ELSE {}]

-----------------------------------------------------------------------------
(* Statements and transactions.                                            *)

\* Values of an enumerated type that a statement names.
Named(s) ==
  IF s = Update("name types anew") THEN {"text", "url"}
  ELSE IF s.do \notin {"check", "check later"} THEN {}
  ELSE CASE s.rule = "fields of a source with text"   -> {"text", "url", "file"}
         [] s.rule = "target of every log entry"      -> OnDocument
         [] s.rule = "target of a log entry"          -> {"accept", "reject", "download"}
         [] s.rule = "one active job, dispatched too" -> ActiveNow
         [] OTHER -> {}

\* A value added in a transaction cannot be used in it; a new type and a validated rule must fit
\* the rows; what is created must not be there and what is dropped must.
Fits(s, d) ==
  /\ Named(s) \cap d.fresh = {}
  /\ s.do = "recreate" => Held(s.of, d) \subseteq s.values
  /\ s.do \in {"check", "validate", "not null", "cast"} => Holds(s.rule, d)
  /\ s.do = "update" => \A c \in d.rules : Holds(c, Rewritten(s.by, d))
  /\ s.do \in {"check", "check later"} => s.name \notin d.tables[s.of]
  /\ s.do = "drop" => s.name \in d.tables[s.of]
  /\ s.do = "create table" => s.of \notin DOMAIN d.tables
  /\ s.do = "drop table" => s.of \in DOMAIN d.tables
  /\ s.do = "alter" => /\ s.drops \subseteq d.tables[s.of]
                       /\ s.adds \cap (d.tables[s.of] \ s.drops) = {}

\* A column that is dropped takes its values with it, and its index, if no revision has dropped
\* that before; it comes back empty.
Emptied(t, dropped, d) ==
  CASE t = "documents" /\ "current_analysis_job_id" \in dropped ->
         [d EXCEPT !.doc = [x \in Doc |-> [@[x] EXCEPT !.current = None]]]
    [] t = "suggestions" /\ "document_id" \in dropped ->
         [d EXCEPT !.sug = {[s EXCEPT !.doc = None] : s \in @},
                   !.rules = @ \ {"a suggestion has a document"},
                   !.tables.suggestions = @ \ {"ix_suggestions_document_id"}]
    [] t = "sources" /\ "text_content" \in dropped ->
         [d EXCEPT !.src = {[s EXCEPT !.has = @ \ {"text"}] : s \in @}]
    [] t = "audit_logs" /\ "document_id" \in dropped ->
         [d EXCEPT !.log = {[l EXCEPT !.doc = None] : l \in @}]
    [] OTHER -> d

Renamed(N, m, n) == IF m \in N /\ n \notin N THEN (N \ {m}) \cup {n} ELSE N

Effect(s, d) ==
  CASE s.do = "create table"      -> [d EXCEPT !.tables = (s.of :> s.names) @@ @]
    [] s.do = "drop table"        -> [d EXCEPT !.tables = [t \in DOMAIN @ \ {s.of} |-> @[t]]]
    [] s.do = "alter"             ->
         Emptied(s.of, s.drops, [d EXCEPT !.tables[s.of] = (@ \ s.drops) \cup s.adds])
    [] s.do = "add if missing"    -> [d EXCEPT !.tables[s.of] = @ \cup s.names]
    [] s.do = "drop if there"     -> [d EXCEPT !.tables[s.of] = @ \ s.names]
    [] s.do = "rename if there"   -> [d EXCEPT !.tables[s.of] = Renamed(@, s.old, s.new)]
    [] s.do = "add values"        -> [d EXCEPT !.types[s.of] = @ \cup s.values,
                                               !.fresh = @ \cup (s.values \ d.types[s.of])]
    [] s.do = "add values apart"  -> [d EXCEPT !.types[s.of] = @ \cup s.values]
    [] s.do = "recreate"          -> [d EXCEPT !.types[s.of] = s.values]
    [] s.do = "convert"           ->
         [d EXCEPT !.types.document_status = s.values,
                   !.doc = [x \in Doc |-> [@[x] EXCEPT !.status =
                                             IF s.how = "up" THEN Target(d, x) ELSE Origin(@)]]]
    [] s.do = "update"            -> Updated(s.by, d)
    [] s.do \in {"check", "check later"} ->
         [d EXCEPT !.rules = @ \cup {s.rule}, !.tables[s.of] = @ \cup {s.name}]
    [] s.do \in {"drop", "drop rule if there"} ->
         [d EXCEPT !.rules = @ \ {s.rule}, !.tables[s.of] = @ \ {s.name}]
    [] s.do = "not null"          -> [d EXCEPT !.rules = @ \cup {s.rule}]
    [] s.do = "nullable"          -> [d EXCEPT !.rules = @ \ {s.rule}]
    [] s.do \in {"validate", "cast"} -> d

\* The statements of a transaction, up to the first the database refuses.
Ran(statements, d) ==
  FoldLeft(LAMBDA r, s : IF r.ok /\ Fits(s, r.db) THEN [r EXCEPT !.db = Effect(s, @)]
                         ELSE [r EXCEPT !.ok = FALSE],
           [ok |-> TRUE, db |-> d], statements)

-----------------------------------------------------------------------------
(* The database before the first upgrade.                                  *)

Idle == [do |-> "none", to |-> 0, next |-> 0]
Calm == [do |-> "none", rev |-> "none"]

\* Rows as the schema of 0001 keeps them: a document with its jobs from the oldest to the newest
\* and a suggestion of one of them, the log of its decision, and a source.  The confidence is any
\* float or NULL, and what a source of its type should have may be missing, as its date may.  A
\* failed job is for every statement what a successful one is; no statement reads sources or
\* confidences together with the statuses of documents and jobs, so those that are not a file
\* that has it all and a confidence in range are taken with one combination of these.
OldRows(n, st, js, cur, sg, s) ==
  [rev |-> 1, fresh |-> {},
   doc |-> [x \in Doc |-> [status |-> st, current |-> cur]],
   job |-> [j \in 1..n |-> [doc |-> CHOOSE x \in Doc : TRUE, status |-> js[j]]],
   sug |-> sg,
   log |-> {[action |-> "accept", sug |-> g.job, doc |-> None] : g \in {h \in sg : h.status = "accepted"}},
   src |-> {s},
   types |-> Types0001,
   tables |-> Roots0001 @@ Documents0001 @@ Leaves0001,
   rules |-> {"a log entry has a suggestion"}]

Contents == [file |-> "key", note |-> "text", link |-> "url"]
Whole    == [type |-> "file", has |-> {"key"}, dated |-> TRUE]
OldSources == {[type |-> t, has |-> IF b THEN {Contents[t]} ELSE {}, dated |-> dt] :
                 t \in DOMAIN Contents, b \in BOOLEAN, dt \in BOOLEAN}

Init ==
  /\ \E n \in 0..OldJobs, st \in OldDocStatus :
     \E js \in [1..n -> {"pending", "processing", "success"}], cur \in 1..n \cup {None},
        sg \in {{}} \cup {{[job |-> j, status |-> t, doc |-> None, confidence |-> c]} :
                          j \in 1..n, t \in {"pending", "accepted"},
                          c \in {"in range", "off range", "too large"}},
        s \in OldSources :
       /\ s # Whole => n = 0 /\ st = "uploaded"
       /\ \A g \in sg : g.confidence # "in range" =>
            n = 1 /\ st = "analyzed" /\ js[1] = "success" /\ cur = 1
       /\ db = OldRows(n, st, js, cur, sg, s)
  /\ cmd = Idle /\ refusal = Calm
  /\ unlinked = [x \in Doc |-> None] /\ turned = {} /\ stranded = {}
  /\ spent = [commands |-> 0, writes |-> 0, crashes |-> 0]

-----------------------------------------------------------------------------
(* The commands.                                                           *)

\* A command on the way to another revision, named by the operator.
Start ==
  /\ cmd = Idle /\ spent.commands < MaxCommands
  /\ \E n \in {Rev(id) : id \in Targets} \ {db.rev} :
       cmd' = [do |-> IF n > db.rev THEN "upgrade" ELSE "downgrade", to |-> n, next |-> 1]
  /\ refusal' = Calm /\ spent' = [spent EXCEPT !.commands = @ + 1]
  /\ UNCHANGED <<db, unlinked, turned, stranded>>

Up     == cmd.do = "upgrade"
Script == IF Up THEN Chain[db.rev + 1].up ELSE Chain[db.rev].down
ToRun  == SubSeq(Script, cmd.next, Len(Script))
Apart  == ToRun # <<>> /\ Head(ToRun).do = "add values apart"

\* A statement in an autocommit_block is committed on its own.
ExecuteApart ==
  /\ cmd # Idle /\ Apart
  /\ db' = Effect(Head(ToRun), db)
  /\ cmd' = [cmd EXCEPT !.next = @ + 1]
  /\ UNCHANGED <<refusal, unlinked, turned, stranded, spent>>

\* transaction_per_migration: the revision is committed with its row in alembic_version.
CommitRevision ==
  /\ cmd # Idle /\ ~Apart
  /\ LET r == Ran(ToRun, db) IN
     /\ r.ok
     /\ db' = [r.db EXCEPT !.rev = IF Up THEN @ + 1 ELSE @ - 1, !.fresh = {}]
  /\ cmd' = IF db'.rev = cmd.to THEN Idle ELSE [cmd EXCEPT !.next = 1]
  /\ unlinked' = [x \in Doc |-> IF db'.doc[x].current = None /\ db.doc[x].current # None
                               THEN db.doc[x].current ELSE unlinked[x]]
  /\ UNCHANGED <<refusal, turned, stranded, spent>>

\* The database refuses a statement: the transaction is rolled back and the command ends.
Refuse ==
  /\ cmd # Idle /\ ~Apart /\ ~Ran(ToRun, db).ok
  /\ refusal' = [do |-> cmd.do, rev |-> Chain[IF Up THEN db.rev + 1 ELSE db.rev].id]
  /\ cmd' = Idle
  /\ UNCHANGED <<db, unlinked, turned, stranded, spent>>

Crash ==
  /\ cmd # Idle /\ spent.crashes < MaxCrashes
  /\ cmd' = Idle
  /\ spent' = [spent EXCEPT !.crashes = @ + 1]
  /\ UNCHANGED <<db, refusal, unlinked, turned, stranded>>

-----------------------------------------------------------------------------
(* The application of the last revision.                                   *)

Serves  == db.rev = Latest /\ cmd = Idle
Written == spent.writes < MaxWrites /\ spent' = [spent EXCEPT !.writes = @ + 1]

\* A write of new rows, alone in `rows`, that makes the database d: refused if a type or a
\* constraint does.
Write(d, rows, what) ==
  LET allowed == /\ \A t \in DOMAIN d.types : Held(t, rows) \subseteq d.types[t]
                 /\ \A c \in d.rules : Holds(c, rows)
  IN /\ IF allowed THEN db' = d /\ turned' = turned ELSE db' = db /\ turned' = turned \cup {what}
     /\ UNCHANGED <<cmd, refusal>>

\* create_job and what its analysis has come to since.
Analyse(x) ==
  LET n == Cardinality(DOMAIN db.job) + 1 IN
  /\ Serves /\ Written
  /\ db.doc[x].status # "in_progress"
  /\ \A j \in JobsOf(db, x) : db.job[j].status \notin ActiveNow
  /\ \E o \in {<<"draft", "pending">>, <<"in_progress", "dispatched">>, <<"in_progress", "processing">>,
               <<"draft", "failed">>, <<"draft", "cancelled">>, <<"awaiting_approval", "success">>,
               <<"awaiting_approval", "partial_success">>, <<"ready", "success">>} :
       LET d == [db EXCEPT !.doc[x] = [status |-> o[1], current |-> n],
                           !.job = [j \in 1..n |-> IF j = n THEN [doc |-> x, status |-> o[2]] ELSE @[j]],
                           !.sug = @ \cup {[job |-> n, doc |-> x, status |-> t, confidence |-> "in range"] :
                                             t \in CASE o[1] = "awaiting_approval" -> {"pending"}
                                                    [] o[1] = "ready" -> {"accepted"}
                                                    [] OTHER -> {}}]
       IN Write(d, d, o[2])
  /\ unlinked' = [unlinked EXCEPT ![x] = IF db'.doc[x].current = n THEN None ELSE @]
  /\ UNCHANGED stranded

\* An analysis of before the upgrade ends, or is cancelled: finalize and cancel_job write the
\* document's status only if the job is the document's current one.
EndAnalysis(j) ==
  LET x == db.job[j].doc IN
  /\ Serves /\ Written
  /\ db.job[j].status \in ActiveNow
  /\ \E s \in {"success", "failed", "cancelled"} :
       LET new == IF s # "success" THEN "draft"
                  ELSE IF PendingIn(db, j) THEN "awaiting_approval" ELSE "ready"
           d == [db EXCEPT !.job[j].status = s,
                           !.doc[x].status = IF db.doc[x].current = j THEN new ELSE @]
       IN Write(d, d, s)
  /\ stranded' = IF db'.doc[x].status = "in_progress" THEN stranded \cup {x} ELSE stranded
  /\ UNCHANGED unlinked

\* A decision on a suggestion of the current analysis, or its reset, and its entry in the log,
\* which is written after the decision and may be lost.
Decide(s) ==
  LET x == s.doc
      t == IF s.status = "pending" THEN "accepted" ELSE "pending"
      d == [db EXCEPT !.sug = (@ \ {s}) \cup {[s EXCEPT !.status = t]},
                      !.doc[x].status = IF t = "pending" THEN "awaiting_approval" ELSE "ready"]
      l == [action |-> IF t = "pending" THEN "reset" ELSE "accept", sug |-> s.job, doc |-> x]
  IN
  /\ Serves /\ Written
  /\ x # None /\ db.doc[x].current = s.job /\ db.doc[x].status \in {"awaiting_approval", "ready"}
  /\ \/ Write([d EXCEPT !.log = @ \cup {l}], [d EXCEPT !.log = {l}], l.action)
     \/ Write(d, d, "decision")
  /\ UNCHANGED <<unlinked, stranded>>

Download(x) ==
  LET l == [action |-> "download", sug |-> None, doc |-> x] IN
  /\ Serves /\ Written
  /\ Write([db EXCEPT !.log = @ \cup {l}], [db EXCEPT !.log = {l}], "download")
  /\ UNCHANGED <<unlinked, stranded>>

Next ==
  \/ Start \/ ExecuteApart \/ CommitRevision \/ Refuse \/ Crash
  \/ \E x \in Doc : Analyse(x) \/ Download(x)
  \/ \E j \in DOMAIN db.job : EndAnalysis(j)
  \/ \E s \in db.sug : Decide(s)

Spec == Init /\ [][Next]_vars

-----------------------------------------------------------------------------
(* Properties.                                                             *)

\* An upgrade goes through, also after a crash inside a revision and on a database that was
\* downgraded, from whichever revision, or whose downgrade was refused; but for these rows.
\* Rows of 0001 that it leaves refused until somebody corrects them: 0016 has no room for a
\* confidence of ten or more; its rules, NOT VALID as they are, meet 0017a's updates, so that one
\* refuses any confidence off the range and a source without its contents and its date; and 0017b
\* validates a source without its contents.  0018a refuses sources whose text is still in the
\* database, on purpose.  0003 refuses the actions its rule does not know, once a downgrade went
\* below it.
UpgradeGoesThrough ==
  LET bare == {s \in db.src : s.has = {}} IN
  refusal.do = "upgrade" =>
    \/ refusal.rev = "0016" /\ \E s \in db.sug : s.confidence = "too large"
    \/ refusal.rev = "0017a" /\ \E s \in db.sug : s.confidence = "off range"
    \/ refusal.rev = "0017a" /\ \E s \in bare : ~s.dated
    \/ refusal.rev = "0017b" /\ bare # {}
    \/ refusal.rev = "0018a" /\ \E s \in db.src : s.type = "text"
    \/ refusal.rev = "0003" /\ \E l \in db.log : l.action \notin {"accept", "reject", "download"}

\* A document in progress has one job that can end its analysis, although its status and the
\* jobs are rewritten by different statements, up and down.  (An analysis of before 0023 that
\* ends afterwards leaves its document in progress: `stranded`.)
InProgressHasItsJob ==
  db.rev >= Rev("0006") => \A x \in Doc :
    db.doc[x].status = "in_progress" =>
      \/ Cardinality({j \in JobsOf(db, x) : db.job[j].status \in ActiveNow}) = 1
      \/ x \in stranded

\* A document awaits approval with a suggestion of its current analysis to decide, and is ready
\* without one: no migration invents a review or passes over one it can see.  The exception: the
\* review under way when 0017a (or 0023's downgrade) drops the column of the current analysis.
\* Its document still awaits approval, of suggestions that are still there, but nothing leads to
\* them until there is a new analysis: `unlinked`.  (Taken below 0006 and up again it is ready, for 0006
\* sees no review either.)
StatusTellsTheReview ==
  db.rev >= Rev("0006") => \A x \in Doc :
    LET j == db.doc[x].current
        undecided == j # None /\ PendingIn(db, j) IN
    /\ db.doc[x].status = "ready" => ~undecided
    /\ db.doc[x].status = "awaiting_approval" =>
         \/ undecided
         \/ j = None /\ unlinked[x] # None /\ PendingIn(db, unlinked[x])

\* The schema at the end of the chain takes every status and every log entry the application
\* writes, on whatever way the database has come there.
WritesAreTaken == turned = {}

\* At the end of the chain the tables are those of the models, also where indexes came from a
\* downgrade or a command was cut short.  (`alembic check` looks at a fresh database only.)
SchemaIsTheModels ==
  db.rev = Latest =>
    /\ DOMAIN db.tables = DOMAIN Models
    /\ \A t \in DOMAIN Models : db.tables[t] \ ForeignKeys = Models[t]
=============================================================================

------------------------------- MODULE Revisions -------------------------------
(***************************************************************************)
(* The Alembic chain (alembic/versions) as data: every revision is a list  *)
(* of statements for the way up and one for the way down.                  *)
(*                                                                         *)
(* A table is the set of the names in it: its columns, its indexes and its *)
(* named constraints.  Left out are the types of columns other than the    *)
(* enumerated types of statuses, sources and the audit log and of a        *)
(* suggestion's confidence, defaults, NULL-ability except where an upgrade *)
(* can fail on it, primary keys, and foreign keys no statement names.      *)
(***************************************************************************)
EXTENDS Naturals, Sequences

(* Values of the enumerated types.                                         *)

OldDocStatus == {"uploaded", "analyzing", "analyzed", "error"}
NewDocStatus == {"draft", "in_progress", "awaiting_approval", "ready"}
OldJobStatus == {"pending", "processing", "success", "failed"}
SourceTypes == {"file", "note", "link", "text", "url"}

(* The kinds of statements.                                                *)

CreateTable(t, N)     == [do |-> "create table", of |-> t, names |-> N]
DropTable(t)          == [do |-> "drop table", of |-> t]
Alter(t, D, A)        == [do |-> "alter", of |-> t, drops |-> D, adds |-> A]   \* a renaming drops and adds
AddIfMissing(t, N)    == [do |-> "add if missing", of |-> t, names |-> N]
DropIfThere(t, N)     == [do |-> "drop if there", of |-> t, names |-> N]
RenameIfThere(t, m, n) == [do |-> "rename if there", of |-> t, old |-> m, new |-> n]

AddValues(t, V)       == [do |-> "add values", of |-> t, values |-> V]
AddValuesApart(t, V)  == [do |-> "add values apart", of |-> t, values |-> V]  \* in an autocommit_block
Recreate(t, V)        == [do |-> "recreate", of |-> t, values |-> V]
Convert(how, V)       == [do |-> "convert", how |-> how, values |-> V]  \* of documents.status
Update(by)            == [do |-> "update", by |-> by]

\* A rule on the rows: of a constraint or index with a name, or that a column is not NULL.
Check(t, n, rule)      == [do |-> "check", of |-> t, name |-> n, rule |-> rule]
CheckLater(t, n, rule) == [do |-> "check later", of |-> t, name |-> n, rule |-> rule]    \* NOT VALID
Validate(rule)         == [do |-> "validate", rule |-> rule]
Drop(t, n, rule)       == [do |-> "drop", of |-> t, name |-> n, rule |-> rule]
DropRuleIfThere(t, n, rule) == [do |-> "drop rule if there", of |-> t, name |-> n, rule |-> rule]
NotNull(rule)          == [do |-> "not null", rule |-> rule]
Nullable(rule)         == [do |-> "nullable", rule |-> rule]

\* A column's type becomes narrower: every value must fit, which is asked once.
Cast(rule)             == [do |-> "cast", rule |-> rule]

-----------------------------------------------------------------------------
(* The revisions.                                                          *)

\* 0001, in three parts: the tables before the documents, the documents, what hangs on them.
Roots0001 == [
  users    |-> {"id", "email", "password_hash", "role", "created_at", "ix_users_email", "users_email_key"},
  projects |-> {"id", "name", "owner_id", "created_at", "ix_projects_owner_id"},
  sources  |-> {"id", "project_id", "name", "type", "storage_key", "text_content", "url", "uploaded_at",
                "ix_sources_project_id"}]
Documents0001 == [
  documents |-> {"id", "project_id", "title", "format", "storage_key", "status",
                 "current_analysis_job_id", "created_at", "updated_at", "ix_documents_project_id",
                 "fk_documents_current_analysis_job"},
  document_sources |-> {"id", "document_id", "source_id", "uq_document_sources_document_source"},
  analysis_jobs |-> {"id", "document_id", "status", "celery_task_id", "error_code", "error_message",
                     "retry_count", "created_at", "started_at", "finished_at",
                     "ix_analysis_jobs_document_id"}]
Leaves0001 == [
  suggestions |-> {"id", "analysis_job_id", "section_ref", "change_type", "old_text", "new_text",
                   "status", "source_reference", "confidence_score", "explanation", "decided_by",
                   "decided_at", "created_at", "ix_suggestions_analysis_job_id"},
  audit_logs |-> {"id", "suggestion_id", "user_id", "action", "created_at",
                  "ix_audit_logs_suggestion_id", "ix_audit_logs_user_id"}]
Types0001 == [document_status |-> OldDocStatus, analysis_job_status |-> OldJobStatus,
              source_type |-> {"file", "note", "link"}, audit_action |-> {"accept", "reject"}]
R0001 == [id |-> "0001", up |-> <<>>, down |-> <<>>]    \* the commands of Migrations start above it

R0002a == [id |-> "0002a", up |-> <<AddValues("audit_action", {"download"})>>, down |-> <<>>]
R0002b == [id |-> "0002b", up |-> <<>>, down |-> <<>>]
R0003 == [id |-> "0003",
  up   |-> <<Alter("audit_logs", {}, {"document_id", "ix_audit_logs_document_id"}),
             Check("audit_logs", "ck_audit_logs_target", "target of a log entry")>>,
  down |-> <<Drop("audit_logs", "ck_audit_logs_target", "target of a log entry"),
             Alter("audit_logs", {"document_id", "ix_audit_logs_document_id"}, {})>>]
R0004a == [id |-> "0004a",
  up   |-> <<Nullable("a log entry has a suggestion")>>,
  down |-> <<NotNull("a log entry has a suggestion")>>]
R0004b == [id |-> "0004b",
  up   |-> <<Alter("documents", {}, {"review_version"})>>,
  down |-> <<Alter("documents", {"review_version"}, {})>>]
R0005 == [id |-> "0005",
  up   |-> <<Alter("projects", {}, {"description"})>>,
  down |-> <<Alter("projects", {"description"}, {})>>]

OneActive == "uq_analysis_jobs_one_active_per_document"
R0006 == [id |-> "0006",
  up   |-> <<Convert("up", NewDocStatus),
             AddValues("analysis_job_status", {"cancelled"}),
             Update("close superseded"),
             Check("analysis_jobs", OneActive, "one active job")>>,
  down |-> <<Drop("analysis_jobs", OneActive, "one active job"),
             Update("cancelled is failed"),
             Recreate("analysis_job_status", OldJobStatus),
             Convert("down", OldDocStatus)>>]
Names0007 == {"idempotency_key", "ix_analysis_jobs_idempotency_key", "uq_analysis_jobs_doc_idem_key",
              "partial_success"}
R0007 == [id |-> "0007",
  up   |-> <<Alter("analysis_jobs", {}, Names0007)>>,
  down |-> <<Alter("analysis_jobs", Names0007, {})>>]
R0008 == [id |-> "0008",
  up   |-> <<Alter("sources", {}, {"scope", "ix_sources_scope"})>>,
  down |-> <<Alter("sources", {"scope", "ix_sources_scope"}, {})>>]
R0009 == [id |-> "0009", up |-> <<AddIfMissing("documents", {"review_version"})>>, down |-> <<>>]
R0010a == [id |-> "0010a",
  up   |-> <<CreateTable("dashboard_snapshots",
               {"id", "owner_id", "snapshot_date", "total_count", "awaiting_count", "relevance_percent",
                "uq_dashboard_snapshot_owner_date", "ix_dashboard_snapshots_owner_id"})>>,
  down |-> <<DropTable("dashboard_snapshots")>>]
R0010b == [id |-> "0010b",
  up   |-> <<CreateTable("document_opens",
               {"id", "user_id", "document_id", "last_opened_at", "uq_document_opens_user_document",
                "ix_document_opens_user_opened"})>>,
  down |-> <<Alter("document_opens", {"ix_document_opens_user_opened", "uq_document_opens_user_document"}, {}),
             DropTable("document_opens")>>]
R0011 == [id |-> "0011",
  up   |-> <<Alter("documents", {}, {"original_storage_key"})>>,
  down |-> <<Alter("documents", {"original_storage_key"}, {})>>]
R0012 == [id |-> "0012", up |-> <<AddValues("analysis_job_status", {"partial_success"})>>, down |-> <<>>]
R0013 == [id |-> "0013",
  up   |-> <<CreateTable("document_blocks",
               {"id", "document_id", "position", "block_type", "content", "heading_level",
                "raw_markdown", "ix_document_blocks_document_position"}),
             Alter("suggestions", {}, {"block_id", "start_offset", "end_offset",
                                       "ix_suggestions_analysis_job_status"})>>,
  down |-> <<Alter("suggestions", {"block_id", "start_offset", "end_offset",
                                   "ix_suggestions_analysis_job_status"}, {}),
             Alter("document_blocks", {"ix_document_blocks_document_position"}, {}),
             DropTable("document_blocks")>>]
R0014 == [id |-> "0014",
  up   |-> <<Alter("documents", {}, {"ix_documents_project_created_at_id"}),
             Alter("suggestions", {}, {"ix_suggestions_job_created_at_id"})>>,
  down |-> <<Alter("suggestions", {"ix_suggestions_job_created_at_id"}, {}),
             Alter("documents", {"ix_documents_project_created_at_id"}, {})>>]
R0015 == [id |-> "0015",
  up   |-> <<Alter("suggestions", {}, {"ix_suggestions_job_status"})>>,
  down |-> <<Alter("suggestions", {"ix_suggestions_job_status"}, {})>>]

\* Mutant of Values0016: no autocommit_block around the new values.
Values0016_OneTransaction == <<AddValues("analysis_job_status", {"dispatched"}),
                AddValues("audit_action", {"bulk_accept", "finalize", "reopen"}),
                AddValues("source_type", {"text", "url"})>>
\* 0016, upwards in three parts: what an autocommit_block adds, the schema of documents and their
\* links, the rest.
Values0016 == <<AddValuesApart("analysis_job_status", {"dispatched"}),
                AddValuesApart("audit_action", {"bulk_accept", "finalize", "reopen"}),
                AddValuesApart("source_type", {"text", "url"})>>
Documents0016 == <<
  Update("name types anew"),
  Alter("document_sources", {"id"}, {}),
  Alter("document_opens", {"uq_document_opens_user_document"}, {}),
  Alter("document_opens", {"id"}, {}),
  DropIfThere("documents", {"fk_documents_current_analysis_job", "documents_current_analysis_job_id_fkey"}),
  Alter("documents", {}, {"documents_current_analysis_job_id_fkey"}),
  RenameIfThere("documents", "title", "name"),
  AddIfMissing("documents", {"size_bytes"}),
  AddIfMissing("documents", {"uploaded_at"}),
  CheckLater("documents", "ck_documents_size_bytes_non_negative", "no size is negative")>>
Rest0016 == <<
  Alter("audit_logs", {}, {"details"}),
  AddIfMissing("audit_logs", {"document_id"}),
  CheckLater("audit_logs", "ck_audit_logs_ref_not_null", "a log entry refers"),
  Alter("audit_logs", {}, {"ix_audit_logs_document_created"}),
  Cast("confidence has three decimals and one digit"),
  CheckLater("suggestions", "ck_suggestions_confidence_range", "confidence in range"),
  Alter("suggestions", {}, {"order_index"}),
  Alter("document_blocks", {}, {"block_ref", "uq_document_blocks_doc_ref"}),
  RenameIfThere("document_blocks", "ix_document_blocks_document_position", "uq_document_blocks_doc_position"),
  CheckLater("document_blocks", "ck_document_blocks_heading_level", "only headings have a level"),
  Alter("sources", {}, {"updated_at"}),
  CheckLater("sources", "ck_sources_type_field_consistency", "fields of a source with text"),
  Alter("projects", {}, {"updated_at"})>>
Down0016 == <<
  Alter("projects", {"updated_at"}, {}),
  DropRuleIfThere("sources", "ck_sources_type_field_consistency", "fields of a source with text"),
  Alter("sources", {"updated_at"}, {}),
  DropRuleIfThere("document_blocks", "ck_document_blocks_heading_level", "only headings have a level"),
  RenameIfThere("document_blocks", "uq_document_blocks_doc_position", "ix_document_blocks_document_position"),
  Alter("document_blocks", {"uq_document_blocks_doc_ref", "block_ref"}, {}),
  Alter("suggestions", {"order_index"}, {}),
  DropIfThere("suggestions", {"suggestions_block_id_fkey"}),
  DropRuleIfThere("suggestions", "ck_suggestions_confidence_range", "confidence in range"),
  Alter("audit_logs", {"ix_audit_logs_document_created"}, {}),
  DropRuleIfThere("audit_logs", "ck_audit_logs_ref_not_null", "a log entry refers"),
  Alter("audit_logs", {"details"}, {}),
  DropRuleIfThere("documents", "ck_documents_size_bytes_non_negative", "no size is negative"),
  Alter("documents", {"uploaded_at", "size_bytes", "name"}, {"title"}),
  DropIfThere("documents", {"documents_current_analysis_job_id_fkey"}),
  Alter("documents", {}, {"documents_current_analysis_job_id_fkey"}),
  Alter("document_opens", {}, {"id", "uq_document_opens_user_document"}),
  Alter("document_sources", {}, {"id"})>>
R0016 == [id |-> "0016", up |-> Values0016 \o Documents0016 \o Rest0016, down |-> Down0016]

R0017a == [id |-> "0017a",
  up   |-> <<Alter("documents", {"documents_current_analysis_job_id_fkey"}, {}),
             Alter("documents", {"current_analysis_job_id"}, {}),
             Alter("analysis_jobs", {}, {"ix_analysis_jobs_doc_latest"}),
             Alter("suggestions", {}, {"document_id", "suggestions_document_id_fkey"}),
             Update("fill in documents"),
             NotNull("a suggestion has a document"),
             Alter("suggestions", {}, {"ix_suggestions_document_status"}),
             Alter("document_blocks", {"raw_markdown"}, {}),
             Update("date sources"),
             Alter("sources", {"uploaded_at"}, {"created_at"}),
             NotNull("a source is dated"),
             Alter("audit_logs", {"ix_audit_logs_document_id"}, {}),
             Alter("analysis_jobs", {"ix_analysis_jobs_idempotency_key"}, {})>>,
  down |-> <<Alter("analysis_jobs", {}, {"ix_analysis_jobs_idempotency_key"}),
             Alter("audit_logs", {}, {"ix_audit_logs_document_id"}),
             Alter("sources", {"created_at"}, {"uploaded_at"}),
             Nullable("a source is dated"),
             Alter("document_blocks", {}, {"raw_markdown"}),
             Alter("suggestions", {"ix_suggestions_document_status"}, {}),
             Alter("suggestions", {"suggestions_document_id_fkey"}, {}),
             Alter("suggestions", {"document_id"}, {}),
             Alter("analysis_jobs", {"ix_analysis_jobs_doc_latest"}, {}),
             Alter("documents", {}, {"current_analysis_job_id", "documents_current_analysis_job_id_fkey"})>>]
R0017b == [id |-> "0017b",
  up   |-> <<Validate("no size is negative"), Validate("a log entry refers"),
             Validate("confidence in range"), Validate("only headings have a level"),
             Validate("fields of a source with text")>>,
  down |-> <<>>]
R0018a == [id |-> "0018a",
  up   |-> <<Drop("sources", "ck_sources_type_field_consistency", "fields of a source with text"),
             Alter("sources", {"text_content"}, {}),
             Recreate("source_type", {"file", "url"}),
             Check("sources", "ck_sources_type_field_consistency", "fields of a source")>>,
  down |-> <<Drop("sources", "ck_sources_type_field_consistency", "fields of a source"),
             Recreate("source_type", SourceTypes),
             Alter("sources", {}, {"text_content"}),
             Check("sources", "ck_sources_type_field_consistency", "fields of a source with text")>>]
Down0018b == <<Alter("documents", {"exported_storage_key"}, {}),
               Alter("document_blocks", {}, {"ix_document_blocks_document_id"}),
               Alter("suggestions", {}, {"ix_suggestions_analysis_job_id", "ix_suggestions_document_id"})>>
\* Mutant of the next definition: the index on document_blocks, which no revision before creates,
\* is not dropped.
R0018b_KeepsIndex == [id |-> "0018b",
  up   |-> <<Alter("documents", {}, {"exported_storage_key"}),
             DropIfThere("suggestions", {"ix_suggestions_analysis_job_id", "ix_suggestions_document_id"})>>,
  down |-> Down0018b]
R0018b == [id |-> "0018b",
  up   |-> <<Alter("documents", {}, {"exported_storage_key"}),
             DropIfThere("document_blocks", {"ix_document_blocks_document_id"}),
             DropIfThere("suggestions", {"ix_suggestions_analysis_job_id", "ix_suggestions_document_id"})>>,
  down |-> Down0018b]
R0019 == [id |-> "0019",
  up   |-> <<Alter("suggestions", {}, {"ix_suggestions_document_id"}),
             AddIfMissing("documents", {"ix_documents_name_trgm"})>>,
  down |-> <<DropIfThere("documents", {"ix_documents_name_trgm"}),
             Alter("suggestions", {"ix_suggestions_document_id"}, {})>>]
R0020a == [id |-> "0020a",
  up   |-> <<Update("technical is draft"), Recreate("document_status", NewDocStatus)>>,
  down |-> <<Recreate("document_status", NewDocStatus \cup {"error", "cancelled"})>>]
R0020b == [id |-> "0020b", up |-> <<AddIfMissing("suggestions", {"decided_by", "decided_at"})>>, down |-> <<>>]
R0021 == [id |-> "0021", up |-> <<>>, down |-> <<>>]
R0022 == [id |-> "0022",
  up   |-> <<Alter("suggestions", {}, {"ix_suggestions_decided_by"})>>,
  down |-> <<Alter("suggestions", {"ix_suggestions_decided_by"}, {})>>]
Names0023 == {"current_analysis_job_id", "fk_documents_current_analysis_job_id",
              "ix_documents_current_analysis_job_id"}
R0023 == [id |-> "0023",
  up   |-> <<Alter("documents", {}, Names0023)>>,
  down |-> <<Alter("documents", Names0023, {})>>]
R0024 == [id |-> "0024",
  up   |-> <<Alter("document_sources", {"uq_document_sources_document_source"}, {}),
             Alter("suggestions", {"old_text", "new_text", "explanation"},
                                  {"original_text", "suggested_text", "rationale"}),
             Alter("suggestions", {"source_reference", "order_index", "ix_suggestions_analysis_job_status",
                                   "ix_suggestions_document_id"}, {}),
             Alter("users", {"users_email_key"}, {}),
             Alter("users", {"ix_users_email"}, {"ix_users_email"})>>,
  down |-> <<Alter("users", {"ix_users_email"}, {"ix_users_email"}),
             Alter("users", {}, {"users_email_key"}),
             Alter("suggestions", {}, {"ix_suggestions_document_id", "ix_suggestions_analysis_job_status",
                                       "order_index", "source_reference"}),
             Alter("suggestions", {"original_text", "suggested_text", "rationale"},
                                  {"old_text", "new_text", "explanation"}),
             Alter("document_sources", {}, {"uq_document_sources_document_source"})>>]
R0025 == [id |-> "0025",
  up   |-> <<Drop("analysis_jobs", OneActive, "one active job"),
             Check("analysis_jobs", OneActive, "one active job, dispatched too")>>,
  down |-> <<Drop("analysis_jobs", OneActive, "one active job, dispatched too"),
             Check("analysis_jobs", OneActive, "one active job")>>]
Down0026 == <<Drop("audit_logs", "ck_audit_logs_target", "target of every log entry"),
              CheckLater("audit_logs", "ck_audit_logs_target", "target of a log entry")>>
\* Mutant of the next definition: the rule is changed, the type is not.
R0026_OldValues == [id |-> "0026",
  up   |-> <<Drop("audit_logs", "ck_audit_logs_target", "target of a log entry"),
             Check("audit_logs", "ck_audit_logs_target", "target of every log entry")>>,
  down |-> Down0026]
R0026 == [id |-> "0026",
  up   |-> <<AddValuesApart("audit_action", {"bulk_reject", "finalize_review", "reset"}),
             Drop("audit_logs", "ck_audit_logs_target", "target of a log entry"),
             Check("audit_logs", "ck_audit_logs_target", "target of every log entry")>>,
  down |-> Down0026]
R0027 == [id |-> "0027",
  up   |-> <<Alter("projects", {}, {"color", "icon"})>>,
  down |-> <<Alter("projects", {"icon", "color"}, {})>>]
R0028 == [id |-> "0028",
  up   |-> <<Alter("suggestions", {}, {"edited_text"})>>,
  down |-> <<Alter("suggestions", {"edited_text"}, {})>>]
R0029 == [id |-> "0029",
  up   |-> <<CreateTable("analysis_job_sources",
               {"id", "job_id", "source_id", "status", "suggestions_count", "created_at", "finished_at",
                "uq_analysis_job_sources_job_source", "ix_analysis_job_sources_job_id"})>>,
  down |-> <<Alter("analysis_job_sources", {"ix_analysis_job_sources_job_id"}, {}),
             DropTable("analysis_job_sources")>>]
R0030 == [id |-> "0030",
  up   |-> <<Alter("analysis_job_sources", {}, {"locked_at"})>>,
  down |-> <<Alter("analysis_job_sources", {"locked_at"}, {})>>]
R0031 == [id |-> "0031",
  up   |-> <<Alter("analysis_job_sources", {}, {"lock_token"})>>,
  down |-> <<Alter("analysis_job_sources", {"lock_token"}, {})>>]
R0032 == [id |-> "0032",
  up   |-> <<CreateTable("suggestion_sources", {"suggestion_id", "source_id", "ix_suggestion_sources_source_id"})>>,
  down |-> <<Alter("suggestion_sources", {"ix_suggestion_sources_source_id"}, {}),
             DropTable("suggestion_sources")>>]

Chain == <<R0001, R0002a, R0002b, R0003, R0004a, R0004b, R0005, R0006, R0007, R0008, R0009, R0010a,
           R0010b, R0011, R0012, R0013, R0014, R0015, R0016, R0017a, R0017b, R0018a, R0018b, R0019,
           R0020a, R0020b, R0021, R0022, R0023, R0024, R0025, R0026, R0027, R0028, R0029, R0030, R0031,
           R0032>>
Latest == Len(Chain)
Rev(id) == CHOOSE n \in 1..Latest : Chain[n].id = id

-----------------------------------------------------------------------------
(* The tables of the ORM models (app/infrastructure/db/models).            *)

User == {"id", "email", "password_hash", "role", "created_at", "ix_users_email"}
Project == {"id", "name", "description", "color", "icon", "owner_id", "created_at", "updated_at",
            "ix_projects_owner_id"}
Source == {"id", "project_id", "name", "type", "storage_key", "url", "scope", "created_at", "updated_at",
           "ck_sources_type_field_consistency", "ix_sources_scope", "ix_sources_project_id"}
Document == {"id", "project_id", "name", "format", "storage_key", "size_bytes", "uploaded_at", "status",
             "review_version", "current_analysis_job_id", "original_storage_key", "exported_storage_key",
             "created_at", "updated_at", "ck_documents_size_bytes_non_negative",
             "ix_documents_project_created_at_id", "ix_documents_name_trgm", "ix_documents_project_id",
             "ix_documents_current_analysis_job_id"}
DocumentSource == {"document_id", "source_id"}
DocumentOpen == {"user_id", "document_id", "last_opened_at", "ix_document_opens_user_opened"}
DocumentBlock == {"id", "document_id", "block_ref", "position", "block_type", "content", "heading_level",
                  "uq_document_blocks_doc_position", "uq_document_blocks_doc_ref",
                  "ck_document_blocks_heading_level"}
DashboardSnapshot == {"id", "owner_id", "snapshot_date", "total_count", "awaiting_count",
                      "relevance_percent", "uq_dashboard_snapshot_owner_date",
                      "ix_dashboard_snapshots_owner_id"}
AnalysisJob == {"id", "document_id", "status", "idempotency_key", "celery_task_id", "error_code",
                "error_message", "retry_count", "partial_success", "created_at", "started_at",
                "finished_at", "uq_analysis_jobs_doc_idem_key", OneActive, "ix_analysis_jobs_doc_latest",
                "ix_analysis_jobs_document_id"}
AnalysisJobSource == {"id", "job_id", "source_id", "status", "suggestions_count", "created_at",
                      "finished_at", "locked_at", "lock_token", "uq_analysis_job_sources_job_source",
                      "ix_analysis_job_sources_job_id"}
Suggestion == {"id", "analysis_job_id", "document_id", "section_ref", "block_id", "start_offset",
               "end_offset", "change_type", "status", "original_text", "suggested_text", "edited_text",
               "rationale", "confidence_score", "decided_by", "decided_at", "created_at",
               "ck_suggestions_confidence_range", "ix_suggestions_job_status",
               "ix_suggestions_document_status", "ix_suggestions_job_created_at_id",
               "ix_suggestions_decided_by"}
SuggestionSource == {"suggestion_id", "source_id", "ix_suggestion_sources_source_id"}
AuditLog == {"id", "suggestion_id", "document_id", "user_id", "action", "details", "created_at",
             "ck_audit_logs_ref_not_null", "ck_audit_logs_target", "ix_audit_logs_document_created",
             "ix_audit_logs_suggestion_id", "ix_audit_logs_user_id"}

Models == [
  users |-> User, projects |-> Project, sources |-> Source, documents |-> Document,
  document_sources |-> DocumentSource, document_opens |-> DocumentOpen,
  document_blocks |-> DocumentBlock, dashboard_snapshots |-> DashboardSnapshot,
  analysis_jobs |-> AnalysisJob, analysis_job_sources |-> AnalysisJobSource,
  suggestions |-> Suggestion, suggestion_sources |-> SuggestionSource, audit_logs |-> AuditLog]

\* Foreign keys with a name some revision uses; the models name none.
ForeignKeys == {"fk_documents_current_analysis_job", "documents_current_analysis_job_id_fkey",
                "fk_documents_current_analysis_job_id", "suggestions_document_id_fkey"}
=============================================================================

-------------------------------- MODULE Migrations --------------------------------
(***********************************************************************************)
(* The Alembic revisions of backend/app/migrations/versions and the command that    *)
(* applies them.  Each revision is a sequence of DDL operations for its upgrade()   *)
(* and one for its downgrade(); `alembic upgrade` and `alembic downgrade` run any   *)
(* number of revisions in ONE transaction (migrations/env.py), in any order the     *)
(* revision graph allows: five revisions branch off the audit revision and a merge  *)
(* revision joins them.  The database is PostgreSQL: DDL is transactional, and an   *)
(* operation that fails undoes the whole command.                                   *)
(*                                                                                  *)
(* A database is [tables, rows]: the tables that exist, and which of the kinds of   *)
(* rows that can make a revision fail are present.                                  *)
(***********************************************************************************)
EXTENDS Schema, Naturals, Sequences, FiniteSets

VARIABLES
    db,            \* the committed database
    applied,       \* the committed revisions (the ancestors of alembic_version's rows)
    command,       \* the running alembic command, or Idle
    work,          \* the database inside the command's transaction
    workApplied,   \* the revisions applied inside the command's transaction
    consolidated   \* history: revision 005 has been committed once

vars == <<db, applied, command, work, workApplied, consolidated>>

-----------------------------------------------------------------------------------
(* DDL operations.  Each returns the database after it, or Failed. *)

Failed == [tables |-> <<>>, rows |-> {"failed"}]

\* The kinds of rows the revisions are sensitive to, and the table each lives in.
RowKinds == {"career_page", "career_target", "target_reference", "oauth_secret"}
LivesIn(kind) == CASE kind = "career_page"      -> "career_pages"
                   [] kind = "career_target"    -> "scrape_targets"
                   [] kind = "target_reference" -> "scrape_attempts"
                   [] kind = "oauth_secret"     -> "user_integration_secrets"

Exists(d, t) == t \in DOMAIN d.tables
WithTable(d, t, spec) ==
    [d EXCEPT !.tables = [u \in DOMAIN d.tables \cup {t} |->
                             IF u = t THEN spec ELSE d.tables[u]]]
Without(d, t) ==
    [tables |-> [u \in DOMAIN d.tables \ {t} |-> d.tables[u]],
     rows   |-> {k \in d.rows : LivesIn(k) # t}]

Referencing(d, t) == {u \in DOMAIN d.tables \ {t} : \E fk \in d.tables[u].fks : fk[2] = t}

Create(t, spec)     == [op |-> "create", table |-> t, spec |-> spec]
Ensure(t, spec)     == [op |-> "ensure", table |-> t, spec |-> spec]
Drop(t)             == [op |-> "drop", table |-> t]
AddColumns(t, cs)   == [op |-> "add", table |-> t, cols |-> cs]
DropColumns(t, cs)  == [op |-> "remove", table |-> t, cols |-> cs]
SetForeignKey(t, c, to, rule) == [op |-> "fk", table |-> t, fk |-> <<c, to, rule>>]
DropForeignKey(t, c)          == [op |-> "unfk", table |-> t, col |-> c]
AddUnique(t, cs)    == [op |-> "unique", table |-> t, cols |-> cs]
DropUnique(t, cs)   == [op |-> "ununique", table |-> t, cols |-> cs]
Move(kind, to)      == [op |-> "move", from |-> kind, to |-> to]
Refuse(kind)        == [op |-> "refuse", kind |-> kind]

\* The tables an operation creates must not be there and those it points to must; a
\* table that another one points to cannot be dropped; a column goes together with
\* the keys it is part of.
Perform(d, o) ==
    IF d = Failed THEN Failed ELSE
    LET s == d.tables[o.table] IN
    CASE o.op = "create" ->
           IF Exists(d, o.table) \/ \E fk \in o.spec.fks : ~Exists(d, fk[2])
           THEN Failed ELSE WithTable(d, o.table, o.spec)
      [] o.op = "ensure" ->
           IF Exists(d, o.table) THEN d
           ELSE IF \E fk \in o.spec.fks : ~Exists(d, fk[2])
           THEN Failed ELSE WithTable(d, o.table, o.spec)
      [] o.op = "drop" ->
           IF ~Exists(d, o.table) \/ Referencing(d, o.table) # {}
           THEN Failed ELSE Without(d, o.table)
      [] o.op = "add" ->
           IF ~Exists(d, o.table) \/ o.cols \cap s.cols # {} THEN Failed
           ELSE WithTable(d, o.table, Table(s.cols \cup o.cols, s.fks, s.unique))
      [] o.op = "remove" ->
           IF ~Exists(d, o.table) \/ ~(o.cols \subseteq s.cols) THEN Failed
           ELSE WithTable(d, o.table,
                    Table(s.cols \ o.cols, {fk \in s.fks : fk[1] \notin o.cols},
                          {u \in s.unique : u \cap o.cols = {}}))
      [] o.op = "fk" ->
           IF ~Exists(d, o.table) \/ ~Exists(d, o.fk[2]) THEN Failed
           ELSE WithTable(d, o.table,
                    Table(s.cols, {fk \in s.fks : fk[1] # o.fk[1] \/ fk[2] # o.fk[2]}
                                  \cup {o.fk}, s.unique))
      [] o.op = "unfk" ->
           IF ~Exists(d, o.table) \/ \A fk \in s.fks : fk[1] # o.col THEN Failed
           ELSE WithTable(d, o.table,
                    Table(s.cols, {fk \in s.fks : fk[1] # o.col}, s.unique))
      [] o.op = "unique" ->
           IF ~Exists(d, o.table) THEN Failed
           ELSE WithTable(d, o.table, Table(s.cols, s.fks, s.unique \cup {o.cols}))
      [] o.op = "ununique" ->
           IF ~Exists(d, o.table) \/ o.cols \notin s.unique THEN Failed
           ELSE WithTable(d, o.table, Table(s.cols, s.fks, s.unique \ {o.cols}))
      [] o.op = "move" ->
           IF o.from \in d.rows THEN [d EXCEPT !.rows = (@ \ {o.from}) \cup {o.to}] ELSE d
      [] o.op = "refuse" -> IF o.kind \in d.rows THEN Failed ELSE d

\* One after the other.
PerformAll(d, ops) ==
    LET after[i \in 0..Len(ops)] == IF i = 0 THEN d ELSE Perform(after[i - 1], ops[i])
    IN  after[Len(ops)]
Drops(ts) == [i \in DOMAIN ts |-> Drop(ts[i])]

-----------------------------------------------------------------------------------
(* Revision 001 *)

CreateUsers ==
  Create("users", Table({"id", "email", "password_hash", "display_name", "is_active", "created_at",
    "updated_at"}, {}, {{"email"}}))

Up001   == <<CreateUsers>>
Down001 == Drops(<<"users">>)

-----------------------------------------------------------------------------------
(* Revision 002 *)

CreateJobs ==
  Create("jobs", Table({"id", "user_id", "source", "source_url", "title", "company_name",
    "company_domain", "company_logo_url", "location", "location_city", "location_state",
    "location_country", "remote_type", "description_raw", "description_clean",
    "description_markdown", "salary_min", "salary_max", "salary_period", "salary_currency",
    "experience_level", "seniority_score", "job_type", "posted_at", "scraped_at", "expires_at",
    "is_enriched", "enriched_at", "summary_ai", "skills_required", "skills_nice_to_have",
    "tech_stack", "red_flags", "green_flags", "match_score", "tfidf_score", "dedup_hash", "simhash",
    "duplicate_of", "status", "is_starred", "is_active", "is_hidden", "created_at", "updated_at",
    "embedding", "search_vector"}, {Owner}, {}))

CreateSavedSearches ==
  Create("saved_searches", Table({"id", "user_id", "name", "filters", "alert_enabled",
    "created_at"}, {Owner}, {}))

CreateScraperRuns ==
  Create("scraper_runs", Table({"id", "user_id", "source", "status", "jobs_found", "jobs_new",
    "jobs_updated", "error_message", "started_at", "completed_at", "duration_seconds"}, {Owner},
    {}))

CreateCareerPages ==
  Create("career_pages", Table({"id", "user_id", "url", "company_name", "enabled", "use_spider",
    "consecutive_failures", "last_scraped_at", "last_error", "created_at"}, {Owner}, {}))

CreateUserProfiles ==
  Create("user_profiles", Table({"id", "user_id", "full_name", "email", "phone", "location",
    "resume_text", "resume_filename", "resume_parsed_structured", "search_queries",
    "search_locations", "watchlist_companies", "linkedin_url", "github_url", "portfolio_url",
    "education", "work_experience", "work_authorization", "preferred_job_types",
    "preferred_remote_types", "salary_min", "salary_max", "answer_bank", "theme",
    "notifications_enabled", "auto_apply_enabled", "created_at", "updated_at"}, {Owner},
    {{"user_id"}}))

CreateResumeVersions ==
  Create("resume_versions", Table({"id", "user_id", "label", "filename", "file_path", "parsed_text",
    "parsed_structured", "is_default", "created_at"}, {Owner}, {}))

CreateApplications ==
  Create("applications", Table({"id", "user_id", "job_id", "company_name", "position_title",
    "status", "source", "applied_at", "offer_at", "rejected_at", "follow_up_at", "reminder_at",
    "notes", "resume_version_id", "cover_letter_id", "salary_offered", "created_at", "updated_at"},
    {Owner, <<"job_id", "jobs", NoAction>>, <<"resume_version_id", "resume_versions", NoAction>>},
    {}))

CreateApplicationStatusHistory ==
  Create("application_status_history", Table({"id", "application_id", "old_status", "new_status",
    "change_source", "note", "changed_at"}, {<<"application_id", "applications", Cascade>>}, {}))

CreateAutoApplyProfiles ==
  Create("auto_apply_profiles", Table({"id", "user_id", "name", "full_name", "email", "phone",
    "linkedin_url", "github_url", "portfolio_url", "cover_letter_template", "is_active",
    "created_at"}, {Owner}, {}))

CreateAutoApplyRules ==
  Create("auto_apply_rules", Table({"id", "user_id", "profile_id", "name", "is_active", "priority",
    "min_match_score", "required_keywords", "excluded_keywords", "required_companies",
    "excluded_companies", "experience_levels", "remote_types", "created_at"}, {Owner,
    <<"profile_id", "auto_apply_profiles", NoAction>>}, {}))

CreateAutoApplyRuns ==
  Create("auto_apply_runs", Table({"id", "user_id", "job_id", "rule_id", "status", "ats_provider",
    "fields_filled", "fields_missed", "screenshots", "error_message", "started_at", "completed_at"},
    {Owner, <<"job_id", "jobs", NoAction>>, <<"rule_id", "auto_apply_rules", NoAction>>}, {}))

CreateCoverLetters ==
  Create("cover_letters", Table({"id", "user_id", "job_id", "style", "content", "created_at"},
    {Owner, <<"job_id", "jobs", NoAction>>}, {}))

CreateInterviewSessions ==
  Create("interview_sessions", Table({"id", "user_id", "job_id", "questions", "answers", "scores",
    "overall_score", "created_at"}, {Owner, <<"job_id", "jobs", NoAction>>}, {}))

CreateSalaryCache ==
  Create("salary_cache", Table({"id", "user_id", "job_title", "company_name", "location",
    "market_data", "created_at"}, {Owner}, {}))

CreateCompanies ==
  Create("companies", Table({"id", "canonical_name", "domain", "careers_url", "logo_url",
    "ats_provider", "validation_state", "confidence_score", "job_count", "source_count",
    "created_at", "updated_at"}, {}, {}))

CreateSourceRegistry ==
  Create("source_registry", Table({"id", "source_name", "health_state", "quality_score",
    "total_jobs_found", "last_check_at", "failure_count", "backoff_until", "created_at"}, {},
    {{"source_name"}}))

CreateSourceCheckLog ==
  Create("source_check_log", Table({"id", "source_id", "check_type", "check_status", "jobs_found",
    "error_message", "checked_at"}, {<<"source_id", "source_registry", NoAction>>}, {}))

Up002 ==
  <<CreateJobs, CreateSavedSearches, CreateScraperRuns, CreateCareerPages, CreateUserProfiles,
    CreateResumeVersions, CreateApplications, CreateApplicationStatusHistory,
    CreateAutoApplyProfiles, CreateAutoApplyRules, CreateAutoApplyRuns, CreateCoverLetters,
    CreateInterviewSessions, CreateSalaryCache, CreateCompanies, CreateSourceRegistry,
    CreateSourceCheckLog>>

Down002 == Drops(
  <<"source_check_log", "source_registry", "companies", "salary_cache", "interview_sessions",
    "cover_letters", "auto_apply_runs", "auto_apply_rules", "auto_apply_profiles",
    "application_status_history", "applications", "resume_versions", "user_profiles",
    "career_pages", "scraper_runs", "saved_searches", "jobs">>)

-----------------------------------------------------------------------------------
(* Revision 003 *)

CreateNotifications ==
  Create("notifications", Table({"id", "user_id", "title", "body", "read", "notification_type",
    "link", "created_at"}, {Owner}, {}))

CreateCanonicalJobs ==
  Create("canonical_jobs", Table({"id", "user_id", "title", "company_name", "company_domain",
    "location", "remote_type", "status", "source_count", "first_seen_at", "last_refreshed_at",
    "is_stale", "merged_data", "created_at", "updated_at"}, {Owner}, {}))

CreateRawJobSources ==
  Create("raw_job_sources", Table({"id", "canonical_job_id", "job_id", "source", "source_url",
    "scraped_at", "created_at"}, {<<"canonical_job_id", "canonical_jobs", Cascade>>, <<"job_id",
    "jobs", SetNull>>}, {}))

CreateFollowupReminders ==
  Create("followup_reminders", Table({"id", "user_id", "application_id", "reminder_at",
    "reminder_note", "is_sent", "created_at"}, {Owner, <<"application_id", "applications",
    Cascade>>}, {}))

CreateQueryTemplates ==
  Create("query_templates", Table({"id", "user_id", "name", "base_query", "expanded_queries",
    "strictness", "is_active", "created_at", "updated_at"}, {Owner}, {}))

CreateExpansionRules ==
  Create("expansion_rules", Table({"id", "user_id", "source_term", "expanded_terms", "rule_type",
    "is_active", "created_at"}, {Owner}, {}))

CreateQueryPerformance ==
  Create("query_performance", Table({"id", "user_id", "template_id", "query_text", "jobs_found",
    "relevant_jobs", "executed_at"}, {Owner, <<"template_id", "query_templates", SetNull>>}, {}))

CompanyColumns ==
  {"ats_slug", "board_urls", "domain_aliases", "last_validated_at", "last_probe_at",
   "probe_error", "manual_override", "override_fields"}
ProfileColumns ==
  {"address", "city", "state", "zip_code", "country", "requires_sponsorship", "notice_period",
   "available_start", "current_title", "current_company", "graduation_year", "highest_degree"}
RegistryColumns == {"source_type", "config", "backoff_multiplier"}

Up003 ==
  <<CreateNotifications, CreateCanonicalJobs, CreateRawJobSources, CreateFollowupReminders,
    CreateQueryTemplates, CreateExpansionRules, CreateQueryPerformance,
    AddColumns("companies", CompanyColumns), AddColumns("source_registry", RegistryColumns),
    AddColumns("user_profiles", ProfileColumns),
    AddColumns("saved_searches", {"last_checked_at"})>>

Down003 ==
  <<DropColumns("saved_searches", {"last_checked_at"}),
    DropColumns("user_profiles", ProfileColumns), DropColumns("source_registry", RegistryColumns),
    DropColumns("companies", CompanyColumns)>>
  \o Drops(<<"query_performance", "expansion_rules", "query_templates", "followup_reminders",
            "raw_job_sources", "canonical_jobs", "notifications">>)

-----------------------------------------------------------------------------------
(* aaba1d3f957f: scrape targets and attempts.  503ca7a300d9: indexes, no effect here. *)

CreateScrapeTargets ==
  Create("scrape_targets", Table({"id", "user_id", "url", "company_name", "company_domain",
    "source_kind", "ats_vendor", "ats_board_token", "start_tier", "max_tier", "priority_class",
    "schedule_interval_m", "enabled", "quarantined", "quarantine_reason", "last_success_at",
    "last_failure_at", "last_success_tier", "last_http_status", "content_hash", "etag",
    "last_modified", "consecutive_failures", "failure_count", "next_scheduled_at", "lca_filings",
    "industry", "created_at", "updated_at"}, {Owner}, {}))

CreateScrapeAttempts ==
  Create("scrape_attempts", Table({"id", "run_id", "target_id", "selected_tier", "actual_tier_used",
    "scraper_name", "parser_name", "status", "http_status", "duration_ms", "retries", "escalations",
    "jobs_extracted", "content_hash_before", "content_hash_after", "content_changed", "error_class",
    "error_message", "browser_used", "created_at"}, {<<"run_id", "scraper_runs", NoAction>>,
    <<"target_id", "scrape_targets", NoAction>>}, {}))

UpTargets   == <<CreateScrapeTargets, CreateScrapeAttempts>>
DownTargets == Drops(<<"scrape_attempts", "scrape_targets">>)

-----------------------------------------------------------------------------------
(* 45613a5a2f78: job lifecycle columns and tier counters *)

LifecycleColumns ==
  {"first_seen_at", "last_seen_at", "disappeared_at", "content_hash", "previous_hash",
   "seen_count", "source_target_id"}
TierColumns ==
  {"targets_attempted", "targets_succeeded", "targets_failed", "tier_0_count", "tier_1_count",
   "tier_2_count", "tier_3_count", "tier_api_count"}
UpLifecycle ==
  <<AddColumns("jobs", LifecycleColumns),
    SetForeignKey("jobs", "source_target_id", "scrape_targets", NoAction),
    AddColumns("scraper_runs", TierColumns)>>
DownLifecycle ==
  <<DropColumns("scraper_runs", TierColumns), DropForeignKey("jobs", "source_target_id"),
    DropColumns("jobs", LifecycleColumns)>>

-----------------------------------------------------------------------------------
(* e5d40ea7c9db: career pages become scrape targets *)

\* The columns of scrape_targets that are NOT NULL and have no default in the database,
\* and the columns the data migration gives.
TargetRequired ==
  {"id", "url", "source_kind", "start_tier", "max_tier", "priority_class",
   "schedule_interval_m", "enabled", "quarantined", "consecutive_failures", "failure_count"}
TargetGiven ==
  {"id", "user_id", "url", "company_name", "enabled", "source_kind", "consecutive_failures",
   "created_at", "updated_at"}

\* INSERT INTO scrape_targets ... SELECT ... FROM career_pages: with no page there is
\* nothing to insert; a row that leaves a required column out is refused.
MoveCareerPages ==
  IF TargetRequired \subseteq TargetGiven THEN Move("career_page", "career_target")
                                         ELSE Refuse("career_page")
UpCareerPages == <<MoveCareerPages, Drop("career_pages")>>

RecreateCareerPages ==
  Create("career_pages", Table({"id", "user_id", "url", "company_name", "enabled", "use_spider",
    "consecutive_failures", "last_scraped_at", "last_error", "created_at"}, {Owner}, {}))
\* The rows are copied back, then deleted: an attempt or a job that still points to one
\* of these targets refuses the delete.
DownCareerPages ==
  <<RecreateCareerPages, Refuse("target_reference"), Move("career_target", "career_page")>>

-----------------------------------------------------------------------------------
(* 20260321_db_audit_fixes *)

AttemptColumns == {"pages_crawled", "pagination_stopped_reason"}
\* Mutant: the key of cover_letters is forgotten.
AuditedForeignKeys_forgetful(rule) ==
  <<SetForeignKey("auto_apply_runs", "job_id", "jobs", rule),
    SetForeignKey("applications", "job_id", "jobs", rule),
    SetForeignKey("interview_sessions", "job_id", "jobs", rule)>>
AuditedForeignKeys(rule) ==
  <<SetForeignKey("auto_apply_runs", "job_id", "jobs", rule),
    SetForeignKey("applications", "job_id", "jobs", rule),
    SetForeignKey("cover_letters", "job_id", "jobs", rule),
    SetForeignKey("interview_sessions", "job_id", "jobs", rule)>>
UpAudit ==
  <<AddColumns("users", {"token_version"}), AddColumns("scrape_attempts", AttemptColumns)>>
  \o AuditedForeignKeys(SetNull)
DownAudit ==
  AuditedForeignKeys(NoAction)
  \o <<DropColumns("scrape_attempts", AttemptColumns), DropColumns("users", {"token_version"})>>

-----------------------------------------------------------------------------------
(* The five revisions that branch off the audit revision: 004, 20260323_* *)

CreateEmailLogs ==
  Create("email_logs", Table({"id", "user_id", "sender", "subject", "parsed_action", "confidence",
    "matched_application_id", "company_extracted", "job_title_extracted", "raw_body_hash", "error",
    "processed_at", "created_at"}, {Owner, <<"matched_application_id", "applications", SetNull>>},
    {}))

UpEmail   == <<CreateEmailLogs>>
DownEmail == Drops(<<"email_logs">>)

CreateContacts ==
  Create("contacts", Table({"id", "user_id", "name", "company", "role", "relationship_strength",
    "linkedin_url", "email", "last_contacted", "notes", "created_at", "updated_at"}, {Owner}, {}))

CreateReferralRequests ==
  Create("referral_requests", Table({"id", "user_id", "contact_id", "job_id", "status",
    "message_template", "sent_at", "created_at", "updated_at"}, {Owner, <<"contact_id", "contacts",
    Cascade>>, <<"job_id", "jobs", Cascade>>}, {}))

UpNetworking   == <<CreateContacts, CreateReferralRequests>>
DownNetworking == Drops(<<"referral_requests", "contacts">>)

CreateResumeArchetypes ==
  Create("resume_archetypes", Table({"id", "user_id", "name", "description", "target_role_type",
    "base_ir_json", "emphasis_sections", "keyword_priorities", "created_at"}, {Owner}, {}))

UpArchetypes   == <<CreateResumeArchetypes>>
DownArchetypes == Drops(<<"resume_archetypes">>)

CreateDedupFeedback ==
  Create("dedup_feedback", Table({"id", "job_a_id", "job_b_id", "user_id", "is_duplicate",
    "title_similarity", "company_ratio", "created_at"}, {<<"job_a_id", "jobs", NoAction>>,
    <<"job_b_id", "jobs", NoAction>>, Owner}, {}))

UpFeedback   == <<CreateDedupFeedback>>
DownFeedback == Drops(<<"dedup_feedback">>)

CreateFieldMappingRules ==
  Create("field_mapping_rules", Table({"id", "ats_provider", "field_label_hash", "field_label",
    "semantic_key", "confidence", "source", "times_seen", "last_seen"}, {}, {{"ats_provider",
    "field_label_hash"}}))

CreateApplicationDedup ==
  Create("application_dedup", Table({"id", "user_id", "job_id", "ats_provider", "application_url",
    "applied_at"}, {Owner, <<"job_id", "jobs", Cascade>>}, {{"user_id", "job_id"}}))

UpFormLearning   == <<CreateFieldMappingRules, CreateApplicationDedup>>
DownFormLearning == Drops(<<"application_dedup", "field_mapping_rules">>)

-----------------------------------------------------------------------------------
(* Revision 005: creates what the five branches create, where it is missing *)

EnsureResumeArchetypes ==
  Ensure("resume_archetypes", Table({"id", "user_id", "name", "description", "target_role_type",
    "base_ir_json", "emphasis_sections", "keyword_priorities", "created_at"}, {Owner}, {}))

EnsureFieldMappingRules ==
  Ensure("field_mapping_rules", Table({"id", "ats_provider", "field_label_hash", "field_label",
    "semantic_key", "confidence", "source", "times_seen", "last_seen"}, {}, {{"ats_provider",
    "field_label_hash"}}))

EnsureApplicationDedup ==
  Ensure("application_dedup", Table({"id", "user_id", "job_id", "ats_provider", "application_url",
    "applied_at"}, {Owner, <<"job_id", "jobs", Cascade>>}, {{"user_id", "job_id"}}))

EnsureDedupFeedback ==
  Ensure("dedup_feedback", Table({"id", "job_a_id", "job_b_id", "user_id", "is_duplicate",
    "title_similarity", "company_ratio", "created_at"}, {<<"job_a_id", "jobs", NoAction>>,
    <<"job_b_id", "jobs", NoAction>>, Owner}, {}))

EnsureEmailLogs ==
  Ensure("email_logs", Table({"id", "user_id", "sender", "subject", "parsed_action", "confidence",
    "matched_application_id", "company_extracted", "job_title_extracted", "raw_body_hash", "error",
    "processed_at", "created_at"}, {Owner, <<"matched_application_id", "applications", SetNull>>},
    {}))

EnsureContacts ==
  Ensure("contacts", Table({"id", "user_id", "name", "company", "role", "relationship_strength",
    "linkedin_url", "email", "last_contacted", "notes", "created_at", "updated_at"}, {Owner}, {}))

EnsureReferralRequests ==
  Ensure("referral_requests", Table({"id", "user_id", "contact_id", "job_id", "status",
    "message_template", "sent_at", "created_at", "updated_at"}, {Owner, <<"contact_id", "contacts",
    Cascade>>, <<"job_id", "jobs", Cascade>>}, {}))

EnsureMlModelArtifacts ==
  Ensure("ml_model_artifacts", Table({"id", "user_id", "model_name", "model_version", "model_bytes",
    "n_samples", "cv_accuracy", "positive_rate", "feature_names", "created_at"}, {Owner}, {}))

EnsureApplicationOutcomes ==
  Ensure("application_outcomes", Table({"id", "application_id", "user_id", "stage_reached",
    "rejection_reason", "rejection_stage", "days_to_response", "offer_amount", "offer_equity",
    "offer_total_comp", "negotiated_amount", "final_decision", "was_ghosted", "referral_used",
    "cover_letter_used", "application_method", "feedback_notes", "created_at", "updated_at"},
    {<<"application_id", "applications", Cascade>>, Owner}, {{"application_id"}}))

EnsureCompanyInsights ==
  Ensure("company_insights", Table({"id", "user_id", "company_name", "total_applications",
    "callback_count", "avg_response_days", "ghosted_count", "ghost_rate", "rejection_rate",
    "offer_rate", "offers_received", "avg_offer_amount", "interview_difficulty", "culture_notes",
    "last_applied_at", "created_at", "updated_at"}, {Owner}, {{"user_id", "company_name"}}))

Up005 ==
  <<EnsureResumeArchetypes, EnsureFieldMappingRules, EnsureApplicationDedup, EnsureDedupFeedback,
    EnsureEmailLogs, EnsureContacts, EnsureReferralRequests, EnsureMlModelArtifacts,
    EnsureApplicationOutcomes, EnsureCompanyInsights>>

\* Mutant: the tables the branches create are left to the branches.
Down005_own == Drops(<<"company_insights", "application_outcomes", "ml_model_artifacts">>)
Down005 == Drops(
  <<"company_insights", "application_outcomes", "ml_model_artifacts", "referral_requests",
    "contacts", "email_logs", "dedup_feedback", "application_dedup", "field_mapping_rules",
    "resume_archetypes">>)

-----------------------------------------------------------------------------------
(* Integration secrets, ATS identity, saved-search alerts, Google integration, review items *)

CreateUserIntegrationSecrets ==
  Create("user_integration_secrets", Table({"id", "user_id", "provider", "secret_value",
    "created_at", "updated_at"}, {Owner}, {{"user_id", "provider"}}))

UpSecrets   == <<CreateUserIntegrationSecrets>>
DownSecrets == Drops(<<"user_integration_secrets">>)

AtsColumns == {"ats_job_id", "ats_provider", "ats_composite_key"}
UpAts   == <<AddColumns("jobs", AtsColumns), AddUnique("jobs", {"ats_composite_key"})>>
DownAts == <<DropUnique("jobs", {"ats_composite_key"}), DropColumns("jobs", AtsColumns)>>

AlertColumns == {"last_matched_at", "last_match_count", "last_error"}
UpAlerts   == <<AddColumns("saved_searches", AlertColumns)>>
DownAlerts == <<DropColumns("saved_searches", AlertColumns)>>

SecretColumns ==
  {"auth_type", "secret_json", "account_email", "scopes", "last_validated_at",
   "last_synced_at", "last_error"}
ProvenanceColumns ==
  {"source_provider", "source_message_id", "source_thread_id", "source_received_at"}
UpGoogle ==
  <<AddColumns("user_integration_secrets", SecretColumns),
    AddColumns("email_logs", ProvenanceColumns)>>
\* The last operation makes secret_value NOT NULL again: an OAuth row has none.
DownGoogle ==
  <<DropColumns("email_logs", ProvenanceColumns),
    DropColumns("user_integration_secrets", SecretColumns), Refuse("oauth_secret")>>

UpReview   == <<AddColumns("auto_apply_runs", {"review_items"})>>
DownReview == <<DropColumns("auto_apply_runs", {"review_items"})>>
-----------------------------------------------------------------------------------
(* The revision graph *)

Branches == {"004", "networking", "archetypes", "dedup_feedback", "form_learning"}
Revisions ==
    {"001", "002", "003", "scrape_targets", "attempt_indexes", "job_lifecycle",
     "career_pages", "audit_fixes"} \cup Branches
    \cup {"merge_heads", "005", "integration_secrets", "ats_identity",
          "saved_search_alerts", "google_integration", "auto_apply_review"}
HeadRevision == "auto_apply_review"

Parents(r) ==
    CASE r = "001" -> {}
      [] r = "002" -> {"001"}
      [] r = "003" -> {"002"}
      [] r = "scrape_targets" -> {"003"}
      [] r = "attempt_indexes" -> {"scrape_targets"}
      [] r = "job_lifecycle" -> {"attempt_indexes"}
      [] r = "career_pages" -> {"job_lifecycle"}
      [] r = "audit_fixes" -> {"career_pages"}
      [] r \in Branches -> {"audit_fixes"}
      [] r = "merge_heads" -> Branches
      [] r = "005" -> {"merge_heads"}
      [] r = "integration_secrets" -> {"005"}
      [] r = "ats_identity" -> {"integration_secrets"}
      [] r = "saved_search_alerts" -> {"ats_identity"}
      [] r = "google_integration" -> {"saved_search_alerts"}
      [] r = "auto_apply_review" -> {"google_integration"}

Up(r) ==
    CASE r = "001" -> Up001
      [] r = "002" -> Up002
      [] r = "003" -> Up003
      [] r = "scrape_targets" -> UpTargets
      [] r = "job_lifecycle" -> UpLifecycle
      [] r = "career_pages" -> UpCareerPages
      [] r = "audit_fixes" -> UpAudit
      [] r = "004" -> UpEmail
      [] r = "networking" -> UpNetworking
      [] r = "archetypes" -> UpArchetypes
      [] r = "dedup_feedback" -> UpFeedback
      [] r = "form_learning" -> UpFormLearning
      [] r = "005" -> Up005
      [] r = "integration_secrets" -> UpSecrets
      [] r = "ats_identity" -> UpAts
      [] r = "saved_search_alerts" -> UpAlerts
      [] r = "google_integration" -> UpGoogle
      [] r = "auto_apply_review" -> UpReview
      [] r \in {"attempt_indexes", "merge_heads"} -> <<>>

Down(r) ==
    CASE r = "001" -> Down001
      [] r = "002" -> Down002
      [] r = "003" -> Down003
      [] r = "scrape_targets" -> DownTargets
      [] r = "job_lifecycle" -> DownLifecycle
      [] r = "career_pages" -> DownCareerPages
      [] r = "audit_fixes" -> DownAudit
      [] r = "004" -> DownEmail
      [] r = "networking" -> DownNetworking
      [] r = "archetypes" -> DownArchetypes
      [] r = "dedup_feedback" -> DownFeedback
      [] r = "form_learning" -> DownFormLearning
      [] r = "005" -> Down005
      [] r = "integration_secrets" -> DownSecrets
      [] r = "ats_identity" -> DownAts
      [] r = "saved_search_alerts" -> DownAlerts
      [] r = "google_integration" -> DownGoogle
      [] r = "auto_apply_review" -> DownReview
      [] r \in {"attempt_indexes", "merge_heads"} -> <<>>

\* A set of revisions with everything they descend from / everything that descends from them.
Closure[n \in 0..Cardinality(Revisions)] ==
    [r \in Revisions |->
        IF n = 0 THEN {r} ELSE {r} \cup UNION {Closure[n - 1][p] : p \in Parents(r)}]
Ancestors   == Closure[Cardinality(Revisions)]
Descendants == [r \in Revisions |-> {q \in Revisions : r \in Ancestors[q]}]

-----------------------------------------------------------------------------------
(* The alembic command *)

Idle == [kind |-> "idle", scope |-> {}]

\* An empty database, as in the replay procedure.
Init ==
    /\ db = [tables |-> <<>>, rows |-> {}] /\ applied = {}
    /\ command = Idle /\ work = db /\ workApplied = applied
    /\ consolidated = FALSE

\* `alembic upgrade <revision>`: what is missing of the revision and its ancestors.
StartUpgrade(target) ==
    /\ command = Idle /\ target \notin applied
    /\ command' = [kind |-> "upgrade", scope |-> {r \in Revisions \ applied : r \in Ancestors[target]}]
    /\ work' = db /\ workApplied' = applied
    /\ UNCHANGED <<db, applied, consolidated>>

\* `alembic downgrade <revision>`: everything that descends from the revision, not itself.
StartDowngrade(target) ==
    /\ command = Idle /\ target \in applied
    /\ (Descendants[target] \ {target}) \cap applied # {}
    /\ command' = [kind |-> "downgrade",
                   scope |-> (Descendants[target] \ {target}) \cap applied]
    /\ work' = db /\ workApplied' = applied
    /\ UNCHANGED <<db, applied, consolidated>>

\* The revisions whose turn may come next.
Ready ==
    CASE command.kind = "upgrade"   ->
           {r \in command.scope \ workApplied : Parents(r) \subseteq workApplied}
      [] command.kind = "downgrade" ->
           {r \in command.scope \cap workApplied :
               \A q \in workApplied : r \notin Parents(q)}
      [] OTHER -> {}
Result(r) == PerformAll(work, IF command.kind = "upgrade" THEN Up(r) ELSE Down(r))

RunRevision(r) ==
    /\ r \in Ready /\ Result(r) # Failed
    /\ work' = Result(r)
    /\ workApplied' = IF command.kind = "upgrade" THEN workApplied \cup {r}
                                                  ELSE workApplied \ {r}
    /\ UNCHANGED <<db, applied, command, consolidated>>

Rollback ==
    /\ command' = Idle /\ work' = db /\ workApplied' = applied
    /\ UNCHANGED <<db, applied, consolidated>>

\* An operation of the revision fails: alembic exits and nothing of the command stays.
FailRevision(r) == r \in Ready /\ Result(r) = Failed /\ Rollback

\* The process or its connection dies before the commit.
CrashCommand == command # Idle /\ Rollback

CommitCommand ==
    /\ command # Idle /\ Ready = {}
    /\ db' = work /\ applied' = workApplied /\ command' = Idle
    /\ consolidated' = (consolidated \/ "005" \in workApplied)
    /\ UNCHANGED <<work, workApplied>>

\* `alembic stamp`: a branch is recorded as applied and not executed, which is what
\* revision 005 says was done to the live database.
Stamp(r) ==
    /\ command = Idle /\ r \in Branches \ applied /\ Parents(r) \subseteq applied
    /\ applied' = applied \cup {r} /\ workApplied' = applied'
    /\ UNCHANGED <<db, command, work, consolidated>>

\* The application stores a row a later command may stumble over.
StoreRow(kind) ==
    /\ command = Idle /\ kind \in RowKinds \ db.rows /\ Exists(db, LivesIn(kind))
    /\ kind = "target_reference" => "career_target" \in db.rows
    /\ kind = "oauth_secret" => "google_integration" \in applied
    /\ db' = [db EXCEPT !.rows = @ \cup {kind}] /\ work' = db'
    /\ UNCHANGED <<applied, command, workApplied, consolidated>>

Next ==
    \/ \E r \in Revisions :
           \/ StartUpgrade(r) \/ StartDowngrade(r)
           \/ RunRevision(r) \/ FailRevision(r) \/ Stamp(r)
    \/ CrashCommand \/ CommitCommand
    \/ \E kind \in RowKinds : StoreRow(kind)

Spec == Init /\ [][Next]_vars

-----------------------------------------------------------------------------------
(* Properties *)

\* A foreign key the model of applications declares and no revision creates.
NeverCreated == {<<"cover_letter_id", "cover_letters", NoAction>>}

\* Whatever the way the database came to the head revision (replayed from empty in any
\* order of the branches, branches stamped and not executed, downgraded and upgraded
\* again), it has every table and column the ORM names, and exactly the unique keys and
\* the delete rules the models declare, but for the one key in NeverCreated.
HeadIsWhatTheModelsDeclare ==
    HeadRevision \in applied =>
        \A t \in DOMAIN Declared :
            /\ Exists(db, t)
            /\ Declared[t].cols \subseteq db.tables[t].cols
            /\ db.tables[t].fks = Declared[t].fks \ NeverCreated
            /\ db.tables[t].unique = Declared[t].unique

\* No revision of an upgrade can fail, in any order and after any earlier commands,
\* except the one that moves career pages, and that one only when there is a page.
OnlyCareerPagesStopAnUpgrade ==
    command.kind = "upgrade" =>
        \A r \in Ready : Result(r) = Failed =>
            r = "career_pages" /\ "career_page" \in work.rows

\* Once revision 005 has been committed no command gets below the branches any more:
\* the downgrade of 005 drops the tables the branches' own downgrades drop.
NoWayBackPastTheBranches ==
    [][consolidated => Branches \subseteq applied']_vars

\* Commands succeed or fail for the reasons the revisions give, and no others.
CommandsArePredictable == []OnlyCareerPagesStopAnUpgrade /\ NoWayBackPastTheBranches
====================================================================================

---------------------------------- MODULE Schema ----------------------------------
(***********************************************************************************)
(* The tables the SQLAlchemy models declare (Base.metadata): the columns the ORM    *)
(* names in every statement it issues, the foreign keys with what happens to a      *)
(* row when the row it points to is deleted, and the unique keys apart from the     *)
(* primary one.  Column types and nullability are left out.  Each definition is     *)
(* one model class; Declared is the metadata as a whole.                            *)
(***********************************************************************************)

NoAction == "NO ACTION"      \* the delete of the referenced row is refused
Cascade  == "CASCADE"        \* the referencing row is deleted too
SetNull  == "SET NULL"       \* the referencing column is emptied

\* A table: its columns, its foreign keys <<column, table, rule>>, its unique keys.
Table(cols, fks, unique) == [cols |-> cols, fks |-> fks, unique |-> unique]

\* The foreign key most tables have: the user the row belongs to.
Owner == <<"user_id", "users", NoAction>>

\* app/analytics/models.py
MLModelArtifact ==
  Table({"id", "user_id", "model_name", "model_version", "model_bytes", "n_samples", "cv_accuracy",
    "positive_rate", "feature_names", "created_at"}, {Owner}, {})

\* app/auth/models.py
User ==
  Table({"id", "email", "password_hash", "display_name", "is_active", "token_version", "created_at",
    "updated_at"}, {}, {{"email"}})

\* app/auto_apply/form_learning.py
FieldMappingRule ==
  Table({"id", "ats_provider", "field_label_hash", "field_label", "semantic_key", "confidence",
    "source", "times_seen", "last_seen"}, {}, {{"ats_provider", "field_label_hash"}})

ApplicationDedup ==
  Table({"id", "user_id", "job_id", "ats_provider", "application_url", "applied_at"}, {Owner,
    <<"job_id", "jobs", Cascade>>}, {{"user_id", "job_id"}})

\* app/auto_apply/models.py
AutoApplyProfile ==
  Table({"id", "user_id", "name", "full_name", "email", "phone", "linkedin_url", "github_url",
    "portfolio_url", "cover_letter_template", "is_active", "created_at"}, {Owner}, {})

AutoApplyRule ==
  Table({"id", "user_id", "profile_id", "name", "is_active", "priority", "min_match_score",
    "required_keywords", "excluded_keywords", "required_companies", "excluded_companies",
    "experience_levels", "remote_types", "created_at"}, {Owner, <<"profile_id",
    "auto_apply_profiles", NoAction>>}, {})

AutoApplyRun ==
  Table({"id", "user_id", "job_id", "rule_id", "status", "ats_provider", "fields_filled",
    "fields_missed", "review_items", "screenshots", "error_message", "started_at", "completed_at"},
    {Owner, <<"job_id", "jobs", SetNull>>, <<"rule_id", "auto_apply_rules", NoAction>>}, {})

\* app/canonical_jobs/models.py
CanonicalJob ==
  Table({"id", "user_id", "title", "company_name", "company_domain", "location", "remote_type",
    "status", "source_count", "first_seen_at", "last_refreshed_at", "is_stale", "merged_data",
    "created_at", "updated_at"}, {Owner}, {})

RawJobSource ==
  Table({"id", "canonical_job_id", "job_id", "source", "source_url", "scraped_at", "created_at"},
    {<<"canonical_job_id", "canonical_jobs", Cascade>>, <<"job_id", "jobs", SetNull>>}, {})

\* app/companies/models.py
Company ==
  Table({"id", "canonical_name", "domain", "careers_url", "logo_url", "ats_provider",
    "validation_state", "confidence_score", "job_count", "source_count", "ats_slug", "board_urls",
    "domain_aliases", "last_validated_at", "last_probe_at", "probe_error", "manual_override",
    "override_fields", "created_at", "updated_at"}, {}, {})

\* app/copilot/models.py
CoverLetter ==
  Table({"id", "user_id", "job_id", "style", "content", "created_at"}, {Owner, <<"job_id", "jobs",
    SetNull>>}, {})

\* app/email/models.py
EmailLog ==
  Table({"id", "user_id", "sender", "subject", "parsed_action", "confidence",
    "matched_application_id", "source_provider", "source_message_id", "source_thread_id",
    "source_received_at", "company_extracted", "job_title_extracted", "raw_body_hash", "error",
    "processed_at", "created_at"}, {Owner, <<"matched_application_id", "applications", SetNull>>},
    {})

\* app/followup/models.py
FollowupReminder ==
  Table({"id", "user_id", "application_id", "reminder_at", "reminder_note", "is_sent",
    "created_at"}, {Owner, <<"application_id", "applications", Cascade>>}, {})

\* app/interview/models.py
InterviewSession ==
  Table({"id", "user_id", "job_id", "questions", "answers", "scores", "overall_score",
    "created_at"}, {Owner, <<"job_id", "jobs", SetNull>>}, {})

\* app/jobs/models.py
Job ==
  Table({"id", "user_id", "source", "source_url", "title", "company_name", "company_domain",
    "company_logo_url", "location", "location_city", "location_state", "location_country",
    "remote_type", "description_raw", "description_clean", "description_markdown", "salary_min",
    "salary_max", "salary_period", "salary_currency", "experience_level", "seniority_score",
    "job_type", "posted_at", "scraped_at", "expires_at", "is_enriched", "enriched_at", "summary_ai",
    "skills_required", "skills_nice_to_have", "tech_stack", "red_flags", "green_flags",
    "match_score", "tfidf_score", "ats_job_id", "ats_provider", "ats_composite_key", "dedup_hash",
    "simhash", "duplicate_of", "status", "is_starred", "is_active", "is_hidden", "first_seen_at",
    "last_seen_at", "disappeared_at", "content_hash", "previous_hash", "seen_count",
    "source_target_id", "created_at", "updated_at"}, {Owner, <<"source_target_id", "scrape_targets",
    NoAction>>}, {{"ats_composite_key"}})

\* app/networking/models.py
Contact ==
  Table({"id", "user_id", "name", "company", "role", "relationship_strength", "linkedin_url",
    "email", "last_contacted", "notes", "created_at", "updated_at"}, {Owner}, {})

ReferralRequest ==
  Table({"id", "user_id", "contact_id", "job_id", "status", "message_template", "sent_at",
    "created_at", "updated_at"}, {Owner, <<"contact_id", "contacts", Cascade>>, <<"job_id", "jobs",
    Cascade>>}, {})

\* app/notifications/models.py
Notification ==
  Table({"id", "user_id", "title", "body", "read", "notification_type", "link", "created_at"},
    {Owner}, {})

\* app/outcomes/models.py
ApplicationOutcome ==
  Table({"id", "application_id", "user_id", "stage_reached", "rejection_reason", "rejection_stage",
    "days_to_response", "offer_amount", "offer_equity", "offer_total_comp", "negotiated_amount",
    "final_decision", "was_ghosted", "referral_used", "cover_letter_used", "application_method",
    "feedback_notes", "created_at", "updated_at"}, {<<"application_id", "applications", Cascade>>,
    Owner}, {{"application_id"}})

CompanyInsight ==
  Table({"id", "user_id", "company_name", "total_applications", "callback_count",
    "avg_response_days", "ghosted_count", "ghost_rate", "rejection_rate", "offer_rate",
    "offers_received", "avg_offer_amount", "interview_difficulty", "culture_notes",
    "last_applied_at", "created_at", "updated_at"}, {Owner}, {{"user_id", "company_name"}})

\* app/pipeline/models.py
Application ==
  Table({"id", "user_id", "job_id", "company_name", "position_title", "status", "source",
    "applied_at", "offer_at", "rejected_at", "follow_up_at", "reminder_at", "notes",
    "resume_version_id", "cover_letter_id", "salary_offered", "created_at", "updated_at"}, {Owner,
    <<"job_id", "jobs", SetNull>>, <<"resume_version_id", "resume_versions", NoAction>>,
    <<"cover_letter_id", "cover_letters", NoAction>>}, {})

ApplicationStatusHistory ==
  Table({"id", "application_id", "old_status", "new_status", "change_source", "note", "changed_at"},
    {<<"application_id", "applications", Cascade>>}, {})

\* app/profile/models.py
UserProfile ==
  Table({"id", "user_id", "full_name", "email", "phone", "location", "resume_text",
    "resume_filename", "resume_parsed_structured", "search_queries", "search_locations",
    "watchlist_companies", "linkedin_url", "github_url", "portfolio_url", "education",
    "work_experience", "work_authorization", "address", "city", "state", "zip_code", "country",
    "requires_sponsorship", "notice_period", "available_start", "current_title", "current_company",
    "graduation_year", "highest_degree", "preferred_job_types", "preferred_remote_types",
    "salary_min", "salary_max", "answer_bank", "theme", "notifications_enabled",
    "auto_apply_enabled", "created_at", "updated_at"}, {Owner}, {{"user_id"}})

\* app/resume/archetypes.py
ResumeArchetype ==
  Table({"id", "user_id", "name", "description", "target_role_type", "base_ir_json",
    "emphasis_sections", "keyword_priorities", "created_at"}, {Owner}, {})

\* app/resume/models.py
ResumeVersion ==
  Table({"id", "user_id", "label", "filename", "file_path", "parsed_text", "parsed_structured",
    "is_default", "created_at"}, {Owner}, {})

\* app/salary/models.py
SalaryCache ==
  Table({"id", "user_id", "job_title", "company_name", "location", "market_data", "created_at"},
    {Owner}, {})

\* app/scraping/dedup_feedback.py
DedupFeedback ==
  Table({"id", "job_a_id", "job_b_id", "user_id", "is_duplicate", "title_similarity",
    "company_ratio", "created_at"}, {<<"job_a_id", "jobs", NoAction>>, <<"job_b_id", "jobs",
    NoAction>>, Owner}, {})

\* app/scraping/models.py
ScraperRun ==
  Table({"id", "user_id", "source", "status", "jobs_found", "jobs_new", "jobs_updated",
    "error_message", "targets_attempted", "targets_succeeded", "targets_failed", "tier_0_count",
    "tier_1_count", "tier_2_count", "tier_3_count", "tier_api_count", "started_at", "completed_at",
    "duration_seconds"}, {Owner}, {})

ScrapeTarget ==
  Table({"id", "user_id", "url", "company_name", "company_domain", "source_kind", "ats_vendor",
    "ats_board_token", "start_tier", "max_tier", "priority_class", "schedule_interval_m", "enabled",
    "quarantined", "quarantine_reason", "last_success_at", "last_failure_at", "last_success_tier",
    "last_http_status", "content_hash", "etag", "last_modified", "consecutive_failures",
    "failure_count", "next_scheduled_at", "lca_filings", "industry", "created_at", "updated_at"},
    {Owner}, {})

ScrapeAttempt ==
  Table({"id", "run_id", "target_id", "selected_tier", "actual_tier_used", "scraper_name",
    "parser_name", "status", "http_status", "duration_ms", "retries", "escalations",
    "jobs_extracted", "content_hash_before", "content_hash_after", "content_changed",
    "pages_crawled", "pagination_stopped_reason", "error_class", "error_message", "browser_used",
    "created_at"}, {<<"run_id", "scraper_runs", NoAction>>, <<"target_id", "scrape_targets",
    NoAction>>}, {})

\* app/search_expansion/models.py
QueryTemplate ==
  Table({"id", "user_id", "name", "base_query", "expanded_queries", "strictness", "is_active",
    "created_at", "updated_at"}, {Owner}, {})

ExpansionRule ==
  Table({"id", "user_id", "source_term", "expanded_terms", "rule_type", "is_active", "created_at"},
    {Owner}, {})

QueryPerformance ==
  Table({"id", "user_id", "template_id", "query_text", "jobs_found", "relevant_jobs",
    "executed_at"}, {Owner, <<"template_id", "query_templates", SetNull>>}, {})

\* app/settings/models.py
SavedSearch ==
  Table({"id", "user_id", "name", "filters", "alert_enabled", "last_checked_at", "last_matched_at",
    "last_match_count", "last_error", "created_at"}, {Owner}, {})

UserIntegrationSecret ==
  Table({"id", "user_id", "provider", "auth_type", "secret_value", "secret_json", "account_email",
    "scopes", "last_validated_at", "last_synced_at", "last_error", "created_at", "updated_at"},
    {Owner}, {{"user_id", "provider"}})

\* app/source_health/models.py
SourceRegistry ==
  Table({"id", "source_name", "health_state", "quality_score", "total_jobs_found", "last_check_at",
    "failure_count", "backoff_until", "source_type", "config", "backoff_multiplier", "created_at"},
    {}, {{"source_name"}})

SourceCheckLog ==
  Table({"id", "source_id", "check_type", "check_status", "jobs_found", "error_message",
    "checked_at"}, {<<"source_id", "source_registry", NoAction>>}, {})

Declared ==
  [ml_model_artifacts |-> MLModelArtifact, users |-> User,
   field_mapping_rules |-> FieldMappingRule, application_dedup |-> ApplicationDedup,
   auto_apply_profiles |-> AutoApplyProfile, auto_apply_rules |-> AutoApplyRule,
   auto_apply_runs |-> AutoApplyRun, canonical_jobs |-> CanonicalJob,
   raw_job_sources |-> RawJobSource, companies |-> Company, cover_letters |-> CoverLetter,
   email_logs |-> EmailLog, followup_reminders |-> FollowupReminder,
   interview_sessions |-> InterviewSession, jobs |-> Job, contacts |-> Contact,
   referral_requests |-> ReferralRequest, notifications |-> Notification,
   application_outcomes |-> ApplicationOutcome, company_insights |-> CompanyInsight,
   applications |-> Application, application_status_history |-> ApplicationStatusHistory,
   user_profiles |-> UserProfile, resume_archetypes |-> ResumeArchetype,
   resume_versions |-> ResumeVersion, salary_cache |-> SalaryCache,
   dedup_feedback |-> DedupFeedback, scraper_runs |-> ScraperRun,
   scrape_targets |-> ScrapeTarget, scrape_attempts |-> ScrapeAttempt,
   query_templates |-> QueryTemplate, expansion_rules |-> ExpansionRule,
   query_performance |-> QueryPerformance, saved_searches |-> SavedSearch,
   user_integration_secrets |-> UserIntegrationSecret, source_registry |-> SourceRegistry,
   source_check_log |-> SourceCheckLog]
===================================================================================

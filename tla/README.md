# A verification of JobRadar's backend

JobRadar (`src/backend`) collects job advertisements, scores them for its users,
applies to some of them, and follows the applications through the mails that come
back.  It is a FastAPI application, a scheduler process and three ARQ workers over
PostgreSQL and Redis.  This directory models the parts of it whose correctness
depends on what happens *between* steps: overlapping transactions, retries,
crashes, lost answers, values that are stale when they are used; and the pure
parts (parsers, classifiers, pagination, form filling, migrations) in which a long
legal sequence of steps decides about the outcome.  The models are checked with
TLC on small instances; nearly all of their safety properties are proved with
TLAPS for every value of the constants.

Contents: [the system](#1-the-system) ·
[the modules and the code](#2-the-modules-and-the-code) ·
[the runs](#3-the-runs) · [findings](#4-findings-and-observations) ·
[the proofs](#5-the-proofs) · [what is left out](#6-not-modelled) · [plan](#7-plan)

## 1. The system

### Processes and shared state

    browser ── API process ──┬── PostgreSQL: jobs, applications, history, targets,
                             │               attempts, runs, mail logs, users, ...
    scheduler (APScheduler) ─┤
                             └── Redis: three ARQ queues, job metadata, in-progress keys,
    ARQ workers, one a lane ──┘         worker counters, telemetry stream, alert state
      scraping · analysis · ops
          │
          └── employers' sites, ATS boards, Gmail, language models

The API and the scheduler only *enqueue*; workers run the jobs.  Every process is
one asyncio event loop, so that inside a process a step lasts from one `await` to
the next; between processes nothing but a Redis command or a PostgreSQL commit is
atomic.  The default isolation level is READ COMMITTED and, but for the locks an
UPDATE or DELETE takes by itself, the code takes no row locks, hence a transaction
writes on what it read some time ago.  Sessions are made with
`expire_on_commit=False`, an attribute assigned the value it was loaded with is
left out of the UPDATE, a query flushes what is pending, and a rollback expires
what was loaded: these four facts of SQLAlchemy decide many of the properties
below.

### Components

For each: its state, its operations, what is hard, and what makes it correct.

| Component | State and operations | Hard | Correct when |
|---|---|---|---|
| Job queue lane (`runtime/queue.py`, `job_*.py`, `arq_worker.py`) | Per lane a sorted set, an in-progress key, tries, results, metadata with the user's id; enqueue, pick up, run, retry, count, record, stop, restart | The worker may see a job before its metadata; it dies in a try; a timeout bypasses the wrapper | One run at a time, no try wasted, each attempt counted once, a user's scope kept, every job settled |
| Worker metrics and health (`worker_metrics.py`, `healthcheck.py`) | A Redis hash and ARQ's heartbeat; read-compute-write against `HINCRBY`, comparison of the two records | The write back is not atomic; records of different age | Counts never overstate, losses have known causes, a dead worker is seen |
| Scheduler, telemetry, alerts (`runtime/scheduler.py`, `telemetry.py`, `queue_state.py`, `workers/scheduler.py`) | Health record, ready marker, alert state, table of intervals | A crash between publishing and storing; a failing write; restarts and misfires | No transition is forgotten, the record is renewed, every job is dispatched again and again |
| Auto-apply (`auto_apply/orchestrator.py`, `safety.py`, `lever_adapter.py`) | Runs and applications; select, five checks, submit or fill, record, commit | Other actors submit meanwhile; an answer or a process is lost | What is stored as sent was sent; doubles and limits are bounded by the actors |
| Rules and profiles (`auto_apply/service.py`, `engine.py`) | Rules, profiles and their flags; create, patch, pause, delete | A batch works on rules it loaded earlier | A pause holds for every batch that begins after it |
| Form filling, Greenhouse, generic, Workday (`form_extractor.py`, `field_mapper.py`, `ats_filler.py`, `greenhouse_adapter.py`, `workday_adapter.py`, `workday/`) | The page and the record of one run | Selectors and labels that coincide; pages that turn late | The record tells the user what is filled and what is left |
| Application pipeline (`pipeline/`) | Status, dates, history; create, update, transition | Read and commit of a transition are apart | Dates and history stay truthful |
| Email intake, parser, Gmail sync (`email/`, `workers/gmail_worker.py`) | Mail logs, notifications, `last_error` | Redelivery, two readers, failure after the first commit, a session spoilt by one statement | A mail is handled once per reader and told; what stays on the page is read |
| Google account (`integrations/`, `settings/integration_service.py`, `email/gmail_sync.py`) | One row: secret, address, error | A sync writes back the secret it began with | The mail read is that of the account shown |
| Targets and batches (`scraping/service.py`, `control/`, `workers/scraping_worker.py`) | Counters, learned tier, quarantine, dates; attempts; runs | Overlapping batches; a rollback the caller ignores; a crash between two commits | Counters never overstate, all or nothing, waits are earned, the tier proven |
| Career pages and import (`routes/targets.py`, `routes/career_pages.py`, `control/classifier.py`) | URL, vendor, token, kind, tier of a target | Two requests look for a URL and both insert; overlapping edits | One target a page, scraped as its URL asks |
| Source gate (`scraping/rate_limiter.py`) | Token bucket and breaker of one process | Sleepers, cancellations, several probes | Grants bounded, nobody through an open breaker |
| Page crawler, career-page parser (`execution/page_crawler.py`, `scrapers/adaptive_parser.py`) | URLs visited, postings found | Links that lead back, time-outs | Each page once, no posting lost |
| Deduplication and review (`deduplication.py`, `dedup_feedback.py`) | What each layer has seen; answers about pairs | A layer notes down what a later one drops | The kept stand for all, every doubt comes up |
| Enrichment, embeddings (`enrichment/`) | Columns of a job | Overlapping batches that pay for the same answer, one commit for all | Answers are whole, accounted for, and not bought twice without a cause |
| Saved-search alerts (`settings/alerts.py`) | `last_checked_at`, notifications | Late commits, failed checks, overlaps | A posting is told, or its loss has a cause |
| Daily digest (`workers/digest_worker.py`) | Notifications | One shared transaction | All or nobody |
| Sessions and accounts (`auth/`) | Users, `token_version` | Versions are read, compared and written without a lock | Ended access stays ended |
| Job store and user data (`service_parts/persistence.py`, `admin/service.py`) | Jobs by key and id, what points at them | Locks taken in the order of a batch; erasure beside other requests | Sightings explained, others keep theirs, nobody waits for ever |
| Outcomes and insights (`outcomes/`), interviews (`interview/`), resumes and letters (`resume/`, `copilot/`), salary (`salary/`) | Running sums; lists of answers; flags; a cache | Each reads, waits for a query or a model, and writes back | What is stored is what the rows, the last answers or the last choice say, but for named overlaps |
| Schema and migrations (`*/models.py`, `migrations/`) | The tables; 20 revisions with branches | Databases no test has: stamped, rolled back, with rows | The head is what the models declare |

Without state of their own, or never reached: fetching and browsers, HTTP
middleware, event bus, canonical jobs, source health, reminders, vault,
networking, analytics, search, secrets, frontend (section 6).

### The hazards

`PROJECT.json` lists forty hazards by line, each with the properties that would
catch it going wrong.

## 2. The modules and the code

| Module | Models | Checked in |
|---|---|---|
| `JobLedger` | what a lane promises: bounded attempts, one final verdict (abstract) | `queue_safety` |
| `JobQueue` | one lane: producer, ARQ worker, lifecycle wrapper, enrichment batch; implements `JobLedger` | `queue_safety`, `queue_live` |
| `WorkerMetrics`, `WorkerHealth` | the counters' hash; the health check that compares it with ARQ's heartbeat | `runtime` |
| `SchedulerRuntime` | health loop, queue levels, alert stream, webhook, stored state | `runtime` |
| `Schedule` | the intervals of all jobs, restarts, misfires, how long jobs last | `runtime` |
| `AutoApply` | batches and single applications of one user within an hour | `auto_apply` |
| `Forms` | one browser run on a Greenhouse or generic form | `auto_apply` |
| `Wizard` | one browser run on a Workday wizard | `auto_apply` |
| `ApplyRules` | rules and profiles, edited while batches run | `user_work` |
| `Pipeline` | applications and transitions by concurrent transactions | `user_work`, `intake` |
| `EmailIntake` | webhook and Gmail readers; implements `Pipeline` | `intake` |
| `GoogleAccount` | connections, syncs, refreshed tokens over one row | `user_work` |
| `TargetBatch` | scheduled, triggered and single-target batches over the same rows | `targets` |
| `TargetBook` | imports, career pages, patches and deletions of targets | `targets` |
| `SourceGate` | token bucket, breaker and retries before a source | `targets` |
| `Crawl` | page crawler and career-page parser | `postings` |
| `Deduplication`, `DedupReview` | the four layers of a pass; the questions put to the user | `postings` |
| `Enrichment` | batches and requests that ask the model, and the embeddings | `postings` |
| `SavedSearches`, `Digest` | alerts of saved searches; the daily digest | `postings` |
| `Sessions` | accounts, sessions, token versions | `user_work` |
| `UserData` | stored jobs, what points at them, erasures, with locks and deadlocks | `user_data` |
| `Insights`, `Interviews`, `Resumes`, `SalaryCache` | outcomes and sums; practice sessions; resume versions and letters; cached answers | `user_work` |
| `Schema`, `Migrations` | the models' tables; the revisions and the command that runs them | `migrations` |
| `MC...` | values of the constants for TLC, and the parts of a run; `MCDatabase` holds rows and schema, of which each of its runs moves one | |
| `...Proofs` | theorems and their proofs (section 5) | |

Common conventions.  A step of a model is what happens between two awaits on Redis,
or between two queries or commits; local computation belongs to the step that
follows or precedes it.  Definitions keep the names of the code where they can
(`VALID_TRANSITIONS`, `FULL_FALLBACK_CHAIN`, `classify_queue_alert`).  Variables
marked "history" exist for the properties (and the bounds) only.  Operators
marked "Mutant" are plausible mistakes: for each property there is one the property
refutes, which shows that the property is about the code.  They appear in no
specification.

Components that share no state are checked in one run as *parts*: the MC module
chooses a part in its initial state, and a behaviour is of that part alone.  The
state space is the sum of the parts, not their product.  Components that do interact
are composed in earnest: `EmailIntake` extends `Pipeline`, `WorkerHealth` extends
`WorkerMetrics`, `SchedulerRuntime` runs the queue levels inside the health loop,
`Migrations` compares with `Schema`, `UserData` lets scrapes and erasures lock one
another out.

### The core

**JobQueue.**  One variable for each thing Redis holds (`queue`, `inProgress`,
`meta`, `tries`, `result`), one for the producer's progress, and `run` for where the
worker's coroutine stands: `called` → `working` → `clearing` → `returned` →
`succeeding` on the good path, `raised` → `retrying`, or `exhausting` → `failing`, on
the bad one, `unscoped` for a batch that found no user.

| Action | Code |
|---|---|
| `Enqueue`, `StoreMetadata`, `DispatchFails` | `enqueue_registered_job` and its two awaits |
| `Pickup`, `TriesExceeded` | ARQ's `start_jobs` and `run_job` (external), as configured in `arq_worker.py` |
| `StartWork`, `ScopeMissing`, `ClearAndRaise`, `BodyRaises`, `WorkDone`, `ClearMetadata` | `run_enrichment_batch`, and the bodies in general |
| `ScheduleRetry`, `CountFailure`, `CountExhausted`, `CountCompleted` | `run_with_lifecycle` and its hooks |
| `Escape` | a timeout, or a hook that fails: an exception ARQ sees past the wrapper |
| `FinishRetry`, `FinishJob` | ARQ's `finish_job` (external) |
| `Crash`, `Shutdown`, `Restart`, `ExpireInProgress`, `ExpireMetadata` | the process and the keys' lifetimes |

**WorkerMetrics, WorkerHealth.**  `ReadCounters`, `WriteBack` and `SetExpiry` are the
awaits of `sync_worker_metrics`, `Abandon` an exception between them, `Increment` is
`increment_worker_counter`, `KeyLost` the key's expiry or eviction.  `WorkerHealth`
adds the queue's length, ARQ's heartbeat and their ages, counted in health intervals.

**SchedulerRuntime, Schedule.**  A round takes a snapshot, writes the health key, reads
the stored levels, appends and posts each change, stores, and waits; a fault may come
at each step, and time passes only where the code waits.  `Schedule` counts every
interval down by half-hours, anew after each restart.  A dispatch puts a run into its
queue under a fresh id, whatever is there (`enqueue_registered_job`).  The run is over
when it has worked for the time limits of all its tries and the delays between them;
`HoldUp` lets the jobs of a set wait and `GoOn` work again, at any moment: their worker is
down, or its slots are taken.  Each run lasts as long as its limits let it, the case in
which most runs meet.

**AutoApply.**  Actors are batches (`run_auto_apply_batch`) and single applications
(`apply_to_job`), all of one user.  `pc` walks through the checks in the order of
`SafetyLayer.check_safety`; each is one query, and adds to `failedChecks` instead of
stopping.  `Refuse` and `Proceed` decide.  A Lever posting goes through
`PostAccepted`, `PostRejected` or `PostUnanswered`, a form through `FillSucceeds` or
`FillFails`.  `LookUp` and `CommitSuccess` are `_record_application` and the commit;
`Abort` and `AbortPosting` a failing query, or the end of the process;
`SaveApplication` is the user, who files the application by hand.  `posted` is what
the employer knows, `lost` what of it the database never learns.

**Forms, Wizard.**  What `FillSucceeds` is made of.  A page is a sequence of elements
with the attributes the extractor looks at; labels, selectors, the patterns of the
mapper (`Tier1`) and the words of the filler (`Mappings`) are those of the code, over
a small set of labels.  The wizard is a sequence of pages whose button may turn the
page, turn it late, or submit.

**Pipeline, EmailIntake.**  `held` and `draft` are open transactions: `ReadStatus`
loads and validates, `CommitStatus` writes status, date and history row in one
commit, whatever happened in between; `Abandon` drops it.  A history row keeps, next
to what the code stores, how long the history was when its author read (`seen`) and
the message that caused it (`note`).  `EmailIntake` EXTENDS `Pipeline`: `Deliver`, or
`StartSync` and `Fetch`, then `Check` (duplicate), `MatchNone`, `MatchAndMove` or
`MatchOnly`, `Move`, `Notify`, `File`, as `process_inbound_message` does.  The mailbox is
a sequence, of which `StartSync` lists one `Page`: the code asks for the newest 25 of 30
days and for no more, and `Age` takes the oldest away.  `Fail` and `CommitFails` are a
statement or commit that fails: `sync_gmail_for_user` catches it and goes on without a
rollback, so that its session refuses every later statement and the last commit raises.
From `broken` only `GiveUp` leads on, where the worker notes the error and a user's
request notes none.  `FetchFails` needs no statement; it is counted, and the sync goes on.
`ListingFails` and `Crash` end a sync as well.  `FinishSync` follows SQLAlchemy: if the
value equals the one loaded at the start, nothing is written.  What mails say is computed
by `MCEmailIntake` from the signals they carry, as `email/parser.py` does.

**TargetBatch.**  A run is a scheduled job or an API request.  `SelectScheduled`,
`SelectTriggered` and `SelectManual` are the three ways in, `Plan` is
`TierRouter.route`; `AtTarget`, `StepSucceeds`, `StepFails`, `RobotsDisallow` the loop
over the plan; `CommitBatch` the flush and commit, `FlushRefused` the foreign key that
refuses them, `LoseBatch` any other failure before the commit, `Abort` the rollback
after which `run_target_batch` returns its partial counts, `Report` what
trigger-batch then stores, `Reschedule` the worker's second commit, `Release` the
user's release, `TimePasses` the arrival of a date.  `seen` holds the rows as the
session loaded them, and `SaveMarks` writes only what the session changed.  `checked`
says whether the database enforces foreign keys: PostgreSQL does, the SQLite of the
tests does not, and both are checked.

### The rest

All follow one pattern: a request is `[at, ...]` with the copy it has loaded
(`read`, `loaded`, `held`); one action for each query, answer of a model and commit;
a commit writes the columns that differ from the copy.  The history variables say who
overlapped whom (`raced`, `crossed`, `mixed`, `outdated`, `overlapped`), so that a
property can forgive what an overlap does and nothing else.

- `TargetBook`: `LookItem`/`LookCreate`/`LookEdit` are the lookups by URL, `StoreNew`,
  `StoreEdit`, `StorePatch`, `StoreDelete` the commits, `ClassifyTarget` is
  `classify_target`.  A URL has a page and a spelling, since only career pages are
  normalised.
- `SourceGate`: `acquire` under the bucket's lock with its sleep, `record_success`,
  `record_failure`, the retries and a cancellation at each wait.  A token is counted
  in the ticks it takes.
- `Crawl`: `Extract` is the order of the parser's four strategies, `DetectNext` the
  four ways to the next page, `CrawlPage` one round of the loop.  `CountUp` takes
  `?page=0` and `?page=1` for the first page.
- `Deduplication`: `Keep` and `Drop(layer)` are one round of `deduplicate`, with what
  each layer remembers.  `DedupReview`: `Ask` walks the pairs as
  `get_pending_reviews` does, early end included.
- `Enrichment`: a batch loads, asks for each job, and commits once; `Unusable` is an
  answer that is no JSON, `Fail` the rollback; `EmbedRead`/`EmbedWrite` the embeddings.
- `SavedSearches`: `Stamp`, `Query`, `Commit` of a pass or of a check by the user;
  `Write` and `Store` are the date of a posting and the commit that makes it visible,
  `Change` an update of a column that searches filter on.
- `Digest`: `Generate` for each user in one session, `GenerateFails` leaves that
  session aborted, `CommitDigests` is then a rollback.
- `Sessions`: `register`, `login`, `refresh`, `logout`, `change_password`,
  `delete_account`, each as load and commit; `Accepted` is `get_current_user`.
- `UserData`: `Lookup` flushes what is pending and takes its locks, `Write` stages,
  `EraseNotes`, `EraseJobs`, `EraseTargets`, `EraseUser` are the statements of an
  erasure; `Blockers` are the locks, `Victim` PostgreSQL's deadlock detection
  (external).
- `Insights`, `Interviews`, `Resumes`, `SalaryCache`, `GoogleAccount`, `ApplyRules`: one
  action for each query and commit of the services named in the modules; a choice of
  the default resume loads the version and the list in two (`BeginChoose`, `List`).
- `Schema`: every model's columns, foreign keys with delete rules and unique keys.
  `Migrations`: the operations of each revision's `upgrade()` and `downgrade()`, the
  revision graph, and the command that runs any number of them in one transaction.

## 3. The runs

| Run | Instance | Properties |
|---|---|---|
| `queue_safety` | a plain job and a user's batch with two tries each, two slots, one stop | `RunsKeepLeaseAndScope`, `TriesAreCounted`, `ScopeLossExplained`, `ImplementsLedger` |
| `queue_live` | a one-try job and a scheduled batch with two tries, one slot, two stops | `EveryJobSettles` |
| `auto_apply` | a Lever posting, a form behind its own domain, a batch and a single application, daily limit 3, one lost answer; three forms on nine sites; three wizards | `RecordsHold`, `LimitsHold`, `BrowserRunsAreTold`, `EveryActorEnds` |
| `intake` | one application; a webhook, a recurring sync and a user; an unsure interview mail, also forwarded, and a sure rejection; one failure; or the recurring sync, one a user asks for, mail about no application and two failures; or one sync, three mails, a page of two and one failure | `MailIsAccounted`, `HealthyMeansRead`, `PipelineSpec`, `PageIsRead` |
| `targets` | a board (one step) and a career page (four steps), a scheduled job, a request, one failure, foreign keys checked or not; two callers, a burst of two, a threshold of two; three requests over three pages and two lists | `CountersNeverOverstate`, `BatchIsAtomic`, `SchedulesAreEarned`, `GateHolds`, `TargetsExplained` |
| `scheduled_targets` | the same without failures | `ScheduledBatchesSave` (*violated*) |
| `migrations` | 20 revisions, five branches; rows that can stop one | `HeadIsWhatTheModelsDeclare`, `CommandsArePredictable` |
| `runtime` | two syncers, a hook, a worker that may be down; two queues, two faults of the scheduler; all registered jobs, one crash or lost run time, one wait of up to seven half-hours | `LossesExplained`, `DeathIsSeen`, `AlarmsHold`, `RunsStayApart`, `RuntimeGoesOn` |
| `user_data` | two users, two postings under two keys, two transactions | `SightingsExplained`, `ErasuresAreSound`, `EverySessionEnds` |
| `wiped_others` | the same | `OnlyOwnDataWiped` (*violated*) |
| `user_work` | two or three requests for each of eight parts | `ApplicationsAgree`, `AccountsHold`, `InsightExplained`, `EvaluationsExplained`, `FlagsExplained`, `SalaryExplained`, `AddressMatchesTokens` |
| `postings` | six parts: five kinds of pages, three postings in a batch, four jobs to review, two passes and a check, three users, a batch and a request | `AlertsExplained`, `CrawlIsComplete`, `DuplicatesExplained`, `AllOrNobody`, `EnrichmentExplained` |

**What the properties say.**
`RunsKeepLeaseAndScope`: a job that runs is in the queue, unsettled, under its
in-progress key, on a worker that is up, and a user's id once read is there until the
work is done, but for the causes `ScopeLossExplained` names.  `TriesAreCounted`: a job fails only after `max_tries` attempts really failed,
unless an exception went past the wrapper; no attempt is counted twice or under the
wrong outcome.  `ScopeLossExplained`: a user's batch that was dispatched loses its
metadata, or fails without its work, for a cause only.  The worker may read before the
producer has stored, or fail to read what is there; such a run then deletes whatever it
finds, which may be the scope the producer stored meanwhile (`swept`).  That, the expiry
of the key, and a work done are the only ways the metadata goes; and a batch none of this
befell fails only after as many faults as it has tries.
`RecordsHold`: each accepted submission is a stored success, on its way to be one, or
one of the lost; a success has its Application; a provider the URL names is used only
if something vouched for it.  `LimitsHold`: an employer hears of a job at most once
per concurrent actor, lost answers aside, and the daily limit holds to within the
number of actors.  `BrowserRunsAreTold`: a question left empty is on the review list
and a value the record claims is in a field of that name, but for the places no
adapter looks at; a wizard is never submitted unless its page turned behind the
adapter's back.  `ApplicationsAgree`: dates are set, each history row is a legal
transition from a status the application really had, and what its author overlooked
was the work of others; status and last row agree.  `MailIsAccounted`: one log row and
one move per mail and reader, and a move by mail is logged and told, unless the commit
of the notification failed.  `HealthyMeansRead`: an integration without an error has read
what the last finished sync listed, unless that sync left its outcome out of the row
(`masked`).  `PageIsRead`: a mail on the page is read, or pushed off it before a sync came
to it; a failure, and what it spoils, only delays that.
`CountersNeverOverstate`: `consecutive_failures` ≤ `failure_count` ≤ the runs that
committed a failure.  `BatchIsAtomic`: one committed attempt of a run means whole
climbs for all its targets.  `SchedulesAreEarned`: a target waits only after committed
attempts of a scheduled run, and the learned tier is one that delivered.  `GateHolds`:
never more than the burst and twice the rate; nobody passes an open breaker before
its time.  `TargetsExplained`: a page is a target twice only by overlapping requests
or in two spellings; a class other than the URL's has an import, a patch or an overlap
as its cause; attempts keep their target.  `AlertsExplained`: a posting older than the
last check has been told or a check that was committed could not see it, not within its
limit, or not as a match, and it is told twice only by
overlapping checks.  `CrawlIsComplete`: each page once, every posting found is in the
result once, "no more pages" is true.  `DuplicatesExplained`: what is kept matches
nothing else that is kept, what is dropped is linked to something kept; doubtful pairs
come up.  `EnrichmentExplained`: a row holds one whole answer, an answer paid for is
stored or was lost with its batch, and a job is asked about twice only for a cause.
`AllOrNobody`: a digest run tells all or nobody.  `AccountsHold`: sessions that were
revoked stay revoked but for two overlapping requests; a deleted account is never
accepted; racing registrations lose no account.  `SightingsExplained`,
`ErasuresAreSound`: a count is exact but for overlapping scrapes, or a row erased and
stored again between; an erasure fails
only for a cause, and nobody else's jobs or applications go.  `InsightExplained`,
`EvaluationsExplained`, `FlagsExplained`, `SalaryExplained`, `AddressMatchesTokens`:
what is stored is what the outcomes, the last answers, the last choice or pause, the
model and the last connection said, but for the overlaps named.  `LossesExplained`,
`DeathIsSeen`, `AlarmsHold`, `RunsStayApart`, `RuntimeGoesOn`: counts are lost in two
ways only; a worker gone longer than its heartbeat is not healthy; a stored level has
been published; two runs of a job that are both under way were dispatched its
interval apart, whatever was restarted or lost, and the earlier has waited for longer
than its tries leave of the interval (for the batch that applies to jobs, more than
three hours); the health
record is renewed for ever unless a fault ends the loop, and every job is dispatched again
and again.

**Bounds, and why they are enough.**  The properties relate at most two actors and one
or two rows, so two actors (three where a third can see the traces of both) over one or
two rows give every pairwise interleaving.  `MaxStops`, `MaxFaults`, `MaxTroubles`, `MaxHolds`,
`MaxLosses`, `MaxFailures`, `MaxDeletions` bound failures, not the steps at which they
occur: a failure may come anywhere.  Two tries distinguish the first from the last,
and the run with one try covers a job that is not retried.  `MaxEvents`, `MaxRows`,
`MaxVersion`, `MaxEdits`, `MaxChanges`, `MaxCalls`, `MaxAnswers`, `MaxTokens`, `MaxNotes`,
`MaxScrapes`, `MaxErasures`, `MaxTime` and `Wishes` cut counters that only grow.  With a
daily limit of 3 a run counts itself and may count one more, so that both a form that
is refused and one that slips past the check beside another occur.  `MaxRows` stops
histories of more than three rows: a fork needs two rows on a common predecessor.  The
four-step plan of `targets` has a step that is neither first nor last.  The two
failures of overlapping syncs leave one outcome in the row and give a later sync the
same; their mail is about no application, as no transition touches `last_error`.
`MaxWait` is seven half-hours: two runs of the batch that applies to jobs, whose interval
leaves it six, do meet.
Similarities in `postings` lie on both sides of each threshold.  The theorems of section 5 have none of
these bounds.

**Symmetry** is used in `targets`, `postings` and `user_work`, which have no temporal
property but invariants and the box of an action: it is over interchangeable requests
and ids, never over values the code compares.

**Deadlock** is checked for `auto_apply`, `intake` and `migrations`, where requests and
commands never end.  Elsewhere the instance has finitely many jobs, events and
requests, after which the system rests; in `runtime` the scheduler's loop may be dead.

**Fairness.**  `queue_live`: weak fairness of restart (`restart: unless-stopped` in the
compose files), of pick-up (ARQ polls), of the body and the wrapper (the event loop
runs what is ready; ARQ bounds a body by `timeout_seconds`), and of the expiry of an
in-progress key.  Nothing is assumed of producers: one that stops between enqueueing
and storing the metadata does not keep the job from being settled.  `auto_apply`: weak
fairness of each actor, since every await of a run is bounded by a timeout; batches
are not fair to start.  `intake`: weak fairness of starting a sync (the schedule) and
of its next step; a webhook is not fair, nor a sync a user asks for (`Asked`): nobody
promises that it comes again or goes on.
`runtime`: of the start, the rounds and the passing of time (APScheduler's timers), and of
the end of a wait (a worker restarts, a body in a slot times out).
`user_data`: of the steps of a transaction; PostgreSQL ends a deadlock, which is what
`EverySessionEnds` needs.  Failures are bounded, hence not fair.

## 4. Findings and observations

Two runs TLC refutes, each on a behaviour the code has and a document denies.

1. **Scheduled target batches save nothing on PostgreSQL** (`scheduled_targets`).  The
   worker draws a run id and inserts no run; the attempts' foreign key fails, and with
   it the batch.  `docs/current-state/04-data-and-scraping.md:27` says batches persist
   what they found; the tests run without foreign keys.
2. **Clearing one user's data can delete another's referral request**
   (`wiped_others`), which hangs on a job of the first by a cascading key, though a
   test is named `..._only_wipes_current_user_data`.

Observations met while modelling, kept in the models, but with no document that says
otherwise or not the subject of a run:

*Queue and runtime.*
- The scheduler enqueues `enrichment_batch` without a `user_id` and the worker raises
  without one: every scheduled enrichment fails all its tries.
- A timeout cancels the lifecycle wrapper, so a job that times out is neither retried
  nor counted.  If the counter of a retry cannot be written, the `Retry` is never
  raised and the job ends with tries to spare.
- A user's batch that is picked up before its metadata is stored fails that try.
- Counters lose increments to overlapping syncs.  An idle worker can be reported
  unhealthy, since the depths compared are of different age.

*Auto-apply.*
- A submitted run is stored as `success`, the limits count `filled`, `submitted` and
  `running`: Lever submissions count towards no limit.  `_check_daily_limit` counts the
  run at hand, so a limit of N allows N - 1.
- A Lever answer that is lost is stored as a failed run, and the job may be applied to
  again; two actors may apply twice.
- Two active profiles make `trigger_run` and `apply_single` fail (`scalar_one_or_none`)
  while the worker's batch takes any of them.  `rule.profile_id` is never consulted by
  `run_batch`.  A rule any run names cannot be deleted on PostgreSQL.  A pause does not
  stop a batch under way, and fails altogether if a rule is deleted meanwhile; a rule
  deleted under a batch ends the batch at its next run.
- Greenhouse runs never attach a resume and say nothing of file fields; city and
  location are never in the payload, so always missed.  The generic filler puts the
  full name into "First name" and records checkboxes as filled that it leaves
  unticked.  The answer field of question 0 may receive the cover letter.  The "Apply"
  button of a one-page form is pressed before anything is filled, which may send it,
  and the run says "filled".  A radio group with a value, or an `iframe[src]` prefix,
  fails the run; a failed extraction leaves no review item.
- Workday: `page.evaluate` returns DOM nodes by value, so the probe for the submit
  button and the shadow fallback get nothing usable; keys a later page does not ask for
  are reported as missed; a page that turns late, between reading and pressing the
  button, can be submitted.

*Pipeline and mail.*
- Two transitions that read `offer` may commit `accepted` and then another status over
  it.  `get_history` orders by `changed_at`, the start of a transaction: overlapping
  ones may be listed in another order than they were committed.
- A sync that ends with the `last_error` it loaded writes nothing, though an overlapping
  clean sync has set the column to NULL meanwhile: a partial sync looks healthy.  This is
  the only way (`HealthyMeansRead`): the history variable `masked` marks exactly it.
- Mail that 25 newer ones push off the page between two syncs, or that grows older than
  30 days, is never read, and nothing says so.  One failed statement costs a sync the rest
  of its page; where a user asked for the sync, `last_error` does not tell.
- A sender at a subdomain of a provider is taken for a company; offer patterns win over
  rejection patterns; a rejection is never read with less than 0.85; a date without a
  year is of 2026.

*Scraping.*
- `trigger-batch` stores its run as `completed` with the counts of a batch that was
  rolled back, `trigger_target` leaves its run `running` for good.  A success does not
  reset `consecutive_failures` if the session had loaded 0, though another batch has
  raised it.  One target whose jobs cannot be stored aborts the whole batch.
- An import only strips URLs while career pages are normalised by `AnyHttpUrl`: one page
  in two spellings becomes two targets.  A PATCH of `priority_class` leaves the interval
  of the old class.  A career page whose URL becomes an ATS board leaves `/career-pages`
  and can no longer be edited or deleted there.  A vendor given with an import may come
  with the kind `career_page` and no token.
- A docstring of `page_crawler.py` (344) says `?page=2` is tried where no page parameter
  is there; the code returns None.  A docstring of `dedup_feedback.py` says pairs of
  0.4 to 0.8 are reviewed, the code takes 0.3 to 0.85; a second answer about a pair makes
  `lookup_pair` raise.

*What users read.*
- A digest run logs the count of the digests it has just rolled back.
- An alert looks for postings created since the last check: one that matches only later,
  when the enrichment fills in its level or the user stars it, is never told.  The filter
  `min_match_score` matches nothing: no code under `backend/app` writes `match_score`.
- Every dispatch has an id of its own, and no batch asks whether another of its kind is
  under way: after a wait two runs of a job may work at once.
- `embed_jobs_batch` says it takes jobs without an embedding and takes any first
  hundred.  One value the database refuses, or one job deleted meanwhile, loses a whole
  enrichment batch, which is paid for again.  `run_tfidf_scoring` uses the first profile
  for the jobs of all users.  A job that is scraped again is never enriched again.
- A salary answer of another shape is committed to the cache before it is looked at, so
  that every research for it fails for 24 hours.
- Admin `reindex` and `import_data` report "complete" and do nothing.

## 5. The proofs

Checked by tlapm to the last leaf, for every value of the constants.  All the
invariants that the runs check are theorems; so are the refinements `ImplementsLedger` and
`PipelineSpec`, and the action properties `AlarmsHold`, `GateHolds`,
`ErasuresAreSound` and `CommandsArePredictable`: all that the passing runs check but liveness.

| Module | About | Inductive invariants | States of the runs |
|---|---|---|---|
| `JobQueueProofs` | `JobQueue` | `IInv` (`JobInv` for each job), `CInv` | `RunsKeepLeaseAndScope`, `TriesAreCounted`, `ScopeLossExplained`, `ImplementsLedger` |
| `RuntimeProofs` | `WorkerMetrics`, `WorkerHealth`, `SchedulerRuntime`, `Schedule` | `IInv`, `BeatFades`, `RoundInv`, `TableInv` | `LossesExplained`, `DeathIsSeen`, `AlarmsHold`, `RunsStayApart` |
| `AutoApplyProofs` | `AutoApply`, `Forms`, `Wizard` | `DailyInv`, `RecordInv`, `DupInv`, `ProviderInv`; `FormsInv`, `WizardInv` | `RecordsHold`, `LimitsHold`, `BrowserRunsAreTold` |
| `EmailIntakeProofs` | `Pipeline`, `EmailIntake` | `PipelineInv`, `IntakeInv`, `ReadInv` (`SyncInv` for each sync) | `ApplicationsAgree`, `PipelineSpec`, `MailIsAccounted`, `HealthyMeansRead` |
| `TargetsProofs` | `TargetBatch`, `SourceGate`, `TargetBook` | `RunsInv`, `CountInv`, `GateInv`, `BookInv` | `CountersNeverOverstate`, `BatchIsAtomic`, `SchedulesAreEarned`, `GateHolds`, `TargetsExplained` |
| `PostingsProofs` | `SavedSearches`, `Digest`, `Deduplication`, `DedupReview`, `Enrichment`, `Crawl` | `AlertInv`, `DigestInv`, `DedupInv`, `ReviewInv`, `EnrichmentInv`, `CrawlInv` | `AlertsExplained`, `AllOrNobody`, `DuplicatesExplained`, `EnrichmentExplained`, `CrawlIsComplete` |
| `DatabaseProofs` | `UserData`, `Migrations` | `DataInv`; `Migrated`, `Predictable` | `SightingsExplained`, `ErasuresAreSound`, `HeadIsWhatTheModelsDeclare`, `CommandsArePredictable` |
| `UserWorkProofs` | `Sessions`, `SalaryCache`, `GoogleAccount`, `Resumes`, `ApplyRules`, `Interviews`, `Insights` | `IInv`, `SalaryInv`, `GoogleInv`, `ShelfInv`, `RulesInv`, `InterviewInv`, `InsightInv` | `AccountsHold`, `SalaryExplained`, `AddressMatchesTokens`, `FlagsExplained`, `EvaluationsExplained`, `InsightExplained` |

Where a run has several parts, a last theorem (`OverlapsAreNamed`,
`LossesOnTheWayAreNamed`, `TargetsHold`, `RuntimeHolds`, `BrowserRunsAreAlwaysTold`,
`DatabaseHolds`) rests on a lemma that says the composed behaviour is, of each part, a behaviour of
that part's own specification, and carries the theorems over to what TLC runs.

**Assumed** are only named facts about constants, which TLC evaluates on the
instances: actors, runs, targets, queues, versions and jobs are finite where
cardinalities are compared or sequences are made of them; `MaxTries`, batch sizes,
page limits, thresholds, intervals are positive, tiers from 1 to 3, the remaining
bounds and lifetimes natural numbers; kinds of requests are disjoint; dummies (`NoJob`,
`NoApp`, `NoHand`, `NoVersion`, `Nobody`, ...) are no elements.  Of the shapes of data:
a batch and a form are sequences (`Found`, `FormsAssumption`), `extract()` returns a list
of what it found and links are URLs (`CrawlAssumption`), a distance of texts is
symmetric (`DistanceAssumption`), likenesses are percents (`ReviewAssumption`), outcomes
and scores are numbers or missing (`FactsAreFacts`, `ScoresAreScores`), the applications of
a company are finite and `Grain`, the unit of a mean, is a multiple of every number of them
(so that a mean has no rest, as the code's floats have none to speak of), ids of fixed fields
and of cover letters differ (`FormsAssumption`).

The arguments, and why each invariant is needed:

**The queue.**  `JobInv` does not mention the other jobs, so that a step need only be
examined for its own: `Lease` (a run has its key and a try number in range), `Quiet`
(what is not enqueued has no state), `Decision` (a run that retries has tries left, one
that fails has none), `Tries` (faults add up to tries), `Scope` (work begun and metadata stored
both say that the producer was done), `Fate` (metadata gone, or not found by a run, has a
cause) and `Owed` (the tries of a batch that lost nothing add up as well).  `NoTryWasted`
and `ScopeLossExplained` are not inductive without `Decision`, `Tries` and `Owed`: the
verdict is recorded steps after it was decided, and a crash may come in between.  `CountInv` adds
that a try in progress is uncounted, which makes `CountersTruthful` inductive.
`LaneImplementsLedger` maps every step to a step of `JobLedger` or a stutter.

**Runtime.**  `Bounded`: not only the hash but every copy a syncer holds is at most
`happened`; `Fresh`: as long as nothing disturbed the counters, a copy nobody overtook
is what the hash holds.  `BeatFades`: what the heartbeat has left and how long the worker
has been gone never exceed the lifetime together.  `RoundInv` follows a health round:
what has changed since the stored state is told or still ahead in the list
(`ChangesTold`), and the time of the round is charged to the health key (`KeyLasts`).
`TableInv`: the age of any run that is not over and the time to the next make up an
interval, since a restart begins it anew; so a run is dispatched an interval after any
other.  One whose work is not done (`TriesFit` computes how much each job has) has
waited for the rest of its age.  Waits are arbitrary: any set of jobs, any length.

**Auto-apply.**  A common lemma, `ActorMoves`, says a step moves one actor, one place.
`DailyInv` counts with the filled forms the actors that passed the daily check and may
still fill one; `DupInv` does the same for the duplicate check.  `RecordInv`: an actor
that found an Application still finds it at its commit.  `ProviderInv`: an actor past
the check of the provider was vouched for.  `FormsInv` and `WizardInv` keep an account of
every field while the browser run goes on: it is filled, missed, under review,
overlooked, or *still to come*; and each claim of the record has a source on the page
that later fills leave alone.

**Pipeline and mail.**  `DraftsAreTrue`: an open transaction holds a legal transition from
what the status was when the history had `seen` rows, all rows since are by others, and
the dates of that status are still set.  It is what makes a late commit add a truthful
row even over a status it never saw.  `IntakeIsPipeline` is the refinement: every step of
the intake is a step of `Pipeline` or leaves its variables alone, hence the theorems on
`Pipeline` hold of the intake.  `IntakeInv` ties each reader's place to its transaction
and to the log (`ReaderInv`), and each history row made by mail to the log, the
notification and the parser's verdict (`MailRow`).  `HealthyIntegrationsHaveRead` holds for
any number of overlapping syncs: `SyncInv` says of each that, unless it has counted a
failure or is broken, every message it listed is ahead, in hand or logged, whatever the
others do; so a sync that ends with the outcome `NoError`, written or left out over the
same value, has read its listing.  `HealthyWhenAlone` adds that nothing is ever masked
where syncs do not overlap: the value loaded at the start is then the value in the row.

**Targets.**  `RunsInv` says of each run what its uncommitted attempts are: failures at the
steps before the one at hand, or the whole climb that its mark sums up, and that after
the commit the whole climbs are in the table; `BatchIsAtomic`, `WaitsAreEarned` and
`StartIsProven` follow, since attempts are never removed.  `CountInv`: every copy of a
counter in a session is at most the number of failed runs.  `Credit` accounts for the
double counting of a sleeper's time: what was taken and what the bucket holds never
exceed the burst, the time and the time of the last filling; a sleeper alone holds the
lock (`OneSleeper`) and must make up the missing token first (`SleeperCredit`).
`BookInv`: a request that has looked a URL up and found none still has its excuse if one
is stored since (`FreeSince`), and a row it has read is what it was unless its change is
later.

**Postings.**  `AlertInv`: every date a worker holds, of a search or of its own staged
entry, *accounts* for all older postings (`DateHolds`, `EntryHolds`), not only the stored
one, whether or not they match the search now.  `DigestInv`: what is reported is staged and there is one commit.  `DedupInv`: a kept
posting is in what every layer has seen, whatever a later layer dropped.  `ReviewInv`
rests on lemmas about the window of least certain pairs.  `EnrichmentInv`: what a process
has loaded is still in the row or was spent, and only excused jobs have two processes.
`CrawlInv`: visited pages are counted once, what was read is in the result, and nothing
was skipped as long as there was no error; that the result has no doubles rests on
lemmas about the order in which first occurrences are kept.

**User data.**  `DataInv` says what each open transaction has written and not committed
(`Written`, `Erased`), what is left of a user who does nothing else (`Alone`), and that
locks keep two transactions off the same row (`Locks`).

**Migrations.**  `Migrated`: the committed database *holds* the committed revisions, and the
one inside the command's transaction the revisions applied there.  A database holds a set
of revisions if the set is closed under parents, every table is as the models declare it up to
what some later revision adds (`Grounded`), and whatever a revision of the set that is not a
branch has built is in place (`InPlace`).  The branches are left out because they may be
stamped and not executed; revision 005 ensures what they build.  An upgrade builds without
undoing (`GentleSpares`); a downgrade undoes, but by its place in the graph nothing of an
earlier revision (`Downgrades`, `OnlyEarlier`).  The lemmas about one operation are carried to a
revision's list of operations by induction on its length (`PerformAllRuns`, `Sequences`).
That commands are predictable needs the other side, what is *not* there: in a database that is
`Open` for a set of revisions, nothing of what the remaining ones are to create or add exists,
nothing points to the career pages, and these exist from revision 002 to the one that moves them.
Then a due upgrade finds what it needs (`StandingExists`, `UpgradesOrdered`), collides with
nothing, not even within its own list, and succeeds (`UpgradeSucceeds`).  `Open` is kept since no
two upgrades make the same thing, 005 and the branches apart (`UpgradesApart`), and since a
downgrade that succeeds takes all away that its upgrade has made (`DowngradesTake`).  The
second half says why there is no way back: a database is `Gone` once 005 is undone, as its
downgrade drops what the branches have made (`BranchesTaken`), so that the first operation of a
branch's downgrade fails (`BranchesDrop`); upgrades bring nothing of it back but 005 itself.
The library's induction theorems take an operator and cannot be instantiated;
`Induction` states induction of a set and follows from the library's least-element theorem.

**What users change.**  In each part the invariant says what a request in progress still
knows of the row it has read, and the history variable of the property is exactly what it
no longer knows: `VersionsAreOrdered` (no session is ahead of its row), `AsksAfterExpiry`,
`RefreshesStay`, `RequestsKnow`, `PauseSeesAll` and `BatchesKnowTheirRules`, `ListsAreLast`
with `OneEach` for all copies of a session, `InsertedAlone` and `Within` for all readings
of an insight.  A mean that has been kept is that of the outcomes (`MeansFit`): the sum of a
figure is a number of units (`Given`), to which one more outcome adds its value
(`OneMoreGiven`), and a mean that has no rest gives the next one (`NextMean`).

**What proving changed.**  Three definitions were wrong in a way the instances did not
show, and were corrected against the source: `SightingsExplained` has to allow a row that
was erased and stored again; an erasure waits for rows that another erasure's notes
point at; a cover letter put in a field the adapter does not set aside is overwritten by
the question of the same field (`Rewritten`).  The scheduler's round now walks through
the list of levels in its order, and first occurrences (`NoTwice`), the entries of a list
without one question (`At`), an insight's columns, the sum behind its mean (`Units`) and
the waits between the tries of a job (`Waited`) are written without folds, so that they
can be reasoned about.  `HealthyMeansRead` was false for syncs that overlap; the history
variable `masked` now names the one way.

**Only model-checked:**
- Liveness and fairness (`EveryJobSettles`, `EveryActorEnds`, `PageIsRead`,
  `RuntimeGoesOn`, `EverySessionEnds`), which are out of the prover's reach.

## 6. Not modelled

Within the modelled components: the wording and scoring in parsing, matching and
prioritising (a free choice, or a choice of constants, of their outcome); retry delays
and backoff times, of which only the order matters; which targets of those due are
selected, as the score is a free choice here; the clock of `AutoApply`, which lies
within one hour of one day, so that limits do not reset; page caches; names, locations
and texts.  In `EmailIntake` one integration is modelled.

Components `PROJECT.json` lists as not modelled, and why:

- **Canonical jobs, source health, follow-up reminders, staleness sweeps.**  No code of
  the application creates their rows, so their workers find nothing; their tables are
  in `Schema`.
- **Event bus.**  Nobody publishes on it.  Nor has anybody a call for the writers of form
  learning, `validator.py`, `question_engine.py`, the target registry and
  `RateLimiter.with_retry`.
- **HTTP middleware.**  The API rate limiter is a locked sliding window of one process;
  CSRF and headers are stateless.
- **Browser pool, scrapers, fetching.**  A pool is made for each batch and used one slot
  at a time; the rest is network and HTML, a free choice of outcome in `TargetBatch` and
  `SourceGate`.
- **Search, TF-IDF, reports, statistics.**  Queries and libraries whose result nobody
  writes from.
- **Secrets, audit, errors, logging, frontend, scripts.**  Output, encryption, a client.

## 7. Plan

Done: every component of section 1's table has a module, a run and a proof.  What would come next, in this order:

1. `run_scrape` with its page caches, composed with `SourceGate` and `Deduplication`.
2. A second integration in `EmailIntake`, and the deletion of applications in `Pipeline`.

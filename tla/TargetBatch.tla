----------------------------- MODULE TargetBatch -----------------------------
(***************************************************************************)
(* Batches of scrape targets (ScrapingService.run_target_batch).  A batch   *)
(* loads its targets, tries on each one tier after the other until one      *)
(* yields jobs, and commits everything at its end: the jobs, the attempts   *)
(* and what it learned of the targets.  The scheduler's job then writes the *)
(* targets' next dates in a second commit.  Batches overlap: two schedules, *)
(* the API's trigger-batch, and a trigger for a single target all work on   *)
(* the same rows without a lock.                                            *)
(***************************************************************************)
EXTENDS Naturals, Sequences, FiniteSets

CONSTANTS
  Targets,
  NoTarget,   \* a batch that is between two targets
  Jobs,       \* runs of the worker job, under a run id that has no row
  Requests,   \* runs of POST /trigger-batch and POST /targets/{id}/trigger
  Ats,        \* the targets with a vendor of tier 0
  StartTier,  \* start_tier of the others
  MaxTier,    \* and their max_tier
  BatchSize,
  MaxFaults   \* bound: writes and processes that fail

Runs == Jobs \cup Requests
Tiers == 0..3

ASSUME TargetsAssumption ==
  IsFiniteSet(Targets) /\ NoTarget \notin Targets /\ Ats \subseteq Targets
ASSUME RunsAssumption == IsFiniteSet(Runs) /\ Jobs \cap Requests = {}
ASSUME TiersAssumption ==
  StartTier \in [Targets -> 1..3] /\ MaxTier \in [Targets -> 1..3]
ASSUME BoundsAssumption == BatchSize \in Nat \ {0} /\ MaxFaults \in Nat

VARIABLES
  checked,      \* whether the database checks foreign keys: PostgreSQL does, SQLite not
  failures,     \* committed consecutive_failures of each target
  failureCount, \* committed failure_count
  lastTier,     \* committed last_success_tier, 0 if none
  wait,         \* intervals to next_scheduled_at, 0 once the target is due
  attempts,     \* committed ScrapeAttempt rows
  runRow,       \* the ScraperRun row of each run, or "none"
  reported,     \* targets_succeeded of the run rows
  reports,      \* the runs of trigger-batch, which complete their row
  pc,           \* where each run stands
  batch,        \* its targets
  seen,         \* the rows of the targets as its session has loaded them
  mark,         \* what it found out about each target
  hand,         \* the target in hand
  step,         \* the step of the plan it is at
  pending,      \* its attempts that are not committed
  faults        \* failures so far

rowVars == <<failures, failureCount, lastTier, wait>>
runVars == <<runRow, reported, reports>>
workVars == <<batch, seen, mark, hand, step, pending>>
vars == <<checked, rowVars, attempts, runVars, pc, workVars, faults>>

Attempts == [run : Runs, target : Targets, step : Nat \ {0}, tier : Tiers,
             status : {"success", "failed", "blocked"}]
Marks == [result : {"none", "success", "failed"}, tier : Tiers]
Unmarked == [result |-> "none", tier |-> 0]
Views == [failures : Nat, failureCount : Nat, lastTier : Tiers]
Waits == {0, 1, 2, 4, 8}

TypeOK ==
  /\ checked \in BOOLEAN
  /\ failures \in [Targets -> Nat]
  /\ failureCount \in [Targets -> Nat]
  /\ lastTier \in [Targets -> Tiers]
  /\ wait \in [Targets -> Waits]
  /\ attempts \subseteq Attempts
  /\ runRow \in [Runs -> {"none", "running", "completed"}]
  /\ reported \in [Runs -> Nat]
  /\ reports \subseteq Requests
  /\ pc \in [Runs -> {"idle", "scrape", "report", "reschedule", "done"}]
  /\ batch \in [Runs -> SUBSET Targets]
  /\ seen \in [Runs -> [Targets -> Views]]
  /\ mark \in [Runs -> [Targets -> Marks]]
  /\ hand \in [Runs -> Targets \cup {NoTarget}]
  /\ step \in [Runs -> Nat]
  /\ pending \in [Runs -> SUBSET Attempts]
  /\ faults \in Nat

View == [t \in Targets |-> [failures |-> failures[t], failureCount |-> failureCount[t],
                            lastTier |-> lastTier[t]]]

Init ==
  /\ checked \in BOOLEAN
  /\ failures = [t \in Targets |-> 0]
  /\ failureCount = [t \in Targets |-> 0]
  /\ lastTier = [t \in Targets |-> 0]
  /\ wait = [t \in Targets |-> 0]
  /\ attempts = {}
  /\ runRow = [r \in Runs |-> "none"]
  /\ reported = [r \in Runs |-> 0]
  /\ reports = {}
  /\ pc = [r \in Runs |-> "idle"]
  /\ batch = [r \in Runs |-> {}]
  /\ seen = [r \in Runs |-> View]
  /\ mark = [r \in Runs |-> [t \in Targets |-> Unmarked]]
  /\ hand = [r \in Runs |-> NoTarget]
  /\ step = [r \in Runs |-> 1]
  /\ pending = [r \in Runs |-> {}]
  /\ faults = 0

Goto(r, there) == pc' = [pc EXCEPT ![r] = there]

-----------------------------------------------------------------------------
(***************************************************************************)
(* Which targets, and which steps (select_due_targets, TierRouter.route).   *)
(***************************************************************************)
\* The tiers of the fetchers and browsers in the order they are tried.
FULL_FALLBACK_CHAIN == <<1, 1, 2, 2, 3, 3>>

\* The steps of the chain from the start tier to the last one allowed; where
\* the start is past the end, the first step of all.
Route(t, last) ==
  LET start == IF last # 0 THEN last ELSE StartTier[t] IN
  CASE t \in Ats -> <<0>>
    [] t \notin Ats /\ start <= MaxTier[t]
         -> SubSeq(FULL_FALLBACK_CHAIN, 2 * start - 1, 2 * MaxTier[t])
    [] OTHER -> <<1>>

Plan(r, t) == Route(t, seen[r][t].lastTier)

\* As many of the due targets as the batch holds.  Their order follows a score
\* of priority, age and failures, which is left open.
IsDueBatch(B) ==
  LET due == {t \in Targets : wait[t] = 0} IN
  /\ B \subseteq due
  /\ \/ Cardinality(B) = BatchSize
     \/ B = due /\ Cardinality(B) < BatchSize

Load(r, B) ==
  /\ pc[r] = "idle"
  /\ batch' = [batch EXCEPT ![r] = B]
  /\ seen' = [seen EXCEPT ![r] = View]
  /\ UNCHANGED <<checked, rowVars, attempts, mark, hand, step, pending, faults>>

\* Without a due target the job returns at once.
SelectScheduled(r, B) ==
  /\ r \in Jobs
  /\ IsDueBatch(B) /\ B # {}
  /\ Load(r, B)
  /\ Goto(r, "scrape")
  /\ UNCHANGED runVars

SelectTriggered(r, B) ==
  /\ r \in Requests
  /\ IsDueBatch(B)
  /\ Load(r, B)
  /\ runRow' = [runRow EXCEPT ![r] = IF B = {} THEN "completed" ELSE "running"]
  /\ reports' = reports \cup {r}
  /\ Goto(r, IF B = {} THEN "done" ELSE "scrape")
  /\ UNCHANGED reported

\* Due or not, and disabled or not.
SelectManual(r, t) ==
  /\ r \in Requests
  /\ Load(r, {t})
  /\ runRow' = [runRow EXCEPT ![r] = "running"]
  /\ Goto(r, "scrape")
  /\ UNCHANGED <<reported, reports>>

-----------------------------------------------------------------------------
(***************************************************************************)
(* process_target: the steps of the plan, one after the other.              *)
(***************************************************************************)
AtTarget(r, t) ==
  /\ pc[r] = "scrape"
  /\ t \in batch[r]
  /\ mark[r][t].result = "none"
  /\ hand[r] \in {NoTarget, t}

AddAttempt(r, t, status) ==
  pending' = [pending EXCEPT ![r] = @ \cup
    {[run |-> r, target |-> t, step |-> step[r], tier |-> Plan(r, t)[step[r]],
      status |-> status]}]

Conclude(r, t, m) ==
  /\ mark' = [mark EXCEPT ![r][t] = m]
  /\ hand' = [hand EXCEPT ![r] = NoTarget]
  /\ step' = [step EXCEPT ![r] = 1]

\* Mutant: the last tier of the plan is learned, not the one that delivered.
StepSucceeds_planned(r, t) ==
  /\ AtTarget(r, t)
  /\ AddAttempt(r, t, "success")
  /\ Conclude(r, t, [result |-> "success", tier |-> Plan(r, t)[Len(Plan(r, t))]])
  /\ UNCHANGED <<checked, rowVars, attempts, runVars, pc, batch, seen, faults>>
\* Jobs are found and flushed, or the page is unchanged (_mark_target_success).
StepSucceeds(r, t) ==
  /\ AtTarget(r, t)
  /\ AddAttempt(r, t, "success")
  /\ Conclude(r, t, [result |-> "success", tier |-> Plan(r, t)[step[r]]])
  /\ UNCHANGED <<checked, rowVars, attempts, runVars, pc, batch, seen, faults>>

\* An HTTP error, a timeout, an exception, or a page without jobs: the next
\* step, and after the last one the target has failed (_mark_target_failure).
StepFails(r, t) ==
  /\ AtTarget(r, t)
  /\ AddAttempt(r, t, "failed")
  /\ IF step[r] = Len(Plan(r, t))
     THEN Conclude(r, t, [result |-> "failed", tier |-> 0])
     ELSE /\ hand' = [hand EXCEPT ![r] = t]
          /\ step' = [step EXCEPT ![r] = @ + 1]
          /\ UNCHANGED mark
  /\ UNCHANGED <<checked, rowVars, attempts, runVars, pc, batch, seen, faults>>

\* robots.txt is consulted before the first step, except for tier 0.
RobotsDisallow(r, t) ==
  /\ AtTarget(r, t)
  /\ hand[r] = NoTarget
  /\ t \notin Ats
  /\ AddAttempt(r, t, "blocked")
  /\ Conclude(r, t, [result |-> "failed", tier |-> 0])
  /\ UNCHANGED <<checked, rowVars, attempts, runVars, pc, batch, seen, faults>>

-----------------------------------------------------------------------------
(***************************************************************************)
(* The end of a batch.                                                      *)
(***************************************************************************)
Marked(r) == pc[r] = "scrape" /\ \A t \in batch[r] : mark[r][t].result # "none"
Found(r, result) == {t \in batch[r] : mark[r][t].result = result}
AfterCommit(r) ==
  CASE r \in Jobs -> "reschedule"
    [] r \in reports -> "report"
    [] OTHER -> "done"

(***************************************************************************)
(* Only attributes that differ from what was loaded are part of the UPDATE: *)
(* a success resets a count the session has seen as zero by not writing it. *)
(***************************************************************************)
SaveMarks(r) ==
  /\ failures' = [t \in Targets |->
       CASE t \in Found(r, "failed") -> seen[r][t].failures + 1
         [] t \in Found(r, "success") /\ seen[r][t].failures # 0 -> 0
         [] OTHER -> failures[t]]
  /\ failureCount' = [t \in Targets |->
       IF t \in Found(r, "failed") THEN seen[r][t].failureCount + 1 ELSE failureCount[t]]
  /\ lastTier' = [t \in Targets |->
       IF t \in Found(r, "success") /\ mark[r][t].tier # seen[r][t].lastTier
       THEN mark[r][t].tier ELSE lastTier[t]]
SaveAttempts(r) == attempts' = attempts \cup pending[r]

CommitBatch(r) ==
  /\ Marked(r)
  /\ checked => runRow[r] # "none"
  /\ SaveMarks(r)
  /\ SaveAttempts(r)
  /\ pending' = [pending EXCEPT ![r] = {}]
  /\ Goto(r, AfterCommit(r))
  /\ UNCHANGED <<checked, wait, runVars, batch, seen, mark, hand, step, faults>>

\* scrape_attempts.run_id refers to no row: the commit, or an earlier flush of
\* the attempts, fails, and with it the batch.
FlushRefused(r) ==
  /\ pc[r] = "scrape"
  /\ pending[r] # {}
  /\ checked /\ runRow[r] = "none"
  /\ pending' = [pending EXCEPT ![r] = {}]
  /\ hand' = [hand EXCEPT ![r] = NoTarget]
  /\ step' = [step EXCEPT ![r] = 1]
  /\ Goto(r, "done")
  /\ UNCHANGED <<checked, rowVars, attempts, runVars, batch, seen, mark, faults>>

LoseBatch(r) ==
  /\ faults < MaxFaults
  /\ faults' = faults + 1
  /\ pending' = [pending EXCEPT ![r] = {}]
  /\ hand' = [hand EXCEPT ![r] = NoTarget]
  /\ step' = [step EXCEPT ![r] = 1]
  /\ UNCHANGED <<checked, wait, runVars, batch, seen, mark>>

\* Mutant: the marks of a batch that is rolled back stay.
Abort_counting(r) ==
  /\ pc[r] = "scrape" /\ ~Marked(r)
  /\ LoseBatch(r)
  /\ SaveMarks(r)
  /\ Goto(r, "done")
  /\ UNCHANGED attempts
\* Mutant: everything stays.
Abort_partial(r) ==
  /\ pc[r] = "scrape" /\ ~Marked(r)
  /\ LoseBatch(r)
  /\ SaveMarks(r)
  /\ SaveAttempts(r)
  /\ Goto(r, "done")

(***************************************************************************)
(* The jobs cannot be flushed, or the code raises: everything is rolled     *)
(* back and the session's objects are expired, so that nothing more can be  *)
(* read from them.  trigger-batch still reports the results it was given.   *)
(***************************************************************************)
Abort(r) ==
  /\ pc[r] = "scrape" /\ ~Marked(r)
  /\ LoseBatch(r)
  /\ Goto(r, IF r \in reports THEN "report" ELSE "done")
  /\ UNCHANGED <<failures, failureCount, lastTier, attempts>>

\* The process dies, the job times out, or a commit fails.
Die(r) ==
  /\ pc[r] \in {"scrape", "report", "reschedule"}
  /\ LoseBatch(r)
  /\ Goto(r, "done")
  /\ UNCHANGED <<failures, failureCount, lastTier, attempts>>

Report(r) ==
  /\ pc[r] = "report"
  /\ runRow' = [runRow EXCEPT ![r] = "completed"]
  /\ reported' = [reported EXCEPT ![r] = Cardinality(Found(r, "success"))]
  /\ Goto(r, "done")
  /\ UNCHANGED <<checked, rowVars, attempts, reports, workVars, faults>>

\* compute_next_run, on the counts the session has in memory.
Backoff(n) == IF n >= 3 THEN 8 ELSE 2^n
Reschedule(r) ==
  /\ pc[r] = "reschedule"
  /\ wait' = [t \in Targets |->
       CASE t \in Found(r, "success") -> 1
         [] t \in Found(r, "failed") -> Backoff(seen[r][t].failures + 1)
         [] OTHER -> wait[t]]
  /\ Goto(r, "done")
  /\ UNCHANGED <<checked, failures, failureCount, lastTier, attempts, runVars, workVars, faults>>

-----------------------------------------------------------------------------
\* POST /targets/{id}/release, its read and commit in one step.
Release(t) ==
  /\ failures' = [failures EXCEPT ![t] = 0]
  /\ wait' = [wait EXCEPT ![t] = 0]
  /\ UNCHANGED <<checked, failureCount, lastTier, attempts, runVars, pc, workVars, faults>>

TimePasses(t) ==
  /\ wait[t] # 0
  /\ wait' = [wait EXCEPT ![t] = 0]
  /\ UNCHANGED <<checked, failures, failureCount, lastTier, attempts, runVars, pc, workVars,
                  faults>>

Select(r) ==
  \/ \E B \in SUBSET Targets : SelectScheduled(r, B) \/ SelectTriggered(r, B)
  \/ \E t \in Targets : SelectManual(r, t)
Scrape(r) ==
  \E t \in Targets : StepSucceeds(r, t) \/ StepFails(r, t) \/ RobotsDisallow(r, t)
Finish(r) == CommitBatch(r) \/ FlushRefused(r) \/ Report(r) \/ Reschedule(r)

Next ==
  \/ \E r \in Runs : Select(r) \/ Scrape(r) \/ Finish(r) \/ Abort(r) \/ Die(r)
  \/ \E t \in Targets : Release(t) \/ TimePasses(t)

Spec == Init /\ [][Next]_vars

-----------------------------------------------------------------------------
Tried(r, t) == {x \in attempts : x.run = r /\ x.target = t}
Succeeded(r, t) == \E x \in Tried(r, t) : x.status = "success"
FailedRuns(t) == {r \in Runs : Tried(r, t) # {} /\ ~Succeeded(r, t)}

(***************************************************************************)
(* The counters of a target never overstate: however batches and releases   *)
(* overwrite each other, consecutive_failures is at most failure_count, and *)
(* that at most the number of runs that committed a failure of the target   *)
(* (_mark_target_failure in overlapping sessions).                          *)
(***************************************************************************)
CountersNeverOverstate ==
  \A t \in Targets :
    /\ failures[t] <= failureCount[t]
    /\ failureCount[t] <= Cardinality(FailedRuns(t))

(***************************************************************************)
(* A batch is one transaction: if one attempt of a run is committed, every  *)
(* target of the batch has the attempts of a whole climb, that ends with a  *)
(* success, a refusal by robots.txt, or the last step of the plan.          *)
(***************************************************************************)
IsClimb(tried, plan) ==
  \E n \in 1..Len(plan) :
    /\ {x.step : x \in tried} = 1..n
    /\ \A x \in tried :
         /\ x.tier = plan[x.step]
         /\ x.step < n => x.status = "failed"
         /\ x.status = "blocked" => n = 1
         /\ x.step = n /\ n < Len(plan) => x.status # "failed"
BatchIsAtomic ==
  \A x \in attempts : \A t \in batch[x.run] : IsClimb(Tried(x.run, t), Plan(x.run, t))

(***************************************************************************)
(* A target waits only after a scheduled run has committed its attempts: a  *)
(* plain interval after a success, longer after a failure.  No crash or     *)
(* rollback takes a target off the schedule unscraped (run_target_batch_job *)
(* commits twice).                                                          *)
(***************************************************************************)
WaitsAreEarned ==
  \A t \in Targets :
    /\ wait[t] = 1 => \E r \in Jobs : Succeeded(r, t)
    /\ wait[t] > 1 => FailedRuns(t) \cap Jobs # {}

(***************************************************************************)
(* The tier where the next climb starts is one that has delivered jobs of   *)
(* this target (last_success_tier, TierRouter.route).                       *)
(***************************************************************************)
StartIsProven ==
  \A t \in Targets : lastTier[t] # 0 =>
    \E x \in attempts : x.target = t /\ x.status = "success" /\ x.tier = lastTier[t]

(***************************************************************************)
(* What the row of a target says of the future, when it is due and where    *)
(* its next climb starts, is earned by attempts that were committed.        *)
(***************************************************************************)
SchedulesAreEarned == WaitsAreEarned /\ StartIsProven

(***************************************************************************)
(* A scheduled batch to which nothing happens saves what it found           *)
(* (run_target_batch_job: "Update target metadata based on per-target       *)
(* results").                                                               *)
(***************************************************************************)
ScheduledBatchesSave ==
  faults = 0 =>
    \A r \in Jobs : pc[r] = "done" => \A t \in batch[r] : Tried(r, t) # {}
=============================================================================

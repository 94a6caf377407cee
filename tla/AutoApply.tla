------------------------------ MODULE AutoApply ------------------------------
(***************************************************************************)
(* Applying to jobs on behalf of one user, within one day, one hour and one *)
(* company cooldown: the batches the worker and the API start              *)
(* (AutoApplyOrchestrator.run_batch), the single applications a user asks   *)
(* for (apply_single), the pre-flight checks of SafetyLayer, the Lever API  *)
(* submission, the browser fill, and the user who records an application by *)
(* hand meanwhile.                                                          *)
(*                                                                          *)
(* A run is committed only with its final status, so another actor never    *)
(* sees it "running"; each query of the checks is a step of its own.        *)
(***************************************************************************)
EXTENDS Naturals, Sequences, FiniteSets

CONSTANTS
  NoJob,       \* an actor between two runs
  Jobs,        \* the user's active jobs of status "new"
  Batchers,    \* processes that run batches
  Singles,     \* processes that serve apply_single
  Lever,       \* jobs the URL of which parses as a Lever posting
  Stale,       \* jobs first seen 30 days ago or more
  Company,     \* company_name of each job, or NoName
  NoName,
  UrlAts,      \* the provider ATSDetector reads from the URL, or NoAts
  PageAts,     \* the provider recorded once the page was opened, or NoAts
  NoAts,
  KnownBefore, \* providers of the runs of earlier days
  PerHour,     \* PER_ATS_LIMITS, per_hour of each provider
  DailyLimit,  \* settings.auto_apply_max_daily
  BatchCap,    \* length of the slice of matched jobs a batch takes
  MaxLosses    \* bound: submissions accepted of which no answer is processed

Actors == Batchers \cup Singles
Providers == {UrlAts[j] : j \in Jobs} \cup {PageAts[j] : j \in Jobs} \cup KnownBefore

ASSUME NoJobAssumption == NoJob \notin Jobs
ASSUME JobsAssumption == Lever \subseteq Jobs /\ Stale \subseteq Jobs
ASSUME ActorsAssumption == IsFiniteSet(Actors) /\ Batchers \cap Singles = {}
ASSUME DailyLimitAssumption == DailyLimit \in Nat
ASSUME LeverAssumption == \A j \in Lever : PageAts[j] = UrlAts[j]

VARIABLES
  applications, \* committed Application rows of each job
  submitted,    \* committed runs of status "success" of each job
  filled,       \* the jobs of the committed runs of status "filled", in order
  pc,           \* where each actor stands
  job,          \* the job of its run
  todo,         \* the rest of its batch
  failedChecks, \* SafetyResult.failed_checks of its run
  existing,     \* actors whose query found an Application of the job
  posted,       \* how often the employer accepted a submission for the job
  lost,         \* how many of these left no trace in the database
  losses,       \* their total
  confirmed     \* providers a user's single application has vouched for

runVars == <<pc, job, todo, failedChecks, existing>>
dbVars == <<applications, submitted, filled>>
ghostVars == <<posted, lost, losses, confirmed>>
vars == <<applications, submitted, filled, pc, job, todo, failedChecks,
          existing, posted, lost, losses, confirmed>>

Checks == {"duplicate", "daily_limit", "ats_hourly_limit", "company_cooldown",
           "first_time_ats"}
Steps == {"idle", "next", "known", "duplicate", "daily", "hourly", "cooldown",
          "verdict", "post", "fill", "lookup", "commit"}

TypeOK ==
  /\ applications \in [Jobs -> Nat]
  /\ submitted \in [Jobs -> Nat]
  /\ filled \in Seq(Jobs)
  /\ pc \in [Actors -> Steps]
  /\ job \in [Actors -> Jobs \cup {NoJob}]
  /\ todo \in [Actors -> SUBSET Jobs]
  /\ failedChecks \in [Actors -> SUBSET Checks]
  /\ existing \subseteq Actors
  /\ posted \in [Jobs -> Nat]
  /\ lost \in [Jobs -> Nat]
  /\ losses \in Nat
  /\ confirmed \subseteq Providers

Init ==
  /\ applications = [j \in Jobs |-> 0]
  /\ submitted = [j \in Jobs |-> 0]
  /\ filled = <<>>
  /\ pc = [a \in Actors |-> "idle"]
  /\ job = [a \in Actors |-> NoJob]
  /\ todo = [a \in Actors |-> {}]
  /\ failedChecks = [a \in Actors |-> {}]
  /\ existing = {}
  /\ posted = [j \in Jobs |-> 0]
  /\ lost = [j \in Jobs |-> 0]
  /\ losses = 0
  /\ confirmed = {}

Goto(a, step) == pc' = [pc EXCEPT ![a] = step]
\* The run is over: what it had read is gone.
EndRun(a, step) ==
  /\ Goto(a, step)
  /\ job' = [job EXCEPT ![a] = NoJob]
  /\ failedChecks' = [failedChecks EXCEPT ![a] = {}]
  /\ existing' = existing \ {a}
FilledJobs == {filled[i] : i \in DOMAIN filled}

(***************************************************************************)
(* What a batch may take: no Application, no submitted or filled run.       *)
(***************************************************************************)
Candidates ==
  {j \in Jobs \ FilledJobs : applications[j] = 0 /\ submitted[j] = 0}

StartBatch(a) ==
  /\ a \in Batchers
  /\ pc[a] = "idle"
  /\ \E matched \in SUBSET Candidates :
        /\ matched # {}
        /\ Cardinality(matched) <= BatchCap
        /\ todo' = [todo EXCEPT ![a] = matched]
  /\ Goto(a, "next")
  /\ UNCHANGED <<job, failedChecks, existing, dbVars, ghostVars>>

StartSingle(a, j) ==
  /\ a \in Singles
  /\ pc[a] = "idle"
  /\ todo' = [todo EXCEPT ![a] = {j}]
  /\ Goto(a, "next")
  /\ UNCHANGED <<job, failedChecks, existing, dbVars, ghostVars>>

\* Mutant: the posting stays on the list of the batch.
BeginRun_keeping(a, j) ==
  /\ pc[a] = "next"
  /\ j \in todo[a]
  /\ job' = [job EXCEPT ![a] = j]
  /\ Goto(a, "known")
  /\ UNCHANGED <<todo, failedChecks, existing, dbVars, ghostVars>>
BeginRun(a, j) ==
  /\ pc[a] = "next"
  /\ j \in todo[a]
  /\ todo' = [todo EXCEPT ![a] = @ \ {j}]
  /\ job' = [job EXCEPT ![a] = j]
  /\ Goto(a, "known")
  /\ UNCHANGED <<failedChecks, existing, dbVars, ghostVars>>

Finish(a) ==
  /\ pc[a] = "next"
  /\ todo[a] = {}
  /\ Goto(a, "idle")
  /\ UNCHANGED <<job, todo, failedChecks, existing, dbVars, ghostVars>>

-----------------------------------------------------------------------------
(***************************************************************************)
(* The pre-flight checks, in the order check_safety awaits them.            *)
(***************************************************************************)
Check(a, name, passes) ==
  failedChecks' = [failedChecks EXCEPT ![a] = IF passes THEN @ ELSE @ \cup {name}]

Known ==
  KnownBefore \cup {PageAts[j] : j \in FilledJobs}
              \cup {UrlAts[j] : j \in {i \in Jobs : submitted[i] > 0}}

CheckKnown_trusting(a) ==
  /\ pc[a] = "known"
  /\ confirmed' = IF a \in Singles THEN confirmed \cup {UrlAts[job[a]]} ELSE confirmed
  /\ Goto(a, "duplicate")
  /\ UNCHANGED <<job, todo, failedChecks, existing, dbVars, posted, lost, losses>>
CheckKnown(a) ==
  /\ pc[a] = "known"
  /\ Check(a, "first_time_ats",
           a \in Singles \/ UrlAts[job[a]] \in Known \cup {NoAts})
  /\ confirmed' = IF a \in Singles THEN confirmed \cup {UrlAts[job[a]]} ELSE confirmed
  /\ Goto(a, "duplicate")
  /\ UNCHANGED <<job, todo, existing, dbVars, posted, lost, losses>>
CheckDuplicate_misnamed(a) ==
  /\ pc[a] = "duplicate"
  /\ Check(a, "already_applied", applications[job[a]] = 0)
  /\ Goto(a, "daily")
  /\ UNCHANGED <<job, todo, existing, dbVars, ghostVars>>

\* Mutant: whether there is an Application is not asked.
CheckDuplicate_skipped(a) ==
  /\ pc[a] = "duplicate"
  /\ Goto(a, "daily")
  /\ UNCHANGED <<job, todo, failedChecks, existing, dbVars, ghostVars>>
CheckDuplicate(a) ==
  /\ pc[a] = "duplicate"
  /\ Check(a, "duplicate", applications[job[a]] = 0)
  /\ Goto(a, "daily")
  /\ UNCHANGED <<job, todo, existing, dbVars, ghostVars>>

RunsToday_excluding == Len(filled)
\* The run in hand is flushed as "running" and counts itself.
RunsToday == Len(filled) + 1

CheckDailyLimit(a) ==
  /\ pc[a] = "daily"
  /\ Check(a, "daily_limit", RunsToday < DailyLimit)
  /\ Goto(a, "hourly")
  /\ UNCHANGED <<job, todo, existing, dbVars, ghostVars>>

\* A run without a provider is looked up as "default", which no run carries.
RunsThisHour(ats) ==
  IF ats = NoAts THEN 0
  ELSE 1 + Cardinality({i \in DOMAIN filled : PageAts[filled[i]] = ats})

CheckHourlyLimit(a) ==
  /\ pc[a] = "hourly"
  /\ Check(a, "ats_hourly_limit",
           RunsThisHour(UrlAts[job[a]]) < PerHour[UrlAts[job[a]]])
  /\ Goto(a, "cooldown")
  /\ UNCHANGED <<job, todo, existing, dbVars, ghostVars>>

Colleagues(j) == {i \in Jobs : Company[i] = Company[j] /\ Company[j] # NoName}

CheckCooldown(a) ==
  /\ pc[a] = "cooldown"
  /\ Check(a, "company_cooldown",
           \A i \in Colleagues(job[a]) : applications[i] = 0)
  /\ Goto(a, "verdict")
  /\ UNCHANGED <<job, todo, existing, dbVars, ghostVars>>

Safe(a) == failedChecks[a] = {} /\ job[a] \notin Stale

Refuse(a) ==
  /\ pc[a] = "verdict"
  /\ ~Safe(a)
  /\ EndRun(a, "next")
  /\ UNCHANGED <<todo, dbVars, ghostVars>>

Proceed(a) ==
  /\ pc[a] = "verdict"
  /\ Safe(a)
  /\ Goto(a, IF job[a] \in Lever THEN "post" ELSE "fill")
  /\ UNCHANGED <<job, todo, failedChecks, existing, dbVars, ghostVars>>

-----------------------------------------------------------------------------
(***************************************************************************)
(* LeverAPIAdapter.apply and _finish_run_from_adapter_result.               *)
(***************************************************************************)
Accept(j) == posted' = [posted EXCEPT ![j] = @ + 1]
Forget(j) ==
  /\ losses < MaxLosses
  /\ losses' = losses + 1
  /\ lost' = [lost EXCEPT ![j] = @ + 1]

PostAccepted(a) ==
  /\ pc[a] = "post"
  /\ Accept(job[a])
  /\ Goto(a, "lookup")
  /\ UNCHANGED <<job, todo, failedChecks, existing, dbVars, lost, losses, confirmed>>

\* A timeout or HTTP error after the employer took the application: the run is
\* committed as failed and the batch goes on.
PostUnanswered(a) ==
  /\ pc[a] = "post"
  /\ Accept(job[a])
  /\ Forget(job[a])
  /\ EndRun(a, "next")
  /\ UNCHANGED <<todo, dbVars, confirmed>>


\* Mutant: a submission the employer rejected is recorded as a success.
PostRejected_as_success(a) ==
  /\ pc[a] = "post"
  /\ Goto(a, "lookup")
  /\ UNCHANGED <<job, todo, failedChecks, existing, dbVars, ghostVars>>
PostRejected(a) ==
  /\ pc[a] = "post"
  /\ EndRun(a, "next")
  /\ UNCHANGED <<todo, dbVars, ghostVars>>

LookUp_reversed(a) ==
  /\ pc[a] = "lookup"
  /\ existing' = IF applications[job[a]] > 0 THEN existing \ {a} ELSE existing \cup {a}
  /\ Goto(a, "commit")
  /\ UNCHANGED <<job, todo, failedChecks, dbVars, ghostVars>>
LookUp(a) ==
  /\ pc[a] = "lookup"
  /\ existing' = IF applications[job[a]] > 0 THEN existing \cup {a} ELSE existing \ {a}
  /\ Goto(a, "commit")
  /\ UNCHANGED <<job, todo, failedChecks, dbVars, ghostVars>>

CommitSuccess(a) ==
  /\ pc[a] = "commit"
  /\ submitted' = [submitted EXCEPT ![job[a]] = @ + 1]
  /\ applications' = IF a \in existing THEN applications
                     ELSE [applications EXCEPT ![job[a]] = @ + 1]
  /\ EndRun(a, "next")
  /\ UNCHANGED <<todo, filled, ghostVars>>

\* The browser adapters fill the form and leave it for review.
FillSucceeds(a) ==
  /\ pc[a] = "fill"
  /\ filled' = Append(filled, job[a])
  /\ EndRun(a, "next")
  /\ UNCHANGED <<todo, applications, submitted, ghostVars>>

FillFails(a) ==
  /\ pc[a] = "fill"
  /\ EndRun(a, "next")
  /\ UNCHANGED <<todo, dbVars, ghostVars>>

Stop(a) ==
  /\ EndRun(a, "idle")
  /\ todo' = [todo EXCEPT ![a] = {}]
  /\ UNCHANGED dbVars

\* The process dies or an exception leaves the batch; the flushed run is rolled
\* back.  A 200 answer the body of which is no JSON is such an exception.
Abort(a) ==
  /\ pc[a] # "idle"
  /\ Stop(a)
  /\ IF pc[a] \in {"lookup", "commit"} THEN Forget(job[a]) ELSE UNCHANGED <<lost, losses>>
  /\ UNCHANGED <<posted, confirmed>>

AbortPosting(a) ==
  /\ pc[a] = "post"
  /\ Stop(a)
  /\ Accept(job[a])
  /\ Forget(job[a])
  /\ UNCHANGED confirmed

\* The user files an application by hand; bound: one per job.
SaveApplication(j) ==
  /\ applications[j] = 0
  /\ applications' = [applications EXCEPT ![j] = 1]
  /\ UNCHANGED <<submitted, filled, runVars, ghostVars>>

Actor(a) ==
  \/ \E j \in Jobs : BeginRun(a, j)
  \/ Finish(a)
  \/ CheckKnown(a) \/ CheckDuplicate(a) \/ CheckDailyLimit(a)
  \/ CheckHourlyLimit(a) \/ CheckCooldown(a)
  \/ Refuse(a) \/ Proceed(a)
  \/ PostAccepted(a) \/ PostUnanswered(a) \/ PostRejected(a)
  \/ LookUp(a) \/ CommitSuccess(a)
  \/ FillSucceeds(a) \/ FillFails(a)

Next ==
  \/ \E a \in Actors : \/ Actor(a)
                       \/ StartBatch(a)
                       \/ \E j \in Jobs : StartSingle(a, j)
                       \/ Abort(a) \/ AbortPosting(a)
  \/ \E j \in Jobs : SaveApplication(j)

Spec == Init /\ [][Next]_vars

\* Each await of a run is bounded: the database answers, httpx and playwright
\* carry timeouts.
FairSpec == Spec /\ \A a \in Actors : WF_vars(Actor(a))

-----------------------------------------------------------------------------
InFlight(j) == {a \in Actors : pc[a] \in {"lookup", "commit"} /\ job[a] = j}

(***************************************************************************)
(* Every submission an employer accepted is a committed "success" run, a    *)
(* run about to be committed, or one of the lost ones: no interleaving of   *)
(* actors and aborts makes the table claim what was not sent, or the other  *)
(* way round.                                                               *)
(***************************************************************************)
PostsAccounted ==
  \A j \in Jobs : posted[j] = submitted[j] + lost[j] + Cardinality(InFlight(j))

(***************************************************************************)
(* How far the duplicate check goes: but for lost answers, an employer gets *)
(* no more applications than there are concurrent actors; with one actor,   *)
(* exactly-once unless an answer is lost (_check_duplicate).                *)
(***************************************************************************)
DoublePostsBounded ==
  \A j \in Jobs : posted[j] <= Cardinality(Actors) + lost[j]

(***************************************************************************)
(* A run reported "success" has its Application in the pipeline             *)
(* (_record_application), whoever inserted it.                              *)
(***************************************************************************)
SubmittedIsRecorded ==
  \A j \in Jobs : submitted[j] > 0 => applications[j] > 0

(***************************************************************************)
(* The daily limit on filled forms: a run counts itself, so one actor stops *)
(* at DailyLimit - 1; each further actor can slip one more past the check.  *)
(***************************************************************************)
DailyLimitHeld ==
  /\ DailyLimit >= 2 => Len(filled) + 2 <= DailyLimit + Cardinality(Actors)
  /\ DailyLimit < 2 => filled = <<>>

(***************************************************************************)
(* A provider named by the URL is used only if it was known from earlier    *)
(* days, a user asked for it, or an earlier run met it behind another URL   *)
(* (_check_first_time_ats).                                                 *)
(***************************************************************************)
SeenOnPage == {PageAts[j] : j \in {i \in Jobs : UrlAts[i] # PageAts[i]}}
ProvidersConfirmed ==
  \A j \in Jobs :
    submitted[j] > 0 \/ j \in FilledJobs
      => UrlAts[j] \in KnownBefore \cup confirmed \cup SeenOnPage \cup {NoAts}

(***************************************************************************)
(* What the tables record is what happened: each accepted submission has    *)
(* its run and its Application or is a lost one, and each went through a     *)
(* provider that had been agreed to (apply_to_job, from check to commit).   *)
(***************************************************************************)
RecordsHold == PostsAccounted /\ SubmittedIsRecorded /\ ProvidersConfirmed

(***************************************************************************)
(* What several actors may overrun: by one submission of a job per actor,   *)
(* lost answers apart, and by one filled form of the day per further actor  *)
(* (SafetyLayer._check_duplicate and _check_daily_limit).                   *)
(***************************************************************************)
LimitsHold == DoublePostsBounded /\ DailyLimitHeld

(***************************************************************************)
(* A batch or a single application comes to its end.                        *)
(***************************************************************************)
EveryActorEnds == \A a \in Actors : pc[a] # "idle" ~> pc[a] = "idle"
=============================================================================

-------------------------------- MODULE Schedule ---------------------------------
(***********************************************************************************)
(* What the scheduler dispatches and when (workers/scheduler.py), how long the       *)
(* dispatched jobs may work (runtime/job_registry.py), and how long they wait for    *)
(* it.  The intervals live in memory: a scheduler that starts begins all of them     *)
(* anew.  A dispatch does not look at what is in the queue.                          *)
(*                                                                                  *)
(* Time passes in half-hours.  A run works until its last try is cut off; before     *)
(* that, and between its tries, it may wait in its queue.                            *)
(***********************************************************************************)
EXTENDS Integers

CONSTANTS
    Held,         \* the sets of jobs that may have to wait together
    MaxTroubles,  \* bound: crashes, run times missed
    MaxHolds,     \* bound: how often jobs are held up
    MaxWait       \* bound: half-hours for which a run waits

SCRAPING == "arq:queue:scraping"
ANALYSIS == "arq:queue:analysis"
OPS == "arq:queue:ops"

Job(lane, minutes, tries) == [queue |-> lane, minutes |-> minutes, tries |-> tries]
REGISTERED_JOBS ==
    [scheduled_scrape         |-> Job(SCRAPING, 30, 2),
     target_batch_career_page |-> Job(SCRAPING, 30, 2),
     target_batch_watchlist   |-> Job(SCRAPING, 30, 2),
     enrichment_batch         |-> Job(ANALYSIS, 30, 3),
     embedding_batch          |-> Job(ANALYSIS, 30, 3),
     tfidf_scoring            |-> Job(ANALYSIS, 30, 2),
     cleanup                  |-> Job(OPS, 15, 2),
     source_health            |-> Job(OPS, 15, 2),
     auto_apply_batch         |-> Job(OPS, 60, 1),
     saved_search_alerts      |-> Job(OPS, 15, 2),
     staleness_sweep          |-> Job(OPS, 15, 2),
     phase7a_source_health    |-> Job(OPS, 15, 2),
     followup_reminders       |-> Job(OPS, 15, 2),
     daily_digest             |-> Job(OPS, 30, 2),
     gmail_sync               |-> Job(OPS, 30, 2)]

\* The intervals in half-hours.
Scheduled ==
    [scheduled_scrape |-> 12, enrichment_batch |-> 1, embedding_batch |-> 2,
     tfidf_scoring |-> 4, cleanup |-> 48, daily_digest |-> 48, gmail_sync |-> 1,
     source_health |-> 8, auto_apply_batch |-> 8, saved_search_alerts |-> 1,
     staleness_sweep |-> 12, phase7a_source_health |-> 8, followup_reminders |-> 2,
     target_batch_career_page |-> 1, target_batch_watchlist |-> 4]

JobNames == DOMAIN REGISTERED_JOBS
\* The name under which each runner runs its job: it says how often a failed one is tried
\* again.
NameOf == [j \in JobNames |-> j]
Tries(j) == REGISTERED_JOBS[NameOf[j]].tries
\* The seconds before the try after this one: they double up to five minutes.
retry_delay_seconds(job_try) == IF job_try > 4 THEN 300 ELSE <<30, 60, 120, 240>>[job_try]
\* What n failed tries wait together.
Waited[n \in Nat] == IF n = 0 THEN 0 ELSE Waited[n - 1] + retry_delay_seconds(n)
Delays(j) == Waited[Tries(j) - 1]
\* The half-hours of work after which the last try of each job has been cut off.
Deadline ==
    [j \in JobNames |-> (60 * REGISTERED_JOBS[j].minutes * Tries(j) + Delays(j) + 1799) \div 1800]

VARIABLES
    scheduled,   \* whether the scheduler runs
    left,        \* half-hours to the next run time of each scheduled job
    dispatched,  \* the jobs put into their queues at this moment
    runs,        \* the runs of each job that are not over: the half-hours since their
                 \* dispatch, and those for which they have worked
    late,        \* the jobs that wait in their queue
    troubles, holds

scheduleVars == <<scheduled, left, dispatched, runs, late, troubles, holds>>

ScheduleInit ==
    /\ scheduled = FALSE /\ left = Scheduled /\ dispatched = {}
    /\ runs = [j \in JobNames |-> {}] /\ late = {} /\ troubles = 0 /\ holds = 0

\* Mutant: a scheduler that starts dispatches every job as soon as it can.
create_scheduler_early ==
    /\ ~scheduled /\ scheduled' = TRUE
    /\ left' = [j \in DOMAIN Scheduled |-> 1]
    /\ dispatched' = {} /\ UNCHANGED <<runs, late, troubles, holds>>
create_scheduler ==
    /\ ~scheduled /\ scheduled' = TRUE
    /\ left' = Scheduled
    /\ dispatched' = {} /\ UNCHANGED <<runs, late, troubles, holds>>

Run(age, worked) == [age |-> age, worked |-> worked]
HeldUp(r) == r.age - r.worked
\* A half-hour later a run has worked on, or waited.
Later(j, r) == Run(r.age + 1, IF j \in late THEN r.worked ELSE r.worked + 1)
IsOver(j, r) == r.worked >= Deadline[j]

Pass(S) ==
    /\ \A j \in late : \A r \in runs[j] : HeldUp(r) < MaxWait
    /\ dispatched' = S
    /\ runs' = [j \in JobNames |-> {q \in {Later(j, r) : r \in runs[j]} : ~IsOver(j, q)}
                                   \cup (IF j \in S THEN {Run(0, 0)} ELSE {})]

Due == {j \in DOMAIN left : left[j] = 1}
Rewind == left' = [j \in DOMAIN left |-> IF left[j] = 1 THEN Scheduled[j] ELSE left[j] - 1]

\* The jobs due are enqueued, those that are registered.
HalfHour ==
    /\ scheduled /\ Rewind /\ Pass(Due \cap JobNames)
    /\ UNCHANGED <<scheduled, late, troubles, holds>>

\* Redis does not answer, or the loop was busy for longer than the misfire grace time: the
\* run is dropped, and the interval goes on.
Misfire(S) ==
    /\ scheduled /\ troubles < MaxTroubles /\ troubles' = troubles + 1
    /\ S # {} /\ S \subseteq Due
    /\ Rewind /\ Pass((Due \ S) \cap JobNames) /\ UNCHANGED <<scheduled, late, holds>>

CrashScheduler ==
    /\ scheduled /\ troubles < MaxTroubles /\ troubles' = troubles + 1
    /\ scheduled' = FALSE /\ dispatched' = {} /\ UNCHANGED <<left, runs, late, holds>>
Down == ~scheduled /\ Pass({}) /\ UNCHANGED <<scheduled, left, late, troubles, holds>>

\* A worker is down; or its slots, two for scraping, four for analysis and one for the rest,
\* are taken by other runs, the ones that requests enqueue among them.
HoldUp(H) ==
    /\ holds < MaxHolds /\ holds' = holds + 1
    /\ \E j \in H : runs[j] # {}
    /\ late' = late \cup H
    /\ dispatched' = {} /\ UNCHANGED <<scheduled, left, runs, troubles>>
GoOn ==
    /\ late # {} /\ late' = {}
    /\ dispatched' = {} /\ UNCHANGED <<scheduled, left, runs, troubles, holds>>

ScheduleNext ==
    \/ create_scheduler \/ HalfHour \/ CrashScheduler \/ Down \/ GoOn
    \/ \E S \in {Due} \cup {{j} : j \in Due} : Misfire(S)
    \/ \E H \in Held : HoldUp(H)

ScheduleSpec == ScheduleInit /\ [][ScheduleNext]_scheduleVars
\* A crashed scheduler or worker is restarted by its container, slots get free as bodies
\* time out, and time goes on.
FairSchedule ==
    ScheduleSpec /\ WF_scheduleVars(create_scheduler) /\ WF_scheduleVars(HalfHour)
                 /\ WF_scheduleVars(GoOn)

-----------------------------------------------------------------------------------
(* Properties *)

ScheduleTypeOK ==
    /\ scheduled \in BOOLEAN /\ left \in [DOMAIN Scheduled -> 1..48]
    /\ dispatched \subseteq JobNames
    /\ runs \in [JobNames -> SUBSET [age : Nat, worked : Nat]]
    /\ late \in SUBSET UNION Held /\ troubles \in Nat /\ holds \in Nat

\* Every registered job is dispatched again and again, once the scheduler stays up.
EveryJobRuns == \A j \in JobNames : []<>(j \in dispatched)

\* However often the scheduler is restarted or misses run times and jobs are held up, two
\* runs of a job were dispatched its interval apart or more, so that both are under way
\* only if the earlier was held up for longer than its tries leave of the interval:
\* six half-hours for the batch that applies to jobs.
RunsStayApart ==
    \A j \in JobNames : \A r, q \in runs[j] :
        q.age < r.age => /\ r.age - q.age >= Scheduled[j]
                         /\ HeldUp(r) > Scheduled[j] - Deadline[j]
===================================================================================

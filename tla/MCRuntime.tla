------------------------------- MODULE MCRuntime -------------------------------
(* The processes and their clocks: the health and metrics of a worker, the          *)
(* scheduler with its health record and the queue telemetry, and the table of jobs  *)
(* it dispatches.  They meet only in records that each takes as given, so a         *)
(* behaviour is of one of them.                                                     *)
(*                                                                                  *)
(* Two queues, each nominal or saturated and stalled; the scheduler's               *)
(* intervals in ticks of five seconds, as configured by default: 15 s, and 20 s for *)
(* the health key.                                                                  *)
EXTENDS WorkerHealth, Schedule

CONSTANTS Queues, Samples, Interval, Slack, WebhookTimeout, MaxFaults

VARIABLES
    part,
    process, place, marker, key, current, todo, previous, stored, told, waiting, posting, faults

schedulerVars == <<process, place, marker, key, current, todo, previous, stored, told, waiting,
                   posting, faults>>
mcVars == <<allVars, schedulerVars, scheduleVars, part>>

Scheduler == INSTANCE SchedulerRuntime WITH at <- place, left <- waiting

ASSUME SchedulerAssumption == Scheduler!RuntimeAssumption

MCSamples == {<<0, 0>>, <<25, 1200>>}
\* A worker is down; or a mail sync has the only slot for maintenance.
Lane(lane) == {j \in JobNames : REGISTERED_JOBS[j].queue = lane}
MCHeld == {Lane(SCRAPING), Lane(ANALYSIS), Lane(OPS) \ {"gmail_sync"}}

MCInit == HealthInit /\ Scheduler!Init /\ ScheduleInit
          /\ part \in {"worker", "scheduler", "times"}
InScheduler(A) == part = "scheduler" /\ A /\ UNCHANGED <<allVars, scheduleVars, part>>
InTimes(A) == part = "times" /\ A /\ UNCHANGED <<allVars, schedulerVars, part>>
MCNext == \/ part = "worker" /\ HealthNext /\ UNCHANGED <<schedulerVars, scheduleVars, part>>
          \/ InScheduler(Scheduler!Next)
          \/ InTimes(ScheduleNext)

MCSpec == /\ MCInit /\ [][MCNext]_mcVars
          /\ WF_mcVars(InScheduler(Scheduler!Start)) /\ WF_mcVars(InScheduler(Scheduler!Round))
          /\ WF_mcVars(InScheduler(Scheduler!Tick))
          /\ WF_mcVars(InTimes(create_scheduler)) /\ WF_mcVars(InTimes(HalfHour))
          /\ WF_mcVars(InTimes(GoOn))

\* The properties of SchedulerRuntime and Schedule, stated there.
AlarmsHold == Scheduler!AlarmsHold
\* Health records and jobs keep coming.
RuntimeGoesOn ==
    /\ part = "scheduler" => Scheduler!HeartbeatGoesOn
    /\ part = "times" => EveryJobRuns
==================================================================================

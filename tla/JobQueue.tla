------------------------------- MODULE JobQueue -------------------------------
(***************************************************************************)
(* One lane of the job queue: the producer (scheduler or API) that enqueues *)
(* a job and then stores its metadata, the ARQ worker that picks jobs up,   *)
(* the lifecycle wrapper that turns an exception into a retry or a failure, *)
(* and the bodies of the jobs.  A body is opaque but for enrichment_batch,  *)
(* which reads its user scope from the metadata and clears it.              *)
(*                                                                          *)
(* Each await on Redis is a step of its own, so the producer, the runs of   *)
(* the other jobs, a crash, a shutdown or the expiry of a key may come      *)
(* between any two of them.                                                 *)
(***************************************************************************)
EXTENDS Naturals, FiniteSets

CONSTANTS
  Jobs,       \* the jobs ever enqueued; each has a fresh id (uuid4)
  MaxTries,   \* RegisteredJob.max_tries of each job
  MaxJobs,    \* ROLE_TO_MAX_JOBS of the lane
  Scoped,     \* the enrichment_batch jobs
  ByApi,      \* the scoped jobs enqueued by a user: metadata carries user_id
  MaxStops    \* bound: crashes and shutdowns of the worker

ASSUME MaxTriesAssumption == MaxTries \in [Jobs -> Nat \ {0}]
ASSUME JobSetsAssumption ==
  /\ Scoped \subseteq Jobs
  /\ ByApi \subseteq Scoped

VARIABLES
  producer,    \* how far enqueue_registered_job is with each job
  queue,       \* the lane's sorted set of job ids
  inProgress,  \* the jobs with an in-progress key
  meta,        \* the jobs with a metadata key
  losses,      \* what befell the metadata of each batch so far
  tries,       \* the job_try counter ARQ keeps
  run,         \* where the worker's run of the job stands
  result,      \* what ARQ stored as the outcome
  work,        \* whether the body began its work, and did it to the end
  counters,    \* what the lifecycle has counted for each job
  faults,      \* attempts that raised or were interrupted
  escaped,     \* the jobs an exception of which reached ARQ past the lifecycle
  worker,      \* the worker process is up or down
  stops        \* how often it stopped

producerVars == <<producer, queue>>
metaVars == <<meta, losses>>
bodyVars == <<meta, losses, work>>
ghostVars == <<faults, escaped>>
workerVars == <<worker, stops>>
vars == <<producer, queue, inProgress, meta, losses, tries, run, result, work,
          counters, faults, escaped, worker, stops>>

CounterFields == {"retry_exhausted_total", "retry_scheduled_total",
                  "queue_job_completed_total", "queue_job_failed_total"}

\* Read before it was stored, or not read though it was there; deleted by a run that had
\* read none, or expired.
Misreadings == {"early", "unread"}
Removals == {"swept", "expired"}

\* A run the body of which has not raised; what follows in the lifecycle.
Unraised == {"called", "working", "clearing", "returned", "succeeding"}
Decided == {"succeeding", "failing", "retrying"}
Phases == Unraised \cup Decided \cup {"none", "unscoped", "raised", "exhausting"}

TypeOK ==
  /\ producer \in [Jobs -> {"idle", "storing", "done", "failed"}]
  /\ queue \subseteq Jobs
  /\ inProgress \subseteq Jobs
  /\ meta \subseteq Jobs
  /\ losses \in [Jobs -> SUBSET (Misreadings \cup Removals)]
  /\ tries \in [Jobs -> Nat]
  /\ run \in [Jobs -> Phases]
  /\ result \in [Jobs -> {"none", "ok", "failed"}]
  /\ work \in [Jobs -> {"untouched", "begun", "done"}]
  /\ counters \in [Jobs -> [CounterFields -> Nat]]
  /\ faults \in [Jobs -> Nat]
  /\ escaped \subseteq Jobs
  /\ worker \in {"up", "down"}
  /\ stops \in Nat

Init ==
  /\ producer = [j \in Jobs |-> "idle"]
  /\ queue = {}
  /\ inProgress = {}
  /\ meta = {}
  /\ losses = [j \in Jobs |-> {}]
  /\ tries = [j \in Jobs |-> 0]
  /\ run = [j \in Jobs |-> "none"]
  /\ result = [j \in Jobs |-> "none"]
  /\ work = [j \in Jobs |-> "untouched"]
  /\ counters = [j \in Jobs |-> [f \in CounterFields |-> 0]]
  /\ faults = [j \in Jobs |-> 0]
  /\ escaped = {}
  /\ worker = "up"
  /\ stops = 0

Running == {j \in Jobs : run[j] # "none"}
Phase(j, from, to) == run[j] = from /\ run' = [run EXCEPT ![j] = to]

Count(j, f) == counters' = [counters EXCEPT ![j][f] = @ + 1]
Fault(j) == faults' = [faults EXCEPT ![j] = @ + 1]

-------------------------------------------------------------------------------
(* The producer: enqueue_registered_job.                                     *)

\* From here on the worker can see the job; its metadata is not there yet.
Enqueue(j) ==
  /\ producer[j] = "idle"
  /\ producer' = [producer EXCEPT ![j] = "storing"]
  /\ queue' = queue \cup {j}
  /\ UNCHANGED <<inProgress, tries, run, result, counters, bodyVars, ghostVars, workerVars>>

StoreMetadata(j) ==
  /\ producer[j] = "storing"
  /\ producer' = [producer EXCEPT ![j] = "done"]
  /\ meta' = meta \cup {j}
  /\ UNCHANGED <<queue, inProgress, losses, tries, run, result, work, counters, ghostVars,
                 workerVars>>

\* Mutant: a failure to store the metadata is only logged.
DispatchFails_logged(j) ==
  /\ producer[j] \in {"idle", "storing"}
  /\ producer' = [producer EXCEPT ![j] = IF @ = "storing" THEN "done" ELSE "failed"]
  /\ UNCHANGED <<queue, inProgress, tries, run, result, counters, bodyVars, ghostVars, workerVars>>

\* No job reference, Redis unreachable or the process gone: the caller sees a
\* failure, before the job is in the queue or after.
DispatchFails(j) ==
  /\ producer[j] \in {"idle", "storing"}
  /\ producer' = [producer EXCEPT ![j] = "failed"]
  /\ UNCHANGED <<queue, inProgress, tries, run, result, counters, bodyVars, ghostVars, workerVars>>

-------------------------------------------------------------------------------
(* ARQ: start_jobs and run_job up to the call of the registered function.    *)

\* Mutant: the worker keeps one slot free.
Available_short(j) ==
  /\ worker = "up"
  /\ j \in queue
  /\ j \notin inProgress
  /\ Cardinality(Running) + 1 < MaxJobs

Available(j) ==
  /\ worker = "up"
  /\ j \in queue
  /\ j \notin inProgress
  /\ Cardinality(Running) < MaxJobs

Pickup(j) ==
  /\ Available(j)
  /\ tries[j] < MaxTries[j]
  /\ tries' = [tries EXCEPT ![j] = @ + 1]
  /\ inProgress' = inProgress \cup {j}
  /\ Phase(j, "none", "called")
  /\ UNCHANGED <<result, counters, bodyVars, producerVars, ghostVars, workerVars>>

\* The last try was interrupted: ARQ fails the job without calling it.
TriesExceeded(j) ==
  /\ Available(j)
  /\ tries[j] >= MaxTries[j]
  /\ tries' = [tries EXCEPT ![j] = @ + 1]
  /\ result' = [result EXCEPT ![j] = "failed"]
  /\ queue' = queue \ {j}
  /\ UNCHANGED <<producer, inProgress, run, counters, bodyVars, ghostVars, workerVars>>

-------------------------------------------------------------------------------
(* The body.                                                                 *)

HasScope(j) == j \in meta /\ j \in ByApi

StartWork(j) ==
  /\ j \in Scoped => HasScope(j)
  /\ Phase(j, "called", "working")
  /\ work' = [work EXCEPT ![j] = "begun"]
  /\ UNCHANGED <<inProgress, metaVars, tries, result, counters, producerVars, ghostVars, workerVars>>

Misreading(j) ==
  IF HasScope(j) THEN {"unread"} ELSE IF producer[j] # "done" THEN {"early"} ELSE {}

\* load_job_metadata returned no user_id, which is also what it returns when
\* the read fails ...
ScopeMissing(j) ==
  /\ j \in Scoped
  /\ Phase(j, "called", "unscoped")
  /\ losses' = [losses EXCEPT ![j] = @ \cup Misreading(j)]
  /\ UNCHANGED <<inProgress, meta, tries, result, work, counters, producerVars, ghostVars,
                 workerVars>>

\* ... and the metadata is cleared, whatever it holds by now.
ClearAndRaise(j) ==
  /\ Phase(j, "unscoped", "raised")
  /\ meta' = meta \ {j}
  /\ losses' = [losses EXCEPT ![j] = IF j \in meta THEN @ \cup {"swept"} ELSE @]
  /\ UNCHANGED <<inProgress, tries, result, work, counters, producerVars, ghostVars, workerVars>>

\* Mutant: the metadata is cleared in a finally block.
BodyRaises_clearing(j) ==
  /\ run[j] \in {"working", "clearing", "unscoped"}
  /\ run' = [run EXCEPT ![j] = "raised"]
  /\ Fault(j)
  /\ meta' = meta \ {j}
  /\ UNCHANGED <<inProgress, losses, tries, result, counters, escaped, work, producerVars, workerVars>>

\* The work fails, or the metadata cannot be cleared after it.
BodyRaises(j) ==
  /\ run[j] \in {"working", "clearing", "unscoped"}
  /\ run' = [run EXCEPT ![j] = "raised"]
  /\ Fault(j)
  /\ UNCHANGED <<inProgress, tries, result, counters, escaped, bodyVars, producerVars, workerVars>>

WorkDone(j) ==
  /\ Phase(j, "working", IF j \in Scoped THEN "clearing" ELSE "returned")
  /\ work' = [work EXCEPT ![j] = "done"]
  /\ UNCHANGED <<inProgress, metaVars, tries, result, counters, producerVars, ghostVars, workerVars>>

ClearMetadata(j) ==
  /\ Phase(j, "clearing", "returned")
  /\ meta' = meta \ {j}
  /\ UNCHANGED <<inProgress, losses, tries, result, work, counters, producerVars, ghostVars, workerVars>>

-------------------------------------------------------------------------------
(* The lifecycle wrapper: run_with_lifecycle.                                *)

Retryable(j) == MaxTries[j] > 1

\* Mutant: one retry too many (job_try <= max_tries).
HasTriesLeft_inclusive(j) == Retryable(j) /\ tries[j] <= MaxTries[j]

HasTriesLeft(j) == Retryable(j) /\ tries[j] < MaxTries[j]

\* Mutant: a scheduled retry is counted as a failure.
ScheduleRetry_as_failure(j) ==
  /\ HasTriesLeft(j)
  /\ Phase(j, "raised", "retrying")
  /\ Count(j, "queue_job_failed_total")
  /\ UNCHANGED <<inProgress, tries, result, bodyVars, producerVars, ghostVars, workerVars>>

ScheduleRetry(j) ==
  /\ HasTriesLeft(j)
  /\ Phase(j, "raised", "retrying")
  /\ Count(j, "retry_scheduled_total")
  /\ UNCHANGED <<inProgress, tries, result, bodyVars, producerVars, ghostVars, workerVars>>

CountFailure(j) ==
  /\ ~HasTriesLeft(j)
  /\ Phase(j, "raised", IF Retryable(j) THEN "exhausting" ELSE "failing")
  /\ Count(j, "queue_job_failed_total")
  /\ UNCHANGED <<inProgress, tries, result, bodyVars, producerVars, ghostVars, workerVars>>

CountExhausted(j) ==
  /\ Phase(j, "exhausting", "failing")
  /\ Count(j, "retry_exhausted_total")
  /\ UNCHANGED <<inProgress, tries, result, bodyVars, producerVars, ghostVars, workerVars>>

CountCompleted(j) ==
  /\ Phase(j, "returned", "succeeding")
  /\ Count(j, "queue_job_completed_total")
  /\ UNCHANGED <<inProgress, tries, result, bodyVars, producerVars, ghostVars, workerVars>>

\* ARQ cancels the registered function at timeout_seconds, or a counter cannot
\* be written: an exception the wrapper does not turn into a Retry.
Escape(j) ==
  /\ run[j] \notin Decided \cup {"none"}
  /\ run' = [run EXCEPT ![j] = "failing"]
  /\ escaped' = escaped \cup {j}
  /\ UNCHANGED <<inProgress, tries, result, counters, faults, bodyVars, producerVars, workerVars>>

-------------------------------------------------------------------------------
(* ARQ: finish_job.                                                          *)

\* A retry leaves the job in the queue, to be picked up after its delay.
FinishRetry(j) ==
  /\ Phase(j, "retrying", "none")
  /\ inProgress' = inProgress \ {j}
  /\ UNCHANGED <<tries, result, counters, bodyVars, producerVars, ghostVars, workerVars>>

FinishJob(j) ==
  /\ run[j] \in {"succeeding", "failing"}
  /\ result' = [result EXCEPT ![j] = IF run[j] = "succeeding" THEN "ok" ELSE "failed"]
  /\ run' = [run EXCEPT ![j] = "none"]
  /\ inProgress' = inProgress \ {j}
  /\ queue' = queue \ {j}
  /\ UNCHANGED <<producer, tries, counters, bodyVars, ghostVars, workerVars>>

-------------------------------------------------------------------------------
(* The worker process and the keys that expire.                              *)

Stop ==
  /\ worker = "up" /\ stops < MaxStops
  /\ worker' = "down"
  /\ stops' = stops + 1
  /\ run' = [j \in Jobs |-> "none"]
  /\ faults' = [j \in Jobs |-> IF run[j] \in Unraised THEN faults[j] + 1 ELSE faults[j]]
  /\ UNCHANGED <<tries, result, counters, escaped, bodyVars, producerVars>>

\* The in-progress keys of a process that died stay until they expire.
Crash == Stop /\ UNCHANGED inProgress

\* SIGTERM: after job_completion_wait the runs are cancelled and go back to the
\* queue; a finish_job under way is shielded.
Shutdown ==
  /\ \A j \in Jobs : run[j] \notin Decided
  /\ Stop
  /\ inProgress' = inProgress \ Running

Restart ==
  /\ worker = "down" /\ worker' = "up"
  /\ UNCHANGED <<inProgress, tries, run, result, counters, stops, bodyVars, producerVars, ghostVars>>

ExpireInProgress(j) ==
  /\ j \in inProgress /\ run[j] = "none"
  /\ inProgress' = inProgress \ {j}
  /\ UNCHANGED <<tries, run, result, counters, bodyVars, producerVars, ghostVars, workerVars>>

ExpireMetadata(j) ==
  /\ j \in meta
  /\ meta' = meta \ {j}
  /\ losses' = [losses EXCEPT ![j] = @ \cup {"expired"}]
  /\ UNCHANGED <<inProgress, tries, run, result, work, counters, producerVars, ghostVars, workerVars>>

-------------------------------------------------------------------------------
Produce(j) == Enqueue(j) \/ StoreMetadata(j) \/ DispatchFails(j)

Body(j) == \/ StartWork(j) \/ ScopeMissing(j) \/ ClearAndRaise(j)
           \/ BodyRaises(j) \/ WorkDone(j) \/ ClearMetadata(j)

Lifecycle(j) == ScheduleRetry(j) \/ CountFailure(j) \/ CountExhausted(j) \/ CountCompleted(j)

Finish(j) == FinishRetry(j) \/ FinishJob(j)

JobStep(j) == \/ Produce(j) \/ Pickup(j) \/ TriesExceeded(j) \/ Body(j) \/ Lifecycle(j)
              \/ Escape(j) \/ Finish(j) \/ ExpireInProgress(j) \/ ExpireMetadata(j)

Next == (\E j \in Jobs : JobStep(j)) \/ Crash \/ Shutdown \/ Restart

Spec == Init /\ [][Next]_vars

\* A body ends (its timeout sees to it), the event loop runs every ready task,
\* keys expire, and the container is restarted.  Producers may stop anywhere.
Fairness ==
  /\ WF_vars(Restart)
  /\ \A j \in Jobs :
       /\ WF_vars(Pickup(j) \/ TriesExceeded(j))
       /\ WF_vars(Body(j) \/ Lifecycle(j) \/ Finish(j))
       /\ WF_vars(ExpireInProgress(j))

FairSpec == Spec /\ Fairness

-------------------------------------------------------------------------------
\* Only a worker that is up runs a job, and a job it runs is unsettled, still
\* in the queue, and protected by its in-progress key from a second run.
RunsAreLeased ==
  \A j \in Jobs : run[j] # "none" =>
    worker = "up" /\ j \in queue /\ j \in inProgress /\ result[j] = "none" /\ tries[j] \in 1..MaxTries[j]

\* No try is wasted: unless an exception went past the lifecycle, a job fails
\* only after as many attempts as its max_tries really raised or were
\* interrupted (the jobs that need a user scope are the exception).
NoTryWasted ==
  \A j \in Jobs \ Scoped : result[j] = "failed" /\ j \notin escaped => faults[j] >= MaxTries[j]

\* The counters tell the truth: no attempt is counted under two outcomes, a
\* failure is counted once and only on the last try, exhaustion only for a
\* retryable job that was counted as failed, and success was counted before
\* ARQ recorded it.
CountersTruthful ==
  \A j \in Jobs :
    LET c == counters[j] IN
      /\ c["retry_scheduled_total"] + c["queue_job_completed_total"] + c["queue_job_failed_total"]
           <= tries[j]
      /\ c["queue_job_failed_total"] <= 1
      /\ c["queue_job_failed_total"] = 1 => tries[j] >= MaxTries[j]
      /\ c["retry_exhausted_total"] <= c["queue_job_failed_total"]
      /\ c["retry_exhausted_total"] > 0 => MaxTries[j] > 1
      /\ result[j] = "ok" => c["queue_job_completed_total"] > 0

\* The scope of a user's enrichment batch outlives every failed, crashed or
\* cancelled attempt: once an attempt has read it and until the work is done,
\* it is there for the next one, unless the key expired or Redis failed to read it.
ScopeSurvivesRetries ==
  \A j \in ByApi : work[j] = "begun" => j \in meta \/ losses[j] \cap Removals # {}

\* What a run relies on stays with it through crashes, time-outs and retries: its lease,
\* and the scope of a user's batch.
RunsKeepLeaseAndScope == RunsAreLeased /\ ScopeSurvivesRetries

\* ARQ's tries and the lifecycle's counters agree: no try is wasted, none is counted
\* twice or under the wrong outcome.
TriesAreCounted == NoTryWasted /\ CountersTruthful

\* A user's batch that was dispatched loses its scope, and fails without its work, for a
\* cause only.  Stored metadata goes with the work it was for, by expiry, or because a run
\* that had read none deletes what it finds now; the last happens only when the worker was
\* quicker than the producer or could not read what was there; and with none of these a
\* batch fails only after as many faults as it has tries (or was done and cleaned up).
ScopeLossExplained ==
  \A j \in ByApi :
    /\ producer[j] = "done" /\ j \notin meta => work[j] = "done" \/ losses[j] \cap Removals # {}
    /\ "swept" \in losses[j] => losses[j] \cap Misreadings # {}
    /\ result[j] = "failed" /\ j \notin escaped /\ losses[j] = {} =>
         faults[j] >= MaxTries[j] \/ (work[j] = "done" /\ j \notin meta)

-------------------------------------------------------------------------------
(* What the lane promises, and how its state gives it.                       *)

JobState(j) ==
  IF result[j] # "none" THEN "settled"
  ELSE IF run[j] # "none" THEN "running"
  ELSE IF j \in queue THEN "pending" ELSE "absent"

\* The try that ARQ refuses to start is not an attempt.
JobAttempts(j) == IF tries[j] > MaxTries[j] THEN MaxTries[j] ELSE tries[j]

Ledger == INSTANCE JobLedger WITH
  state    <- [j \in Jobs |-> JobState(j)],
  attempts <- [j \in Jobs |-> JobAttempts(j)],
  verdict  <- result

\* The lane implements the ledger: bounded attempts, retries only with tries to
\* spare, one verdict that never changes.
ImplementsLedger == Ledger!LedgerSpec

\* Every job that reached the queue is settled in the end, whatever its
\* producer did next and however the worker is stopped and restarted.
EveryJobSettles == \A j \in Jobs : j \in queue ~> result[j] # "none"
===============================================================================

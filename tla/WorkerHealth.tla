------------------------------- MODULE WorkerHealth -------------------------------
(***********************************************************************************)
(* The health check of a queue worker (runtime/healthcheck.py, _check_worker) and   *)
(* the two records it compares: ARQ's own heartbeat under the health key, and the   *)
(* worker's metrics hash, which enqueuers and the job hooks write (WorkerMetrics).   *)
(*                                                                                  *)
(* The actions on the hash are those of WorkerMetrics, with the queue fields and    *)
(* the time the hash has to live added; the queue is its length.  A tick is one     *)
(* health interval, 15 seconds by default.                                           *)
(***********************************************************************************)
EXTENDS WorkerMetrics

CONSTANTS
    Hooks,     \* the syncers that run inside the worker process
    BeatTtl,   \* ticks ARQ's health key lives: the interval plus one second, rounded up
    HashTtl,   \* ticks the hash lives: worker_metrics_ttl_seconds, four intervals
    MaxQueued, \* bound: jobs queued
    MaxDown    \* bound: ticks a stopped worker is watched

ASSUME HealthAssumption == BeatTtl \in Nat /\ HashTtl \in Nat /\ MaxDown \in Nat

VARIABLES
    queue,     \* the length of the queue
    up,        \* the worker process runs
    beat,      \* the heartbeat: [queued, left], left = 0 when the key is gone
    due,       \* the running worker has yet to record its heartbeat in this tick
    fields,    \* the hash has its queue fields
    depth,     \* the queue_depth in the hash
    hashLeft,  \* ticks the hash has to live, when it has a TTL
    snapshot,  \* the length each syncer has captured
    downFor,   \* history: ticks since the worker stopped
    greeted    \* history: the running worker has written its metrics

healthVars == <<queue, up, beat, due, fields, depth, hashLeft, snapshot, downFor, greeted>>
allVars == <<vars, healthVars>>

HealthInit ==
    /\ Init
    /\ queue = 0 /\ up = FALSE /\ beat = [queued |-> 0, left |-> 0] /\ due = FALSE
    /\ fields = FALSE /\ depth = 0 /\ hashLeft = 0
    /\ snapshot = [s \in Syncers |-> 0] /\ downFor = MaxDown
    /\ greeted = FALSE

-----------------------------------------------------------------------------------
(* Syncing the hash: the snapshot is captured before the counters are read *)

CanRun(s) == s \in Hooks => up

Capture(s) ==
    /\ CanRun(s) /\ ReadCounters(s)
    /\ snapshot' = [snapshot EXCEPT ![s] = queue]
    /\ UNCHANGED <<queue, up, beat, due, fields, depth, hashLeft, downFor, greeted>>

StoreFields(s) ==
    /\ CanRun(s) /\ WriteBack(s)
    /\ fields' = TRUE /\ depth' = snapshot[s]
    /\ UNCHANGED <<queue, up, beat, due, hashLeft, snapshot, downFor, greeted>>

Expire(s) ==
    /\ CanRun(s) /\ SetExpiry(s)
    /\ hashLeft' = IF fields \/ hash # Zero THEN HashTtl ELSE hashLeft
    /\ greeted' = (greeted \/ s \in Hooks)
    /\ UNCHANGED <<queue, up, beat, due, fields, depth, snapshot, downFor>>

LeaveSync(s) == Abandon(s) /\ UNCHANGED healthVars

\* HINCRBY creates the hash when it is gone, with nothing but the counter in it.
Count(f) ==
    /\ up /\ Increment(f)
    /\ hashLeft' = HashTtl
    /\ UNCHANGED <<queue, up, beat, due, fields, depth, snapshot, downFor, greeted>>

-----------------------------------------------------------------------------------
(* The queue and the worker *)

JobArrives ==
    /\ queue < MaxQueued /\ queue' = queue + 1
    /\ UNCHANGED <<vars, up, beat, due, fields, depth, hashLeft, snapshot, downFor, greeted>>

\* ARQ takes a job off the queue after its on_job_end hook has run.
JobLeaves ==
    /\ up /\ queue > 0 /\ queue' = queue - 1
    /\ UNCHANGED <<vars, up, beat, due, fields, depth, hashLeft, snapshot, downFor, greeted>>

StartWorker ==
    /\ ~up /\ up' = TRUE /\ due' = TRUE /\ downFor' = 0 /\ greeted' = FALSE
    /\ UNCHANGED <<vars, queue, beat, fields, depth, hashLeft, snapshot>>

\* Its hooks go with the process; the enqueuers live elsewhere.
StopWorker ==
    /\ up /\ up' = FALSE /\ due' = FALSE
    /\ at' = [s \in Syncers |-> IF s \in Hooks THEN "idle" ELSE at[s]]
    /\ UNCHANGED <<hash, ttl, seen, happened, stale, disturbed>>
    /\ UNCHANGED <<queue, beat, fields, depth, hashLeft, snapshot, downFor, greeted>>

\* ARQ's record_health, once in every interval.
Beat ==
    /\ up /\ due /\ due' = FALSE
    /\ beat' = [queued |-> queue, left |-> BeatTtl]
    /\ UNCHANGED <<vars, queue, up, fields, depth, hashLeft, snapshot, downFor, greeted>>

HashDies == ttl = "set" /\ hashLeft = 1

Tick ==
    /\ ~due
    /\ beat' = [beat EXCEPT !.left = IF @ > 0 THEN @ - 1 ELSE 0]
    /\ due' = up
    /\ IF HashDies THEN KeyLost /\ fields' = FALSE /\ depth' = 0
                   ELSE UNCHANGED <<vars, fields, depth>>
    /\ hashLeft' = IF ttl = "set" /\ hashLeft > 0 THEN hashLeft - 1 ELSE hashLeft
    /\ downFor' = IF ~up /\ downFor < MaxDown THEN downFor + 1 ELSE downFor
    /\ UNCHANGED <<queue, up, snapshot, greeted>>

HealthNext ==
    \/ \E s \in Syncers : Capture(s) \/ StoreFields(s) \/ Expire(s) \/ LeaveSync(s)
    \/ \E f \in Fields : Count(f)
    \/ JobArrives \/ JobLeaves \/ StartWorker \/ StopWorker \/ Beat \/ Tick

HealthSpec == HealthInit /\ [][HealthNext]_allVars

-----------------------------------------------------------------------------------
(* Properties *)

\* Mutant: the metrics hash alone is asked, and enqueuers keep that one alive.
Healthy_hashOnly == fields
\* _check_worker: both records are there and agree about the depth of the queue.
Healthy == beat.left > 0 /\ fields /\ depth = beat.queued

\* A worker that has been gone for longer than its heartbeat lives is not reported
\* healthy, however busy the enqueuers keep its metrics hash.
DeathIsSeen == downFor > BeatTtl /\ ~up => ~Healthy
===================================================================================

---------------------------- MODULE JobQueueProofs ----------------------------
(***************************************************************************)
(* Proofs about JobQueue, for every set of jobs, number of tries and slots. *)
(***************************************************************************)
EXTENDS JobQueue, TLAPS

\* LEMMA: the variables keep their types.  One step per action, most of which
\* only move a job from one phase to the next.
LEMMA TypeStep == TypeOK /\ [Next]_vars => TypeOK'
<1> SUFFICES ASSUME TypeOK, [Next]_vars PROVE TypeOK'
  OBVIOUS
<1> USE DEF TypeOK, Phases, Unraised, Decided, Phase, producerVars, bodyVars, metaVars, ghostVars, workerVars
<1>1. ASSUME NEW j \in Jobs, Produce(j) PROVE TypeOK'
  BY <1>1 DEF Produce, Enqueue, StoreMetadata, DispatchFails
<1>2. ASSUME NEW j \in Jobs, Pickup(j) PROVE TypeOK'
  BY <1>2 DEF Pickup
<1>3. ASSUME NEW j \in Jobs, TriesExceeded(j) PROVE TypeOK'
  BY <1>3 DEF TriesExceeded
<1>4. ASSUME NEW j \in Jobs, Body(j) PROVE TypeOK'
  <2>1. CASE StartWork(j) \/ ScopeMissing(j) \/ ClearAndRaise(j)
    <3>1. losses' \in [Jobs -> SUBSET (Misreadings \cup Removals)]
      BY <2>1 DEF StartWork, ScopeMissing, ClearAndRaise, Misreading, Misreadings, Removals
    <3> QED
      BY <3>1, <2>1 DEF StartWork, ScopeMissing, ClearAndRaise
  <2>2. CASE BodyRaises(j)
    <3>1. faults' \in [Jobs -> Nat]
      BY <2>2 DEF BodyRaises, Fault
    <3> QED
      BY <3>1, <2>2 DEF BodyRaises
  <2>3. CASE WorkDone(j) \/ ClearMetadata(j)
    BY <2>3 DEF WorkDone, ClearMetadata
  <2> QED
    BY <1>4, <2>1, <2>2, <2>3 DEF Body
<1>5. ASSUME NEW j \in Jobs, Lifecycle(j) PROVE TypeOK'
  <2>1. \E f \in CounterFields : Count(j, f)
    BY <1>5 DEF Lifecycle, ScheduleRetry, CountFailure, CountExhausted, CountCompleted, CounterFields
  <2>2. counters' \in [Jobs -> [CounterFields -> Nat]]
    BY <2>1 DEF Count
  <2>3. \E p \in Phases : run' = [run EXCEPT ![j] = p]
    <3>1. CASE ScheduleRetry(j)
      BY <3>1 DEF ScheduleRetry
    <3>2. CASE CountFailure(j)
      BY <3>2 DEF CountFailure
    <3>3. CASE CountExhausted(j) \/ CountCompleted(j)
      BY <3>3 DEF CountExhausted, CountCompleted
    <3> QED
      BY <1>5, <3>1, <3>2, <3>3 DEF Lifecycle
  <2>4. UNCHANGED <<inProgress, tries, result, bodyVars, producerVars, ghostVars, workerVars>>
    BY <1>5 DEF Lifecycle, ScheduleRetry, CountFailure, CountExhausted, CountCompleted
  <2> QED
    BY <2>2, <2>3, <2>4
<1>6. ASSUME NEW j \in Jobs, Escape(j) PROVE TypeOK'
  BY <1>6 DEF Escape
<1>7. ASSUME NEW j \in Jobs, Finish(j) PROVE TypeOK'
  BY <1>7 DEF Finish, FinishRetry, FinishJob
<1>8. ASSUME NEW j \in Jobs, ExpireInProgress(j) \/ ExpireMetadata(j) PROVE TypeOK'
  <2>1. losses' \in [Jobs -> SUBSET (Misreadings \cup Removals)]
    BY <1>8 DEF ExpireInProgress, ExpireMetadata, Misreadings, Removals
  <2> QED
    BY <1>8, <2>1 DEF ExpireInProgress, ExpireMetadata
<1>9. CASE Crash \/ Shutdown
  <2>1. Stop /\ inProgress' \subseteq Jobs
    BY <1>9 DEF Crash, Shutdown
  <2>2. \A j \in Jobs : faults[j] \in Nat /\ faults[j] + 1 \in Nat
    OBVIOUS
  <2>3. faults' \in [Jobs -> Nat]
    BY <2>1, <2>2 DEF Stop
  <2>4. /\ run' = [j \in Jobs |-> "none"]
        /\ worker' = "down"
        /\ stops' = stops + 1
        /\ UNCHANGED <<tries, result, counters, escaped, meta, losses, work, producer, queue>>
    BY <2>1 DEF Stop
  <2>5. run' \in [Jobs -> Phases]
    BY <2>4
  <2>6. worker' \in {"up", "down"}
    BY <2>4
  <2>7. stops' \in Nat
    BY <2>4
  <2>8. inProgress' \subseteq Jobs
    BY <2>1
  <2> QED
    BY <2>3, <2>4, <2>5, <2>6, <2>7, <2>8
<1>10. CASE Restart
  BY <1>10 DEF Restart
<1>11. CASE UNCHANGED vars
  BY <1>11 DEF vars
<1> QED
  BY <1>1, <1>2, <1>3, <1>4, <1>5, <1>6, <1>7, <1>8, <1>9, <1>10, <1>11 DEF Next, JobStep

\* THEOREM: type correctness of the lane.
THEOREM TypeCorrect == Spec => []TypeOK
<1>1. Init => TypeOK
  BY DEF Init, TypeOK, Phases, CounterFields
<1> QED
  BY <1>1, TypeStep, PTL DEF Spec

-------------------------------------------------------------------------------
(* The inductive invariant, one job at a time.                               *)

\* A run holds a lease: this is RunsAreLeased.
Lease(j) ==
  run[j] # "none" =>
    worker = "up" /\ j \in queue /\ j \in inProgress /\ result[j] = "none" /\ tries[j] \in 1..MaxTries[j]

\* Nothing happens to a job before it is enqueued or after it is settled.
Quiet(j) ==
  /\ producer[j] = "idle" => j \notin queue /\ result[j] = "none"
  /\ result[j] # "none" => j \notin queue

\* What the lifecycle has decided fits the tries that are left.
Decision(j) ==
  /\ run[j] = "retrying" => tries[j] < MaxTries[j]
  /\ run[j] \in {"exhausting", "failing"} /\ j \notin escaped => tries[j] = MaxTries[j]
  /\ run[j] \in {"unscoped", "clearing"} => j \in Scoped

\* Each try of a plain job is accounted for by a fault, or is still faultless.
Tries(j) ==
  j \notin Scoped /\ j \notin escaped =>
    IF result[j] = "none"
      THEN tries[j] <= faults[j] + (IF run[j] \in Unraised THEN 1 ELSE 0)
      ELSE result[j] = "failed" => faults[j] >= MaxTries[j]

\* The scope read by one attempt is there until the work is done.
Scope(j) ==
  /\ run[j] = "working" => work[j] = "begun"
  /\ run[j] = "clearing" => work[j] = "done"
  /\ j \in meta \/ (work[j] # "untouched" /\ j \in ByApi) => producer[j] = "done"

\* The work of a user's batch was done and its metadata deleted after it.
CleanedUp(j) == work[j] = "done" /\ j \notin meta

\* The metadata of a user's batch is there, or its absence has a cause; so has a run that
\* found none.
Fate(j) ==
  j \in ByApi =>
    /\ producer[j] = "done" /\ j \notin meta => work[j] = "done" \/ losses[j] \cap Removals # {}
    /\ "swept" \in losses[j] => losses[j] \cap Misreadings # {}
    /\ run[j] = "unscoped" =>
         \/ losses[j] \cap Misreadings # {}
         \/ producer[j] = "done" /\ j \notin meta

\* Each try of a user's batch that lost nothing is accounted for like a plain job's.
Owed(j) ==
  j \in ByApi /\ losses[j] = {} /\ ~CleanedUp(j) /\ j \notin escaped =>
    IF result[j] = "none"
      THEN tries[j] <= faults[j] + (IF run[j] \in Unraised THEN 1 ELSE 0)
      ELSE result[j] = "failed" => faults[j] >= MaxTries[j]

JobInv(j) == Lease(j) /\ Quiet(j) /\ Decision(j) /\ Tries(j) /\ Scope(j) /\ Fate(j) /\ Owed(j)

\* What a step of another job leaves alone.
Same(j) ==
  /\ producer'[j] = producer[j] /\ tries'[j] = tries[j] /\ run'[j] = run[j]
  /\ result'[j] = result[j] /\ work'[j] = work[j] /\ faults'[j] = faults[j]
  /\ j \in queue' <=> j \in queue
  /\ j \in inProgress' <=> j \in inProgress
  /\ j \in meta' <=> j \in meta
  /\ j \in escaped' <=> j \in escaped
  /\ losses'[j] = losses[j]
  /\ worker' = worker

\* LEMMA: a step of one job leaves every other job as it was.
LEMMA OthersStay ==
  ASSUME TypeOK, NEW j \in Jobs, NEW k \in Jobs, j # k, JobStep(k)
  PROVE  Same(j)
<1> USE DEF TypeOK, Same, Phase, producerVars, bodyVars, metaVars, ghostVars, workerVars
<1>1. CASE Produce(k)
  BY <1>1 DEF Produce, Enqueue, StoreMetadata, DispatchFails
<1>2. CASE Pickup(k)
  BY <1>2 DEF Pickup
<1>3. CASE TriesExceeded(k)
  BY <1>3 DEF TriesExceeded
<1>4. CASE Body(k)
  <2>1. CASE StartWork(k) \/ ScopeMissing(k) \/ ClearAndRaise(k)
    BY <2>1 DEF StartWork, ScopeMissing, ClearAndRaise
  <2>2. CASE BodyRaises(k)
    BY <2>2 DEF BodyRaises, Fault
  <2>3. CASE WorkDone(k) \/ ClearMetadata(k)
    BY <2>3 DEF WorkDone, ClearMetadata
  <2> QED
    BY <1>4, <2>1, <2>2, <2>3 DEF Body
<1>5. CASE Lifecycle(k)
  <2>1. CASE ScheduleRetry(k) \/ CountFailure(k)
    BY <2>1 DEF ScheduleRetry, CountFailure
  <2>2. CASE CountExhausted(k) \/ CountCompleted(k)
    BY <2>2 DEF CountExhausted, CountCompleted
  <2> QED
    BY <1>5, <2>1, <2>2 DEF Lifecycle
<1>6. CASE Escape(k)
  BY <1>6 DEF Escape
<1>7. CASE Finish(k)
  BY <1>7 DEF Finish, FinishRetry, FinishJob
<1>8. CASE ExpireInProgress(k) \/ ExpireMetadata(k)
  BY <1>8 DEF ExpireInProgress, ExpireMetadata
<1> QED
  BY <1>1, <1>2, <1>3, <1>4, <1>5, <1>6, <1>7, <1>8 DEF JobStep

\* LEMMA: a job left as it was keeps its invariant.
LEMMA SameKeeps ==
  ASSUME NEW j \in Jobs, JobInv(j), Same(j)
  PROVE  JobInv(j)'
<1>1. Lease(j)' /\ Quiet(j)' /\ Decision(j)'
  BY DEF JobInv, Same, Lease, Quiet, Decision
<1>2. Tries(j)'
  BY DEF JobInv, Same, Tries
<1>3. Scope(j)'
  BY DEF JobInv, Same, Scope
<1>4. Fate(j)' /\ Owed(j)'
  BY DEF JobInv, Same, Fate, Owed, CleanedUp
<1> QED
  BY <1>1, <1>2, <1>3, <1>4 DEF JobInv

\* LEMMA: a step of a job keeps its own invariant.
LEMMA OwnStep ==
  ASSUME TypeOK, NEW j \in Jobs, JobInv(j), JobStep(j)
  PROVE  JobInv(j)'
<1> USE MaxTriesAssumption, JobSetsAssumption
        DEF TypeOK, Phase, producerVars, bodyVars, metaVars, ghostVars, workerVars, Unraised, Decided
<1>1. CASE Produce(j)
  <2>1. Lease(j)' /\ Quiet(j)'
    BY <1>1 DEF Produce, Enqueue, StoreMetadata, DispatchFails, JobInv, Lease, Quiet
  <2>2. Decision(j)'
    BY <1>1 DEF Produce, Enqueue, StoreMetadata, DispatchFails, JobInv, Lease, Decision
  <2>3. Tries(j)'
    BY <1>1 DEF Produce, Enqueue, StoreMetadata, DispatchFails, JobInv, Lease, Decision, Quiet, Tries
  <2>4. Scope(j)'
    BY <1>1 DEF Produce, Enqueue, StoreMetadata, DispatchFails, JobInv, Lease, Decision, Scope
  <2>5. Fate(j)'
    BY <1>1 DEF Produce, Enqueue, StoreMetadata, DispatchFails, JobInv, Lease, Scope, Fate, Misreadings, Removals
  <2>6. Owed(j)'
    BY <1>1 DEF Produce, Enqueue, StoreMetadata, DispatchFails, JobInv, Lease, Decision, Quiet, Scope, Fate, Owed, CleanedUp
  <2> QED
    BY <2>1, <2>2, <2>3, <2>4, <2>5, <2>6 DEF JobInv
<1>2. CASE Pickup(j)
  <2>1. Lease(j)' /\ Quiet(j)'
    BY <1>2 DEF Pickup, Available, JobInv, Lease, Quiet
  <2>2. Decision(j)'
    BY <1>2 DEF Pickup, Available, JobInv, Lease, Decision
  <2>3. Tries(j)'
    BY <1>2 DEF Pickup, Available, JobInv, Lease, Decision, Quiet, Tries
  <2>4. Scope(j)'
    BY <1>2 DEF Pickup, Available, JobInv, Lease, Decision, Scope
  <2>5. Fate(j)'
    BY <1>2 DEF Pickup, Available, JobInv, Lease, Scope, Fate, Misreadings, Removals
  <2>6. Owed(j)'
    BY <1>2 DEF Pickup, Available, JobInv, Lease, Decision, Quiet, Scope, Fate, Owed, CleanedUp
  <2> QED
    BY <2>1, <2>2, <2>3, <2>4, <2>5, <2>6 DEF JobInv
<1>3. CASE TriesExceeded(j)
  <2>1. Lease(j)' /\ Quiet(j)'
    BY <1>3 DEF TriesExceeded, Available, JobInv, Lease, Quiet
  <2>2. Decision(j)'
    BY <1>3 DEF TriesExceeded, Available, JobInv, Lease, Decision
  <2>3. Tries(j)'
    BY <1>3 DEF TriesExceeded, Available, JobInv, Lease, Decision, Quiet, Tries
  <2>4. Scope(j)'
    BY <1>3 DEF TriesExceeded, Available, JobInv, Lease, Decision, Scope
  <2>5. Fate(j)'
    BY <1>3 DEF TriesExceeded, Available, JobInv, Lease, Scope, Fate, Misreadings, Removals
  <2>6. Owed(j)'
    BY <1>3 DEF TriesExceeded, Available, JobInv, Lease, Decision, Quiet, Scope, Fate, Owed, CleanedUp
  <2> QED
    BY <2>1, <2>2, <2>3, <2>4, <2>5, <2>6 DEF JobInv
<1>4. CASE StartWork(j)
  <2>1. Lease(j)' /\ Quiet(j)'
    BY <1>4 DEF StartWork, HasScope, JobInv, Lease, Quiet
  <2>2. Decision(j)'
    BY <1>4 DEF StartWork, HasScope, JobInv, Lease, Decision
  <2>3. Tries(j)'
    BY <1>4 DEF StartWork, HasScope, JobInv, Lease, Decision, Quiet, Tries
  <2>4. Scope(j)'
    BY <1>4 DEF StartWork, HasScope, JobInv, Lease, Decision, Scope
  <2>5. Fate(j)'
    BY <1>4 DEF StartWork, HasScope, JobInv, Lease, Scope, Fate, Misreadings, Removals
  <2>6. Owed(j)'
    BY <1>4 DEF StartWork, HasScope, JobInv, Lease, Decision, Quiet, Scope, Fate, Owed, CleanedUp
  <2> QED
    BY <2>1, <2>2, <2>3, <2>4, <2>5, <2>6 DEF JobInv
<1>5. CASE ScopeMissing(j)
  <2>1. Lease(j)' /\ Quiet(j)'
    BY <1>5 DEF ScopeMissing, Misreading, HasScope, JobInv, Lease, Quiet
  <2>2. Decision(j)'
    BY <1>5 DEF ScopeMissing, Misreading, HasScope, JobInv, Lease, Decision
  <2>3. Tries(j)'
    BY <1>5 DEF ScopeMissing, Misreading, HasScope, JobInv, Lease, Decision, Quiet, Tries
  <2>4. Scope(j)'
    BY <1>5 DEF ScopeMissing, Misreading, HasScope, JobInv, Lease, Decision, Scope
  <2>5. Fate(j)'
    BY <1>5 DEF ScopeMissing, Misreading, HasScope, JobInv, Lease, Scope, Fate, Misreadings, Removals
  <2>6. Owed(j)'
    BY <1>5 DEF ScopeMissing, Misreading, HasScope, JobInv, Lease, Decision, Quiet, Scope, Fate, Owed, CleanedUp
  <2> QED
    BY <2>1, <2>2, <2>3, <2>4, <2>5, <2>6 DEF JobInv
<1>6. CASE ClearAndRaise(j)
  <2>1. Lease(j)' /\ Quiet(j)'
    BY <1>6 DEF ClearAndRaise, JobInv, Lease, Quiet
  <2>2. Decision(j)'
    BY <1>6 DEF ClearAndRaise, JobInv, Lease, Decision
  <2>3. Tries(j)'
    BY <1>6 DEF ClearAndRaise, JobInv, Lease, Decision, Quiet, Tries
  <2>4. Scope(j)'
    BY <1>6 DEF ClearAndRaise, JobInv, Lease, Decision, Scope
  <2>5. Fate(j)'
    BY <1>6 DEF ClearAndRaise, JobInv, Lease, Scope, Fate, Misreadings, Removals
  <2>6. Owed(j)'
    BY <1>6 DEF ClearAndRaise, JobInv, Lease, Decision, Quiet, Scope, Fate, Owed, CleanedUp
  <2> QED
    BY <2>1, <2>2, <2>3, <2>4, <2>5, <2>6 DEF JobInv
<1>7. CASE BodyRaises(j)
  <2>1. Lease(j)' /\ Quiet(j)'
    BY <1>7 DEF BodyRaises, Fault, JobInv, Lease, Quiet
  <2>2. Decision(j)'
    BY <1>7 DEF BodyRaises, Fault, JobInv, Lease, Decision
  <2>3. Tries(j)'
    BY <1>7 DEF BodyRaises, Fault, JobInv, Lease, Decision, Quiet, Tries
  <2>4. Scope(j)'
    BY <1>7 DEF BodyRaises, Fault, JobInv, Lease, Decision, Scope
  <2>5. Fate(j)'
    BY <1>7 DEF BodyRaises, Fault, JobInv, Lease, Scope, Fate, Misreadings, Removals
  <2>6. Owed(j)'
    BY <1>7 DEF BodyRaises, Fault, JobInv, Lease, Decision, Quiet, Scope, Fate, Owed, CleanedUp
  <2> QED
    BY <2>1, <2>2, <2>3, <2>4, <2>5, <2>6 DEF JobInv
<1>8. CASE WorkDone(j)
  <2>1. Lease(j)' /\ Quiet(j)'
    BY <1>8 DEF WorkDone, JobInv, Lease, Quiet
  <2>2. Decision(j)'
    BY <1>8 DEF WorkDone, JobInv, Lease, Decision
  <2>3. Tries(j)'
    BY <1>8 DEF WorkDone, JobInv, Lease, Decision, Quiet, Tries
  <2>4. Scope(j)'
    BY <1>8 DEF WorkDone, JobInv, Lease, Decision, Scope
  <2>5. Fate(j)'
    BY <1>8 DEF WorkDone, JobInv, Lease, Scope, Fate, Misreadings, Removals
  <2>6. Owed(j)'
    BY <1>8 DEF WorkDone, JobInv, Lease, Decision, Quiet, Scope, Fate, Owed, CleanedUp
  <2> QED
    BY <2>1, <2>2, <2>3, <2>4, <2>5, <2>6 DEF JobInv
<1>9. CASE ClearMetadata(j)
  <2>1. Lease(j)' /\ Quiet(j)'
    BY <1>9 DEF ClearMetadata, JobInv, Lease, Quiet
  <2>2. Decision(j)'
    BY <1>9 DEF ClearMetadata, JobInv, Lease, Decision
  <2>3. Tries(j)'
    BY <1>9 DEF ClearMetadata, JobInv, Lease, Decision, Quiet, Tries
  <2>4. Scope(j)'
    BY <1>9 DEF ClearMetadata, JobInv, Lease, Decision, Scope
  <2>5. Fate(j)'
    BY <1>9 DEF ClearMetadata, JobInv, Lease, Scope, Fate, Misreadings, Removals
  <2>6. Owed(j)'
    BY <1>9 DEF ClearMetadata, JobInv, Lease, Decision, Quiet, Scope, Fate, Owed, CleanedUp
  <2> QED
    BY <2>1, <2>2, <2>3, <2>4, <2>5, <2>6 DEF JobInv
<1>10. CASE ScheduleRetry(j)
  <2>1. Lease(j)' /\ Quiet(j)'
    BY <1>10 DEF ScheduleRetry, HasTriesLeft, Retryable, JobInv, Lease, Quiet
  <2>2. Decision(j)'
    BY <1>10 DEF ScheduleRetry, HasTriesLeft, Retryable, JobInv, Lease, Decision
  <2>3. Tries(j)'
    BY <1>10 DEF ScheduleRetry, HasTriesLeft, Retryable, JobInv, Lease, Decision, Quiet, Tries
  <2>4. Scope(j)'
    BY <1>10 DEF ScheduleRetry, HasTriesLeft, Retryable, JobInv, Lease, Decision, Scope
  <2>5. Fate(j)'
    BY <1>10 DEF ScheduleRetry, HasTriesLeft, Retryable, JobInv, Lease, Scope, Fate, Misreadings, Removals
  <2>6. Owed(j)'
    BY <1>10 DEF ScheduleRetry, HasTriesLeft, Retryable, JobInv, Lease, Decision, Quiet, Scope, Fate, Owed, CleanedUp
  <2> QED
    BY <2>1, <2>2, <2>3, <2>4, <2>5, <2>6 DEF JobInv
<1>11. CASE CountFailure(j)
  <2>1. Lease(j)' /\ Quiet(j)'
    BY <1>11 DEF CountFailure, HasTriesLeft, Retryable, JobInv, Lease, Quiet
  <2>2. Decision(j)'
    <3>1. MaxTries[j] \in Nat \ {0} /\ tries[j] \in Nat
      OBVIOUS
    <3>2. tries[j] \in 1..MaxTries[j]
      BY <1>11 DEF CountFailure, JobInv, Lease
    <3>3. tries[j] = MaxTries[j]
      <4>1. ~HasTriesLeft(j)
        BY <1>11 DEF CountFailure
      <4> QED
        BY ONLY <4>1, <3>1, <3>2 DEF HasTriesLeft, Retryable
    <3>4. tries'[j] = MaxTries[j] /\ run'[j] \in {"exhausting", "failing"}
      BY <1>11, <3>3 DEF CountFailure
    <3> QED
      BY <3>4 DEF Decision
  <2>3. Tries(j)'
    BY <1>11 DEF CountFailure, HasTriesLeft, Retryable, JobInv, Lease, Decision, Quiet, Tries
  <2>4. Scope(j)'
    BY <1>11 DEF CountFailure, HasTriesLeft, Retryable, JobInv, Lease, Decision, Scope
  <2>5. Fate(j)'
    BY <1>11 DEF CountFailure, HasTriesLeft, Retryable, JobInv, Lease, Scope, Fate, Misreadings, Removals
  <2>6. Owed(j)'
    BY <1>11 DEF CountFailure, HasTriesLeft, Retryable, JobInv, Lease, Decision, Quiet, Scope, Fate, Owed, CleanedUp
  <2> QED
    BY <2>1, <2>2, <2>3, <2>4, <2>5, <2>6 DEF JobInv
<1>12. CASE CountExhausted(j) \/ CountCompleted(j)
  <2>1. Lease(j)' /\ Quiet(j)'
    BY <1>12 DEF CountExhausted, CountCompleted, JobInv, Lease, Quiet
  <2>2. Decision(j)'
    BY <1>12 DEF CountExhausted, CountCompleted, JobInv, Lease, Decision
  <2>3. Tries(j)'
    BY <1>12 DEF CountExhausted, CountCompleted, JobInv, Lease, Decision, Quiet, Tries
  <2>4. Scope(j)'
    BY <1>12 DEF CountExhausted, CountCompleted, JobInv, Lease, Decision, Scope
  <2>5. Fate(j)'
    BY <1>12 DEF CountExhausted, CountCompleted, JobInv, Lease, Scope, Fate, Misreadings, Removals
  <2>6. Owed(j)'
    BY <1>12 DEF CountExhausted, CountCompleted, JobInv, Lease, Decision, Quiet, Scope, Fate, Owed, CleanedUp
  <2> QED
    BY <2>1, <2>2, <2>3, <2>4, <2>5, <2>6 DEF JobInv
<1>13. CASE Escape(j)
  <2>1. Lease(j)' /\ Quiet(j)'
    BY <1>13 DEF Escape, JobInv, Lease, Quiet
  <2>2. Decision(j)'
    BY <1>13 DEF Escape, JobInv, Lease, Decision
  <2>3. Tries(j)'
    BY <1>13 DEF Escape, JobInv, Lease, Decision, Quiet, Tries
  <2>4. Scope(j)'
    BY <1>13 DEF Escape, JobInv, Lease, Decision, Scope
  <2>5. Fate(j)'
    BY <1>13 DEF Escape, JobInv, Lease, Scope, Fate, Misreadings, Removals
  <2>6. Owed(j)'
    BY <1>13 DEF Escape, JobInv, Lease, Decision, Quiet, Scope, Fate, Owed, CleanedUp
  <2> QED
    BY <2>1, <2>2, <2>3, <2>4, <2>5, <2>6 DEF JobInv
<1>14. CASE FinishRetry(j)
  <2>1. Lease(j)' /\ Quiet(j)'
    BY <1>14 DEF FinishRetry, JobInv, Lease, Quiet
  <2>2. Decision(j)'
    BY <1>14 DEF FinishRetry, JobInv, Lease, Decision
  <2>3. Tries(j)'
    BY <1>14 DEF FinishRetry, JobInv, Lease, Decision, Quiet, Tries
  <2>4. Scope(j)'
    BY <1>14 DEF FinishRetry, JobInv, Lease, Decision, Scope
  <2>5. Fate(j)'
    BY <1>14 DEF FinishRetry, JobInv, Lease, Scope, Fate, Misreadings, Removals
  <2>6. Owed(j)'
    BY <1>14 DEF FinishRetry, JobInv, Lease, Decision, Quiet, Scope, Fate, Owed, CleanedUp
  <2> QED
    BY <2>1, <2>2, <2>3, <2>4, <2>5, <2>6 DEF JobInv
<1>15. CASE FinishJob(j)
  <2>1. Lease(j)' /\ Quiet(j)'
    BY <1>15 DEF FinishJob, JobInv, Lease, Quiet
  <2>2. Decision(j)'
    BY <1>15 DEF FinishJob, JobInv, Lease, Decision
  <2>3. Tries(j)'
    BY <1>15 DEF FinishJob, JobInv, Lease, Decision, Quiet, Tries
  <2>4. Scope(j)'
    BY <1>15 DEF FinishJob, JobInv, Lease, Decision, Scope
  <2>5. Fate(j)'
    BY <1>15 DEF FinishJob, JobInv, Lease, Scope, Fate, Misreadings, Removals
  <2>6. Owed(j)'
    BY <1>15 DEF FinishJob, JobInv, Lease, Decision, Quiet, Scope, Fate, Owed, CleanedUp
  <2> QED
    BY <2>1, <2>2, <2>3, <2>4, <2>5, <2>6 DEF JobInv
<1>16. CASE ExpireInProgress(j) \/ ExpireMetadata(j)
  <2>1. Lease(j)' /\ Quiet(j)'
    BY <1>16 DEF ExpireInProgress, ExpireMetadata, JobInv, Lease, Quiet
  <2>2. Decision(j)'
    BY <1>16 DEF ExpireInProgress, ExpireMetadata, JobInv, Lease, Decision
  <2>3. Tries(j)'
    BY <1>16 DEF ExpireInProgress, ExpireMetadata, JobInv, Lease, Decision, Quiet, Tries
  <2>4. Scope(j)'
    BY <1>16 DEF ExpireInProgress, ExpireMetadata, JobInv, Lease, Decision, Scope
  <2>5. Fate(j)'
    <3>1. CASE ExpireInProgress(j)
      BY <3>1 DEF ExpireInProgress, JobInv, Fate
    <3>2. CASE ExpireMetadata(j)
      <4>1. losses'[j] = losses[j] \cup {"expired"} /\ j \notin meta'
        BY <3>2 DEF ExpireMetadata
      <4>2. UNCHANGED <<producer, run, work>>
        BY <3>2 DEF ExpireMetadata
      <4>3. /\ "expired" \in losses'[j] \cap Removals
            /\ losses'[j] \cap Misreadings = losses[j] \cap Misreadings
            /\ "swept" \in losses'[j] <=> "swept" \in losses[j]
        BY <4>1 DEF Removals, Misreadings
      <4>4. j \in ByApi /\ run[j] = "unscoped" => losses[j] \cap Misreadings # {} \/ producer[j] = "done"
        BY DEF JobInv, Fate, Scope
      <4> QED
        BY <4>1, <4>2, <4>3, <4>4 DEF JobInv, Fate
    <3> QED
      BY <1>16, <3>1, <3>2
  <2>6. Owed(j)'
    BY <1>16 DEF ExpireInProgress, ExpireMetadata, JobInv, Lease, Decision, Quiet, Scope, Fate, Owed, CleanedUp
  <2> QED
    BY <2>1, <2>2, <2>3, <2>4, <2>5, <2>6 DEF JobInv
<1> QED
  BY <1>1, <1>2, <1>3, <1>4, <1>5, <1>6, <1>7, <1>8, <1>9, <1>10, <1>11, <1>12, <1>13, <1>14, <1>15, <1>16 DEF JobStep, Body, Lifecycle, Finish

-------------------------------------------------------------------------------
(* The invariant of the lane.                                                *)

IInv == TypeOK /\ \A j \in Jobs : JobInv(j)

\* LEMMA: a stop of the worker, of whichever kind, keeps every job's invariant.
LEMMA StopKeeps ==
  ASSUME IInv, Stop, NEW j \in Jobs
  PROVE  JobInv(j)'
<1> USE DEF IInv, TypeOK, bodyVars, producerVars
<1>1. run'[j] = "none" /\ UNCHANGED <<tries, result, escaped, meta, losses, work, producer, queue>>
  BY DEF Stop
<1>2. faults'[j] = IF run[j] \in Unraised THEN faults[j] + 1 ELSE faults[j]
  BY DEF Stop
<1>3. Lease(j)' /\ Quiet(j)' /\ Decision(j)' /\ Scope(j)'
  BY <1>1, JobSetsAssumption DEF JobInv, Lease, Quiet, Decision, Scope
<1>4. Tries(j)'
  BY <1>1, <1>2, MaxTriesAssumption DEF JobInv, Tries, Unraised, Quiet
<1>5. Fate(j)'
  BY <1>1 DEF JobInv, Fate
<1>6. Owed(j)'
  BY <1>1, <1>2, MaxTriesAssumption DEF JobInv, Owed, CleanedUp, Unraised, Quiet
<1> QED
  BY <1>3, <1>4, <1>5, <1>6 DEF JobInv

\* LEMMA: the invariant is inductive.
LEMMA Inductive == IInv /\ [Next]_vars => IInv'
<1> SUFFICES ASSUME IInv, [Next]_vars PROVE IInv'
  OBVIOUS
<1>1. TypeOK'
  BY TypeStep DEF IInv
<1> SUFFICES ASSUME NEW j \in Jobs PROVE JobInv(j)'
  BY <1>1 DEF IInv
<1>2. ASSUME NEW k \in Jobs, JobStep(k) PROVE JobInv(j)'
  BY <1>2, OwnStep, OthersStay, SameKeeps DEF IInv
<1>3. CASE Crash \/ Shutdown
  BY <1>3, StopKeeps DEF Crash, Shutdown
<1>4. CASE Restart
  <2>1. worker = "down" /\ run[j] = "none"
    BY <1>4 DEF Restart, IInv, JobInv, Lease
  <2>2. UNCHANGED <<producer, queue, meta, losses, tries, run, result, work, faults, escaped>>
    BY <1>4 DEF Restart, bodyVars, producerVars, ghostVars
  <2> QED
    BY <2>1, <2>2 DEF IInv, JobInv, Lease, Quiet, Decision, Tries, Scope, Fate, Owed, CleanedUp
<1>5. CASE UNCHANGED vars
  BY <1>5, SameKeeps DEF vars, Same, IInv
<1> QED
  BY <1>2, <1>3, <1>4, <1>5 DEF Next

LEMMA Initially == Init => IInv
<1> SUFFICES ASSUME Init PROVE IInv
  OBVIOUS
<1>1. TypeOK
  BY DEF Init, TypeOK, Phases, CounterFields
<1>2. ASSUME NEW j \in Jobs PROVE JobInv(j)
  BY DEF Init, JobInv, Lease, Quiet, Decision, Tries, Scope, Fate, Owed, Unraised
<1> QED
  BY <1>1, <1>2 DEF IInv

LEMMA Invariant == Spec => []IInv
  BY Initially, Inductive, PTL DEF Spec

\* THEOREM: a run always holds its lease, through crashes and restarts.
THEOREM Leases == Spec => []RunsAreLeased
<1>1. IInv => RunsAreLeased
  BY DEF IInv, JobInv, Lease, RunsAreLeased
<1> QED
  BY <1>1, Invariant, PTL

\* THEOREM: a plain job whose exceptions all went through the lifecycle fails
\* only after as many faults as it has tries, however many jobs there are and
\* however often the worker stops.
THEOREM NoTryIsWasted == Spec => []NoTryWasted
<1>1. IInv => NoTryWasted
  BY DEF IInv, JobInv, Tries, NoTryWasted
<1> QED
  BY <1>1, Invariant, PTL

\* THEOREM: a user scope once read is there until the work is done, or was removed for a
\* cause.
THEOREM ScopeSurvives == Spec => []ScopeSurvivesRetries
<1>1. IInv => ScopeSurvivesRetries
  <2> SUFFICES ASSUME IInv, NEW j \in ByApi, work[j] = "begun", j \notin meta
               PROVE  losses[j] \cap Removals # {}
    BY DEF ScopeSurvivesRetries
  <2>1. JobInv(j)
    BY JobSetsAssumption DEF IInv
  <2> QED
    BY <2>1 DEF JobInv, Scope, Fate
<1> QED
  BY <1>1, Invariant, PTL

\* THEOREM: a dispatched batch of a user loses its scope, or fails without its work, only
\* for a cause: for any jobs, tries, slots and stops.
THEOREM ScopeLossIsExplained == Spec => []ScopeLossExplained
<1>1. IInv => ScopeLossExplained
  <2> SUFFICES ASSUME IInv, NEW j \in ByApi
               PROVE  /\ producer[j] = "done" /\ j \notin meta =>
                           work[j] = "done" \/ losses[j] \cap Removals # {}
                      /\ "swept" \in losses[j] => losses[j] \cap Misreadings # {}
                      /\ result[j] = "failed" /\ j \notin escaped /\ losses[j] = {} =>
                           faults[j] >= MaxTries[j] \/ (work[j] = "done" /\ j \notin meta)
    BY DEF ScopeLossExplained
  <2>1. JobInv(j)
    BY JobSetsAssumption DEF IInv
  <2>2. Fate(j) /\ Owed(j)
    BY <2>1 DEF JobInv
  <2> QED
    BY <2>2 DEF Fate, Owed, CleanedUp
<1> QED
  BY <1>1, Invariant, PTL

-------------------------------------------------------------------------------
(* The counters.                                                             *)

scheduled(j) == counters[j]["retry_scheduled_total"]
completed(j) == counters[j]["queue_job_completed_total"]
failed(j) == counters[j]["queue_job_failed_total"]
exhausted(j) == counters[j]["retry_exhausted_total"]

\* A run that has not been counted yet under any outcome.
Uncounted == {"called", "working", "clearing", "returned", "unscoped", "raised"}

CountInv(j) ==
  /\ scheduled(j) + completed(j) + failed(j) + (IF run[j] \in Uncounted THEN 1 ELSE 0) <= tries[j]
  /\ failed(j) = 0 \/ (failed(j) = 1 /\ tries[j] >= MaxTries[j])
  /\ failed(j) = 1 => run[j] \in {"none", "exhausting", "failing"}
  /\ exhausted(j) <= failed(j)
  /\ exhausted(j) > 0 => MaxTries[j] > 1
  /\ run[j] = "exhausting" => exhausted(j) = 0 /\ failed(j) = 1 /\ MaxTries[j] > 1
  /\ run[j] = "succeeding" \/ result[j] = "ok" => completed(j) > 0

\* LEMMA: counting changes one counter of one job.
LEMMA CountEffect ==
  ASSUME TypeOK, NEW j \in Jobs, NEW f \in CounterFields, Count(j, f)
  PROVE  /\ counters'[j][f] = counters[j][f] + 1
         /\ \A g \in CounterFields \ {f} : counters'[j][g] = counters[j][g]
         /\ \A k \in Jobs \ {j} : counters'[k] = counters[k]
  BY DEF TypeOK, Count

\* LEMMA: the counters of the other jobs stay.
LEMMA OthersCounted ==
  ASSUME TypeOK, NEW j \in Jobs, NEW k \in Jobs, j # k, JobStep(k)
  PROVE  counters'[j] = counters[j]
<1>1. CASE Lifecycle(k)
  <2>1. PICK f \in CounterFields : Count(k, f)
    BY <1>1 DEF Lifecycle, ScheduleRetry, CountFailure, CountExhausted, CountCompleted, CounterFields
  <2> QED
    BY <2>1, CountEffect
<1>2. CASE ~Lifecycle(k)
  <2>1. UNCHANGED counters
    BY <1>2 DEF JobStep, Produce, Enqueue, StoreMetadata, DispatchFails, Pickup, TriesExceeded,
      Body, StartWork, ScopeMissing, ClearAndRaise, BodyRaises, WorkDone, ClearMetadata, Escape,
      Finish, FinishRetry, FinishJob, ExpireInProgress, ExpireMetadata
  <2> QED
    BY <2>1
<1> QED
  BY <1>1, <1>2

\* LEMMA: a step of a job keeps its counters truthful.
LEMMA OwnCounted ==
  ASSUME TypeOK, NEW j \in Jobs, JobInv(j), CountInv(j), JobStep(j)
  PROVE  CountInv(j)'
<1>0. /\ tries[j] \in Nat /\ MaxTries[j] \in Nat \ {0}
      /\ scheduled(j) \in Nat /\ completed(j) \in Nat /\ failed(j) \in Nat /\ exhausted(j) \in Nat
  BY MaxTriesAssumption DEF TypeOK, scheduled, completed, failed, exhausted, CounterFields
<1>1. CASE ScheduleRetry(j)
  <2>1. /\ run[j] = "raised" /\ run'[j] = "retrying" /\ UNCHANGED <<tries, result>>
        /\ Count(j, "retry_scheduled_total")
    BY <1>1 DEF ScheduleRetry, Phase, TypeOK
  <2>2. /\ scheduled(j)' = scheduled(j) + 1
        /\ UNCHANGED <<completed(j), failed(j), exhausted(j)>>
    BY <2>1, CountEffect DEF CounterFields, scheduled, completed, failed, exhausted
  <2> QED
    BY <1>0, <2>1, <2>2 DEF CountInv, Uncounted
<1>2. CASE CountFailure(j)
  <2>1. /\ run[j] = "raised" /\ UNCHANGED <<tries, result>>
        /\ run'[j] = IF MaxTries[j] > 1 THEN "exhausting" ELSE "failing"
        /\ ~HasTriesLeft(j)
        /\ Count(j, "queue_job_failed_total")
    BY <1>2 DEF CountFailure, Phase, TypeOK, Retryable
  <2>2. /\ failed(j)' = failed(j) + 1
        /\ UNCHANGED <<scheduled(j), completed(j), exhausted(j)>>
    BY <2>1, CountEffect DEF CounterFields, scheduled, completed, failed, exhausted
  <2>3. tries[j] >= MaxTries[j]
    <3>1. tries[j] \in 1..MaxTries[j]
      BY <2>1 DEF JobInv, Lease
    <3> QED
      BY ONLY <1>0, <2>1, <3>1 DEF HasTriesLeft, Retryable
  <2> QED
    BY <1>0, <2>1, <2>2, <2>3 DEF CountInv, Uncounted
<1>3. CASE CountExhausted(j)
  <2>1. /\ run[j] = "exhausting" /\ run'[j] = "failing" /\ UNCHANGED <<tries, result>>
        /\ Count(j, "retry_exhausted_total")
    BY <1>3 DEF CountExhausted, Phase, TypeOK
  <2>2. /\ exhausted(j)' = exhausted(j) + 1
        /\ UNCHANGED <<scheduled(j), completed(j), failed(j)>>
    BY <2>1, CountEffect DEF CounterFields, scheduled, completed, failed, exhausted
  <2> QED
    BY <1>0, <2>1, <2>2 DEF CountInv, Uncounted
<1>4. CASE CountCompleted(j)
  <2>1. /\ run[j] = "returned" /\ run'[j] = "succeeding" /\ UNCHANGED <<tries, result>>
        /\ Count(j, "queue_job_completed_total")
    BY <1>4 DEF CountCompleted, Phase, TypeOK
  <2>2. /\ completed(j)' = completed(j) + 1
        /\ UNCHANGED <<scheduled(j), failed(j), exhausted(j)>>
    BY <2>1, CountEffect DEF CounterFields, scheduled, completed, failed, exhausted
  <2> QED
    BY <1>0, <2>1, <2>2 DEF CountInv, Uncounted
<1>5. CASE Produce(j)
  <2>1. UNCHANGED counters
    BY <1>5 DEF Produce, Enqueue, StoreMetadata, DispatchFails
  <2>2. UNCHANGED <<run, tries, result>>
    BY <1>5 DEF Produce, Enqueue, StoreMetadata, DispatchFails, Phase, TypeOK, Uncounted
  <2>3. UNCHANGED <<scheduled(j), completed(j), failed(j), exhausted(j)>>
    BY <2>1 DEF scheduled, completed, failed, exhausted
  <2> QED
    BY <1>0, <2>2, <2>3 DEF CountInv, Uncounted
<1>6. CASE Pickup(j)
  <2>1. UNCHANGED counters
    BY <1>6 DEF Pickup
  <2>2. run[j] = "none" /\ run'[j] = "called" /\ tries[j] < MaxTries[j] /\ tries'[j] = tries[j] + 1 /\ UNCHANGED result
    BY <1>6 DEF Pickup, Phase, TypeOK, Uncounted
  <2>3. UNCHANGED <<scheduled(j), completed(j), failed(j), exhausted(j)>>
    BY <2>1 DEF scheduled, completed, failed, exhausted
  <2> QED
    BY <1>0, <2>2, <2>3 DEF CountInv, Uncounted
<1>7. CASE TriesExceeded(j)
  <2>1. UNCHANGED counters
    BY <1>7 DEF TriesExceeded
  <2>2. UNCHANGED run /\ tries'[j] = tries[j] + 1 /\ result'[j] = "failed"
    BY <1>7 DEF TriesExceeded, Phase, TypeOK, Uncounted
  <2>3. UNCHANGED <<scheduled(j), completed(j), failed(j), exhausted(j)>>
    BY <2>1 DEF scheduled, completed, failed, exhausted
  <2> QED
    BY <1>0, <2>2, <2>3 DEF CountInv, Uncounted
<1>8. CASE Body(j)
  <2>1. UNCHANGED counters
    BY <1>8 DEF Body, StartWork, ScopeMissing, ClearAndRaise, BodyRaises, WorkDone, ClearMetadata
  <2>2. run[j] \in Uncounted /\ run'[j] \in Uncounted /\ UNCHANGED <<tries, result>>
    BY <1>8 DEF Body, StartWork, ScopeMissing, ClearAndRaise, BodyRaises, WorkDone, ClearMetadata, Phase, TypeOK, Uncounted
  <2>3. UNCHANGED <<scheduled(j), completed(j), failed(j), exhausted(j)>>
    BY <2>1 DEF scheduled, completed, failed, exhausted
  <2> QED
    BY <1>0, <2>2, <2>3 DEF CountInv, Uncounted
<1>9. CASE Escape(j)
  <2>1. UNCHANGED counters
    BY <1>9 DEF Escape
  <2>2. run'[j] = "failing" /\ UNCHANGED <<tries, result>>
    BY <1>9 DEF Escape, Phase, TypeOK, Uncounted
  <2>3. UNCHANGED <<scheduled(j), completed(j), failed(j), exhausted(j)>>
    BY <2>1 DEF scheduled, completed, failed, exhausted
  <2> QED
    BY <1>0, <2>2, <2>3 DEF CountInv, Uncounted
<1>10. CASE Finish(j)
  <2>1. UNCHANGED counters
    BY <1>10 DEF Finish, FinishRetry, FinishJob
  <2>2. UNCHANGED tries /\ run'[j] = "none" /\ (result'[j] = "ok" => run[j] = "succeeding" \/ result[j] = "ok")
    BY <1>10 DEF Finish, FinishRetry, FinishJob, Phase, TypeOK, Uncounted
  <2>3. UNCHANGED <<scheduled(j), completed(j), failed(j), exhausted(j)>>
    BY <2>1 DEF scheduled, completed, failed, exhausted
  <2> QED
    BY <1>0, <2>2, <2>3 DEF CountInv, Uncounted
<1>11. CASE ExpireInProgress(j) \/ ExpireMetadata(j)
  <2>1. UNCHANGED counters
    BY <1>11 DEF ExpireInProgress, ExpireMetadata
  <2>2. UNCHANGED <<run, tries, result>>
    BY <1>11 DEF ExpireInProgress, ExpireMetadata, Phase, TypeOK, Uncounted
  <2>3. UNCHANGED <<scheduled(j), completed(j), failed(j), exhausted(j)>>
    BY <2>1 DEF scheduled, completed, failed, exhausted
  <2> QED
    BY <1>0, <2>2, <2>3 DEF CountInv, Uncounted
<1> QED
  BY <1>1, <1>2, <1>3, <1>4, <1>5, <1>6, <1>7, <1>8, <1>9, <1>10, <1>11 DEF JobStep, Lifecycle

CInv == IInv /\ \A j \in Jobs : CountInv(j)

\* LEMMA: the counters' invariant is inductive.
LEMMA CountInductive == CInv /\ [Next]_vars => CInv'
<1> SUFFICES ASSUME CInv, [Next]_vars PROVE CInv'
  OBVIOUS
<1>1. IInv'
  BY Inductive DEF CInv
<1> SUFFICES ASSUME NEW j \in Jobs PROVE CountInv(j)'
  BY <1>1 DEF CInv
<1>2. TypeOK /\ JobInv(j) /\ CountInv(j)
  BY DEF CInv, IInv
<1>3. ASSUME NEW k \in Jobs, JobStep(k), k # j PROVE CountInv(j)'
  <2>1. Same(j) /\ counters'[j] = counters[j]
    BY <1>2, <1>3, OthersStay, OthersCounted
  <2> QED
    BY <2>1, <1>2 DEF Same, CountInv, scheduled, completed, failed, exhausted
<1>4. CASE JobStep(j)
  BY <1>2, <1>4, OwnCounted
<1>5. CASE Crash \/ Shutdown
  <2>1. run'[j] = "none" /\ UNCHANGED <<tries, result, counters>>
    BY <1>5 DEF Crash, Shutdown, Stop
  <2>2. /\ tries[j] \in Nat
        /\ scheduled(j) \in Nat /\ completed(j) \in Nat /\ failed(j) \in Nat
    BY <1>2 DEF TypeOK, scheduled, completed, failed, CounterFields
  <2>3. UNCHANGED <<scheduled(j), completed(j), failed(j), exhausted(j)>>
    BY <2>1 DEF scheduled, completed, failed, exhausted
  <2> QED
    BY <1>2, <2>1, <2>2, <2>3 DEF CountInv, Uncounted
<1>6. CASE Restart \/ UNCHANGED vars
  <2>1. UNCHANGED <<run, tries, result, counters>>
    BY <1>6 DEF Restart, vars
  <2> QED
    BY <1>2, <2>1 DEF CountInv, scheduled, completed, failed, exhausted
<1> QED
  BY <1>3, <1>4, <1>5, <1>6 DEF Next

\* THEOREM: the lifecycle's counters never tell more than what happened.
THEOREM CountersAreTruthful == Spec => []CountersTruthful
<1>1. Init => CInv
  <2> SUFFICES ASSUME Init PROVE CInv
    OBVIOUS
  <2>1. ASSUME NEW j \in Jobs PROVE CountInv(j)
    <3>1. scheduled(j) = 0 /\ completed(j) = 0 /\ failed(j) = 0 /\ exhausted(j) = 0
      BY DEF Init, CounterFields, scheduled, completed, failed, exhausted
    <3>2. run[j] = "none" /\ tries[j] = 0 /\ result[j] = "none"
      BY DEF Init
    <3> QED
      BY <3>1, <3>2 DEF CountInv, Uncounted
  <2> QED
    BY <2>1, Initially DEF CInv
<1>2. CInv => CountersTruthful
  <2> SUFFICES ASSUME CInv, NEW j \in Jobs
               PROVE  /\ scheduled(j) + completed(j) + failed(j) <= tries[j]
                      /\ failed(j) <= 1
                      /\ failed(j) = 1 => tries[j] >= MaxTries[j]
                      /\ exhausted(j) <= failed(j)
                      /\ exhausted(j) > 0 => MaxTries[j] > 1
                      /\ result[j] = "ok" => completed(j) > 0
    BY DEF CountersTruthful, scheduled, completed, failed, exhausted
  <2>1. /\ tries[j] \in Nat
        /\ scheduled(j) \in Nat /\ completed(j) \in Nat /\ failed(j) \in Nat
    BY DEF CInv, IInv, TypeOK, scheduled, completed, failed, CounterFields
  <2> QED
    BY <2>1 DEF CInv, CountInv
<1> QED
  BY <1>1, <1>2, CountInductive, PTL DEF Spec

-------------------------------------------------------------------------------
(* The lane implements the ledger.                                           *)

States == [j \in Jobs |-> JobState(j)]
Attempts == [j \in Jobs |-> JobAttempts(j)]

\* LEMMA: a step of one job moves one entry of the ledger.
LEMMA OneEntry ==
  ASSUME TypeOK, TypeOK', NEW j \in Jobs, JobStep(j)
  PROVE  /\ States' = [States EXCEPT ![j] = JobState(j)']
         /\ Attempts' = [Attempts EXCEPT ![j] = JobAttempts(j)']
         /\ result' = [result EXCEPT ![j] = result'[j]]
<1>1. ASSUME NEW k \in Jobs, k # j
      PROVE  JobState(k)' = JobState(k) /\ JobAttempts(k)' = JobAttempts(k) /\ result'[k] = result[k]
  BY <1>1, OthersStay DEF Same, JobState, JobAttempts
<1>2. States' = [States EXCEPT ![j] = JobState(j)']
  BY <1>1 DEF States
<1>3. Attempts' = [Attempts EXCEPT ![j] = JobAttempts(j)']
  BY <1>1 DEF Attempts
<1>4. result' = [result EXCEPT ![j] = result'[j]]
  BY <1>1 DEF TypeOK
<1> QED
  BY <1>2, <1>3, <1>4

\* A step of one job as the ledger sees it.
Entry(j) ==
  \/ JobState(j)' = JobState(j) /\ JobAttempts(j)' = JobAttempts(j) /\ result'[j] = result[j]
  \/ JobState(j) = "absent" /\ JobState(j)' = "pending"
       /\ JobAttempts(j)' = JobAttempts(j) /\ result'[j] = result[j]
  \/ JobState(j) = "pending" /\ JobState(j)' = "running" /\ JobAttempts(j) < MaxTries[j]
       /\ JobAttempts(j)' = JobAttempts(j) + 1 /\ result'[j] = result[j]
  \/ JobState(j) = "running" /\ JobState(j)' = "pending" /\ JobAttempts(j) < MaxTries[j]
       /\ JobAttempts(j)' = JobAttempts(j) /\ result'[j] = result[j]
  \/ JobState(j) = "running" /\ JobState(j)' = "settled"
       /\ JobAttempts(j)' = JobAttempts(j) /\ result'[j] \in {"ok", "failed"}
  \/ JobState(j) = "pending" /\ JobState(j)' = "settled" /\ JobAttempts(j) = MaxTries[j]
       /\ JobAttempts(j)' = JobAttempts(j) /\ result'[j] = "failed"

\* LEMMA: every step of a job is a step of the ledger's, or none.
LEMMA StepIsEntry ==
  ASSUME TypeOK, NEW j \in Jobs, JobInv(j), JobStep(j)
  PROVE  Entry(j)
<1> USE DEF TypeOK, Phase, producerVars, Entry, JobState, JobAttempts
<1>0. tries[j] \in Nat /\ MaxTries[j] \in Nat \ {0}
  BY MaxTriesAssumption
<1>1. CASE Enqueue(j)
  <2>1. run[j] = "none" /\ result[j] = "none" /\ j \notin queue
    BY <1>1 DEF Enqueue, JobInv, Lease, Quiet
  <2> QED
    BY <1>1, <2>1 DEF Enqueue
<1>2. CASE StoreMetadata(j) \/ DispatchFails(j)
  BY <1>2 DEF StoreMetadata, DispatchFails
<1>3. CASE Pickup(j)
  <2>1. run[j] = "none" /\ result[j] = "none" /\ j \in queue
    BY <1>3 DEF Pickup, Available, JobInv, Quiet
  <2> QED
    BY <1>0, <1>3, <2>1 DEF Pickup
<1>4. CASE TriesExceeded(j)
  <2>1. run[j] = "none" /\ result[j] = "none" /\ j \in queue
    <3>1. j \in queue /\ j \notin inProgress
      BY <1>4 DEF TriesExceeded, Available
    <3> QED
      BY <3>1 DEF JobInv, Quiet, Lease
  <2>2. /\ tries[j] >= MaxTries[j] /\ tries'[j] = tries[j] + 1
        /\ result'[j] = "failed"
    BY <1>4 DEF TriesExceeded
  <2>3. JobState(j) = "pending" /\ JobState(j)' = "settled"
    BY <2>1, <2>2
  <2>4. JobAttempts(j) = MaxTries[j] /\ JobAttempts(j)' = MaxTries[j]
    BY ONLY <1>0, <2>2 DEF JobAttempts
  <2> QED
    BY ONLY <2>2, <2>3, <2>4 DEF Entry
<1>5. CASE Body(j) \/ Lifecycle(j) \/ Escape(j)
  <2>1. run[j] # "none" /\ run'[j] # "none" /\ UNCHANGED <<tries, result>>
    <3>1. CASE Body(j)
      BY <3>1 DEF Body, StartWork, ScopeMissing, ClearAndRaise, BodyRaises, WorkDone, ClearMetadata
    <3>2. CASE Lifecycle(j)
      BY <3>2 DEF Lifecycle, ScheduleRetry, CountFailure, CountExhausted, CountCompleted
    <3>3. CASE Escape(j)
      BY <3>3 DEF Escape
    <3> QED
      BY <1>5, <3>1, <3>2, <3>3
  <2> QED
    BY <2>1
<1>6. CASE FinishRetry(j)
  <2>1. result[j] = "none" /\ j \in queue /\ tries[j] < MaxTries[j]
    BY <1>6 DEF FinishRetry, JobInv, Lease, Decision
  <2> QED
    BY <1>0, <1>6, <2>1 DEF FinishRetry
<1>7. CASE FinishJob(j)
  <2>1. result[j] = "none"
    BY <1>7 DEF FinishJob, JobInv, Lease
  <2> QED
    BY <1>7, <2>1 DEF FinishJob
<1>8. CASE ExpireInProgress(j) \/ ExpireMetadata(j)
  BY <1>8 DEF ExpireInProgress, ExpireMetadata
<1> QED
  BY <1>1, <1>2, <1>3, <1>4, <1>5, <1>6, <1>7, <1>8 DEF JobStep, Produce, Finish

\* LEMMA: a stop of the worker interrupts the running attempts and no others.
LEMMA StopIsInterrupt ==
  ASSUME IInv, Stop
  PROVE  /\ States' = [j \in Jobs |-> IF States[j] = "running" THEN "pending" ELSE States[j]]
         /\ Attempts' = Attempts
         /\ result' = result
<1>1. run' = [j \in Jobs |-> "none"] /\ UNCHANGED <<queue, tries, result>>
  BY DEF Stop, producerVars
<1>2. ASSUME NEW j \in Jobs
      PROVE  JobState(j)' = IF JobState(j) = "running" THEN "pending" ELSE JobState(j)
  BY <1>1 DEF IInv, JobInv, Lease, JobState
<1>3. Attempts' = Attempts
  BY <1>1 DEF Attempts, JobAttempts
<1> QED
  BY <1>1, <1>2, <1>3 DEF States

\* THEOREM: the lane implements the ledger it promises.
THEOREM LaneImplementsLedger == Spec => ImplementsLedger
<1> USE DEF Ledger!ledgerVars, Ledger!LedgerNext
<1>1. Init => Ledger!LedgerInit
  BY MaxTriesAssumption DEF Init, Ledger!LedgerInit, JobState, JobAttempts
<1>2. ASSUME IInv, IInv', [Next]_vars
      PROVE  [Ledger!LedgerNext]_(Ledger!ledgerVars)
  <2>1. ASSUME NEW j \in Jobs, JobStep(j)
        PROVE  [Ledger!LedgerNext]_(Ledger!ledgerVars)
    <3>1. /\ States' = [States EXCEPT ![j] = JobState(j)']
          /\ Attempts' = [Attempts EXCEPT ![j] = JobAttempts(j)']
          /\ result' = [result EXCEPT ![j] = result'[j]]
      BY <1>2, <2>1, OneEntry DEF IInv
    <3>2. Entry(j)
      BY <1>2, <2>1, StepIsEntry DEF IInv
    <3>3. States[j] = JobState(j) /\ Attempts[j] = JobAttempts(j)
      BY DEF States, Attempts
    <3>4. CASE JobState(j)' = JobState(j) /\ JobAttempts(j)' = JobAttempts(j) /\ result'[j] = result[j]
      <4>a. result' = result
        BY <1>2, <3>1, <3>4 DEF IInv, TypeOK
      <4>b. Attempts' = Attempts
        BY <3>1, <3>3, <3>4 DEF Attempts
      <4>c. States' = States
        BY <3>1, <3>3, <3>4 DEF States
      <4>1. States' = States /\ Attempts' = Attempts /\ result' = result
        BY <4>a, <4>b, <4>c
      <4> QED
        BY <4>1 DEF States, Attempts
    <3>5. CASE JobState(j) = "absent" /\ JobState(j)' = "pending"
               /\ JobAttempts(j)' = JobAttempts(j) /\ result'[j] = result[j]
      <4>a. result' = result
        BY <1>2, <3>1, <3>5 DEF IInv, TypeOK
      <4>b. Attempts' = Attempts
        BY <3>1, <3>3, <3>5 DEF Attempts
      <4>1. Attempts' = Attempts /\ result' = result
        BY <4>a, <4>b
      <4>2. Ledger!Accept(j)
        BY <3>1, <3>3, <3>5, <4>1 DEF Ledger!Accept, States, Attempts
      <4> QED
        BY <4>2
    <3>6. CASE JobState(j) = "pending" /\ JobState(j)' = "running" /\ JobAttempts(j) < MaxTries[j]
               /\ JobAttempts(j)' = JobAttempts(j) + 1 /\ result'[j] = result[j]
      <4>1. result' = result
        BY <1>2, <3>1, <3>6 DEF IInv, TypeOK
      <4>2. Ledger!Attempt(j)
        BY <3>1, <3>3, <3>6, <4>1 DEF Ledger!Attempt, States, Attempts
      <4> QED
        BY <4>2
    <3>7. CASE JobState(j) = "running" /\ JobState(j)' = "pending" /\ JobAttempts(j) < MaxTries[j]
               /\ JobAttempts(j)' = JobAttempts(j) /\ result'[j] = result[j]
      <4>a. result' = result
        BY <1>2, <3>1, <3>7 DEF IInv, TypeOK
      <4>b. Attempts' = Attempts
        BY <3>1, <3>3, <3>7 DEF Attempts
      <4>1. Attempts' = Attempts /\ result' = result
        BY <4>a, <4>b
      <4>2. Ledger!TryAgain(j)
        BY <3>1, <3>3, <3>7, <4>1 DEF Ledger!TryAgain, States, Attempts
      <4> QED
        BY <4>2
    <3>8. CASE JobState(j) = "running" /\ JobState(j)' = "settled"
               /\ JobAttempts(j)' = JobAttempts(j) /\ result'[j] \in {"ok", "failed"}
      <4>1. Attempts' = Attempts
        BY <3>1, <3>3, <3>8 DEF Attempts
      <4>2. Ledger!Settle(j, result'[j])
        BY <3>1, <3>3, <3>8, <4>1 DEF Ledger!Settle, States, Attempts
      <4> QED
        BY <3>8, <4>2
    <3>9. CASE JobState(j) = "pending" /\ JobState(j)' = "settled" /\ JobAttempts(j) = MaxTries[j]
               /\ JobAttempts(j)' = JobAttempts(j) /\ result'[j] = "failed"
      <4>1. Attempts' = Attempts
        BY <3>1, <3>3, <3>9 DEF Attempts
      <4>2. Ledger!GiveUp(j)
        BY <3>1, <3>3, <3>9, <4>1 DEF Ledger!GiveUp, States, Attempts
      <4> QED
        BY <4>2
    <3> QED
      BY <3>2, <3>4, <3>5, <3>6, <3>7, <3>8, <3>9 DEF Entry
  <2>2. CASE Crash \/ Shutdown
    BY <1>2, <2>2, StopIsInterrupt DEF Crash, Shutdown, States, Attempts, Ledger!Interrupt
  <2>3. CASE Restart \/ UNCHANGED vars
    BY <2>3 DEF Restart, vars, producerVars, JobState, JobAttempts
  <2> QED
    BY <1>2, <2>1, <2>2, <2>3 DEF Next
<1> QED
  BY <1>1, <1>2, Invariant, PTL DEF Spec, ImplementsLedger, Ledger!LedgerSpec

\* THEOREM: a run keeps its lease and its scope, through crashes and retries.
THEOREM RunsKeepBoth == Spec => []RunsKeepLeaseAndScope
  BY Leases, ScopeSurvives, PTL DEF RunsKeepLeaseAndScope

\* THEOREM: tries and counters agree about what happened to a job.
THEOREM TriesStayCounted == Spec => []TriesAreCounted
  BY NoTryIsWasted, CountersAreTruthful, PTL DEF TriesAreCounted
===============================================================================

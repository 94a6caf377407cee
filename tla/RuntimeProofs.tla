----------------------------- MODULE RuntimeProofs -----------------------------
(***************************************************************************)
(* Proofs about the processes of MCRuntime: the metrics and the health of   *)
(* a worker, for any number of syncers and counters, any lifetimes and any  *)
(* queue; the health loop of the scheduler, for any queues, samples,        *)
(* intervals and faults; and its table of jobs, for any number of crashes   *)
(* and missed run times and waits of any length.                            *)
(*                                                                         *)
(* IInv says what every copy of the counters obeys, those that syncers hold *)
(* included.  BeatFades is the race of a heartbeat's lifetime with the time *)
(* a worker has been gone.  RoundInv says what each step of a health round  *)
(* owes to the alert stream and to the time the health key has left.        *)
(* TableInv compares the ages of the runs of a job with the time to its     *)
(* next run.                                                                *)
(***************************************************************************)
EXTENDS MCRuntime, FiniteSetTheorems, SequenceTheorems, TLAPS

-----------------------------------------------------------------------------
(* The counters in the metrics hash *)

\* LEMMA: the variables keep their types.
LEMMA TypeStep == TypeOK /\ [Next]_vars => TypeOK'
<1> SUFFICES ASSUME TypeOK, [Next]_vars PROVE TypeOK'
  OBVIOUS
<1> USE DEF TypeOK, Counters, Zero
<1>1. ASSUME NEW s \in Syncers, ReadCounters(s) \/ WriteBack(s) \/ SetExpiry(s) \/ Abandon(s)
      PROVE  TypeOK'
  BY <1>1 DEF ReadCounters, WriteBack, SetExpiry, Abandon
<1>2. ASSUME NEW f \in Fields, Increment(f) PROVE TypeOK'
  BY <1>2 DEF Increment
<1>3. CASE KeyLost
  BY <1>3 DEF KeyLost
<1>4. CASE UNCHANGED vars
  BY <1>4 DEF vars
<1> QED
  BY <1>1, <1>2, <1>3, <1>4 DEF Next

\* What every copy of the counters obeys, those held by syncers included.
Bounded ==
  /\ \A f \in Fields : hash[f] <= happened[f]
  /\ \A s \in Syncers, f \in Fields : seen[s][f] <= happened[f]

\* A reading nobody overtook is what the hash still holds.
Fresh ==
  disturbed = "no" =>
    /\ hash = happened
    /\ \A s \in Syncers : at[s] = "read" /\ s \notin stale => seen[s] = hash

IInv == TypeOK /\ Bounded /\ Fresh

\* LEMMA: the invariant is inductive.
LEMMA Inductive == IInv /\ [Next]_vars => IInv'
<1> SUFFICES ASSUME IInv, [Next]_vars PROVE IInv'
  OBVIOUS
<1>1. TypeOK'
  BY TypeStep DEF IInv
<1> USE DEF IInv, TypeOK, Counters, Zero
<1>2. Bounded'
  <2>1. ASSUME NEW s \in Syncers, ReadCounters(s) \/ WriteBack(s) \/ SetExpiry(s) \/ Abandon(s)
        PROVE  Bounded'
    BY <2>1 DEF Bounded, ReadCounters, WriteBack, SetExpiry, Abandon
  <2>2. ASSUME NEW f \in Fields, Increment(f) PROVE Bounded'
    <3>1. /\ hash'[f] = hash[f] + 1 /\ happened'[f] = happened[f] + 1 /\ seen' = seen
          /\ \A g \in Fields \ {f} : hash'[g] = hash[g] /\ happened'[g] = happened[g]
      BY <2>2 DEF Increment
    <3> QED
      BY <3>1 DEF Bounded
  <2>3. CASE KeyLost
    BY <2>3 DEF Bounded, KeyLost
  <2>4. CASE UNCHANGED vars
    BY <2>4 DEF Bounded, vars
  <2> QED
    BY <2>1, <2>2, <2>3, <2>4 DEF Next
<1>3. Fresh'
  <2>1. ASSUME NEW s \in Syncers, ReadCounters(s) \/ WriteBack(s) \/ SetExpiry(s) \/ Abandon(s)
        PROVE  Fresh'
    BY <2>1 DEF Fresh, ReadCounters, WriteBack, SetExpiry, Abandon
  <2>2. ASSUME NEW f \in Fields, Increment(f) PROVE Fresh'
    BY <2>2 DEF Fresh, Increment
  <2>3. CASE KeyLost
    BY <2>3 DEF Fresh, KeyLost
  <2>4. CASE UNCHANGED vars
    BY <2>4 DEF Fresh, vars
  <2> QED
    BY <2>1, <2>2, <2>3, <2>4 DEF Next
<1> QED
  BY <1>1, <1>2, <1>3

LEMMA Invariant == Spec => []IInv
<1>1. Init => IInv
  BY DEF Init, IInv, TypeOK, Bounded, Fresh, Counters, Zero
<1> QED
  BY <1>1, Inductive, PTL DEF Spec

\* THEOREM: the hash, the syncers' places and their copies keep their types.
THEOREM TypeCorrect == Spec => []TypeOK
<1>1. IInv => TypeOK
  BY DEF IInv
<1> QED
  BY <1>1, Invariant, PTL

\* THEOREM: no interleaving of syncers shows more than what was counted.
THEOREM CountersNeverOverstated == Spec => []NeverOverstated
<1>1. IInv => NeverOverstated
  BY DEF IInv, Bounded, NeverOverstated
<1> QED
  BY <1>1, Invariant, PTL

\* THEOREM: a count is lost only to a stale write-back or to expiry.
THEOREM LossesAreExplained == Spec => []LossesExplained
<1>1. IInv => LossesExplained
  BY DEF IInv, Fresh, LossesExplained
<1> QED
  BY <1>1, Invariant, PTL

-----------------------------------------------------------------------------
(* The health of the worker *)

\* LEMMA: a step of the worker, its queue or its clock keeps the invariant of the counters;
\* a worker that stops takes the round trips of all its hooks with it.
LEMMA CountersStep == IInv /\ [HealthNext]_allVars => IInv'
<1> SUFFICES ASSUME IInv, [HealthNext]_allVars PROVE IInv'
  OBVIOUS
<1>1. CASE [Next]_vars
  BY <1>1, Inductive
<1>2. CASE StopWorker
  <2>1. TypeOK'
    BY <1>2 DEF StopWorker, IInv, TypeOK
  <2>2. Bounded'
    BY <1>2 DEF StopWorker, IInv, Bounded
  <2>3. Fresh'
    BY <1>2 DEF StopWorker, IInv, Fresh, TypeOK
  <2> QED BY <2>1, <2>2, <2>3 DEF IInv
<1>3. [Next]_vars \/ StopWorker
  BY Zenon DEF HealthNext, allVars, Capture, StoreFields, Expire, LeaveSync, Count, JobArrives, JobLeaves,
         StartWorker, Beat, Tick, Next, vars
<1> QED BY <1>1, <1>2, <1>3

\* A running worker has not been gone at all; the last heartbeat of one that stopped
\* fades at least as fast as its absence grows.
BeatFades ==
  /\ beat = [queued |-> beat.queued, left |-> beat.left] /\ beat.left \in 0..BeatTtl
  /\ downFor \in Nat
  /\ up => downFor = 0
  /\ beat.left > 0 => downFor + beat.left <= BeatTtl

\* LEMMA: the race is kept by every step.
LEMMA FadingStep == BeatFades /\ [HealthNext]_allVars => BeatFades'
<1> SUFFICES ASSUME BeatFades, [HealthNext]_allVars PROVE BeatFades'
  OBVIOUS
<1> USE HealthAssumption DEF BeatFades
<1>1. CASE UNCHANGED <<up, beat, downFor>>
  BY <1>1
<1>2. CASE StartWorker
  BY <1>2 DEF StartWorker
<1>3. CASE StopWorker
  BY <1>3 DEF StopWorker
<1>4. CASE Beat
  BY <1>4 DEF Beat
<1>5. CASE Tick
  BY <1>5 DEF Tick
<1>6. UNCHANGED <<up, beat, downFor>> \/ StartWorker \/ StopWorker \/ Beat \/ Tick
  BY DEF HealthNext, allVars, healthVars, Capture, StoreFields, Expire, LeaveSync, Count, JobArrives, JobLeaves
<1> QED BY <1>1, <1>2, <1>3, <1>4, <1>5, <1>6

LEMMA HealthStart == HealthInit => IInv /\ BeatFades
<1>1. HealthInit => IInv
  BY DEF HealthInit, Init, IInv, TypeOK, Bounded, Fresh, Counters, Zero
<1>2. HealthInit => BeatFades
  BY HealthAssumption DEF HealthInit, BeatFades
<1> QED BY <1>1, <1>2

\* LEMMA: what the race means for the check of the worker's health.
LEMMA FadedIsSeen == BeatFades => DeathIsSeen
BY HealthAssumption DEF BeatFades, DeathIsSeen, Healthy

\* Of _check_worker: however the enqueuers keep the metrics hash of a worker alive, and
\* whatever it shows, a worker gone for longer than a heartbeat lives is not called healthy.
THEOREM DeathsAreSeen == HealthSpec => []DeathIsSeen
<1>1. HealthSpec => []BeatFades
  BY HealthStart, FadingStep, PTL DEF HealthSpec
<1> QED BY <1>1, FadedIsSeen, PTL

-----------------------------------------------------------------------------
(* The rounds of the scheduler *)

\* LEMMA: a round compares every scope, the overall one first.
LEMMA OrderIsComplete ==
  /\ Scheduler!Order \in Seq(Scheduler!Scopes)
  /\ \A scope \in Scheduler!Scopes : \E i \in 1..Len(Scheduler!Order) : Scheduler!Order[i] = scope
<1> DEFINE n == Cardinality(Queues)
           seq == Scheduler!SetToSeq(Queues)
<1>1. IsFiniteSet(Queues)
  BY SchedulerAssumption DEF Scheduler!RuntimeAssumption, Scheduler!IsFiniteSet, IsFiniteSet
<1>2. n \in Nat /\ ExistsBijection(1..n, Queues)
  BY <1>1, FS_CardinalityType
<1>3. \E f \in [1..n -> Queues] : Scheduler!IsInjective(f)
  BY <1>2, Zenon DEF ExistsBijection, Bijection, Injection, Surjection, IsInjective, Scheduler!IsInjective
<1>4. seq \in [1..n -> Queues] /\ Scheduler!IsInjective(seq)
  <2>1. Scheduler!Cardinality(Queues) = n
    BY DEF Scheduler!Cardinality, Cardinality
  <2>2. seq = CHOOSE f \in [1..n -> Queues] : Scheduler!IsInjective(f)
    BY <2>1, Zenon DEF Scheduler!SetToSeq
  <2> HIDE DEF seq
  <2> QED BY <1>3, <2>2, Zenon
<1> HIDE DEF seq
<1>5. \A q \in Queues : \E i \in 1..n : seq[i] = q
  <2> SUFFICES ASSUME NEW q \in Queues, \A i \in 1..n : seq[i] # q PROVE FALSE
    OBVIOUS
  <2>1. seq \in [1..n -> Queues \ {q}]
    BY <1>4
  <2>2. IsFiniteSet(Queues \ {q}) /\ Cardinality(Queues \ {q}) = n - 1
    BY <1>1, FS_RemoveElement
  <2>3. IsFiniteSet(1..n) /\ Cardinality(1..n) = n
    BY <1>2, FS_Interval
  <2>4. \E x, y \in 1..n : x # y /\ seq[x] = seq[y]
    BY <1>2, <2>1, <2>2, <2>3, FS_PigeonHole
  <2> QED BY <1>4, <2>4, Zenon DEF Scheduler!IsInjective
<1>6. seq \in Seq(Queues) /\ Len(seq) = n
  BY <1>2, <1>4
<1>7. Scheduler!Order = <<"overall">> \o seq
  BY DEF Scheduler!Order, seq
<1>8. <<"overall">> \in Seq(Scheduler!Scopes) /\ seq \in Seq(Scheduler!Scopes)
  BY <1>6 DEF Scheduler!Scopes
<1>9. /\ Scheduler!Order \in Seq(Scheduler!Scopes) /\ Len(Scheduler!Order) = n + 1
      /\ Scheduler!Order[1] = "overall"
      /\ \A i \in 1..n : Scheduler!Order[i + 1] = seq[i]
  BY <1>2, <1>6, <1>7, <1>8
<1>10. ASSUME NEW scope \in Scheduler!Scopes
       PROVE  \E i \in 1..Len(Scheduler!Order) : Scheduler!Order[i] = scope
  <2>1. CASE scope = "overall"
    BY <1>2, <1>9, <2>1
  <2>2. CASE scope \in Queues
    BY <1>2, <1>5, <1>9, <2>2
  <2> QED BY <2>1, <2>2 DEF Scheduler!Scopes
<1> QED BY <1>9, <1>10

RoundTypes ==
  /\ process \in {"down", "starting", "up"}
  /\ place \in {"none", "record", "keyed", "telling", "posting", "waiting", "dead"}
  /\ process = "up" => place # "none"
  /\ place \in {"record", "keyed", "telling", "posting", "waiting"} => process # "down"
  /\ key \in Nat /\ waiting \in Nat /\ posting \in Nat
  /\ DOMAIN told = Scheduler!Scopes

\* Since the key was written, all the time of a round and of the wait after it has been
\* taken off the key, and what the webhooks took is counted.
KeyLasts ==
  /\ place \in {"keyed", "telling", "posting"} => key + posting >= Scheduler!Ttl
  /\ place = "waiting" => key + posting >= Slack + waiting
  /\ place = "record" /\ process = "up" => key + posting >= Slack

Told(scope) == told[scope] = [from |-> stored[scope], to |-> current[scope]]
Ahead(scope) == \E i \in 1..Len(todo) : todo[i] = scope
\* What has changed since the stored state is told or still ahead.
ChangesTold ==
  place \in {"telling", "posting"} =>
      /\ previous = stored /\ todo \in Seq(Scheduler!Scopes)
      /\ stored = <<>> => todo = <<>>
      /\ stored # <<>> => \A scope \in Scheduler!Scopes :
             stored[scope] # current[scope] => Told(scope) \/ Ahead(scope)

RoundInv == RoundTypes /\ KeyLasts /\ ChangesTold

LEMMA RoundStart == Scheduler!Init => RoundInv
BY DEF Scheduler!Init, RoundInv, RoundTypes, KeyLasts, ChangesTold

\* LEMMA: taking the head off what is ahead leaves all the others ahead.
LEMMA TailKeeps ==
  ASSUME NEW S, NEW q \in Seq(S), q # <<>>
  PROVE  /\ Head(q) \in S /\ Tail(q) \in Seq(S)
         /\ \A x : x # Head(q) /\ (\E i \in 1..Len(q) : q[i] = x) =>
                \E i \in 1..Len(Tail(q)) : Tail(q)[i] = x
<1>1. Len(q) \in Nat /\ Len(q) > 0 /\ Head(q) = q[1] /\ Head(q) \in S /\ Tail(q) \in Seq(S)
  OBVIOUS
<1>2. Len(Tail(q)) = Len(q) - 1 /\ \A i \in 1..(Len(q) - 1) : Tail(q)[i] = q[i + 1]
  OBVIOUS
<1>3. ASSUME NEW x, x # Head(q), NEW i \in 1..Len(q), q[i] = x
      PROVE  \E j \in 1..Len(Tail(q)) : Tail(q)[j] = x
  <2>1. i # 1
    BY <1>1, <1>3
  <2>2. i - 1 \in 1..(Len(q) - 1) /\ q[(i - 1) + 1] = x
    BY <1>1, <1>3, <2>1
  <2>3. i - 1 \in 1..Len(Tail(q)) /\ Tail(q)[i - 1] = x
    BY <1>1, <1>2, <2>2
  <2> QED BY <2>3
<1> QED BY <1>1, <1>3

\* LEMMA: every step of the process, its rounds and the clock keeps the invariant.
LEMMA RoundStep == RoundInv /\ [Scheduler!Next]_schedulerVars => RoundInv'
<1> SUFFICES ASSUME RoundInv, [Scheduler!Next]_schedulerVars PROVE RoundInv'
  OBVIOUS
<1> USE SchedulerAssumption DEF Scheduler!RuntimeAssumption
<1>1. RoundTypes'
  <2> USE DEF RoundInv, RoundTypes, Scheduler!Ttl
  <2>1. CASE Scheduler!Start BY <2>1 DEF Scheduler!Start
  <2>2. CASE Scheduler!Stop BY <2>2 DEF Scheduler!Stop
  <2>3. CASE Scheduler!Crash BY <2>3 DEF Scheduler!Crash
  <2>4. CASE Scheduler!RoundFails BY <2>4 DEF Scheduler!RoundFails
  <2>5. CASE Scheduler!TakeSnapshot BY <2>5 DEF Scheduler!TakeSnapshot
  <2>6. CASE Scheduler!ReadState BY <2>6 DEF Scheduler!ReadState
  <2>7. CASE Scheduler!PassOver BY <2>7 DEF Scheduler!PassOver
  <2>8. CASE Scheduler!Tell BY <2>8 DEF Scheduler!Tell
  <2>9. CASE Scheduler!Posted BY <2>9 DEF Scheduler!Posted
  <2>10. CASE Scheduler!StoreState BY <2>10 DEF Scheduler!StoreState
  <2>11. CASE Scheduler!NextRound BY <2>11 DEF Scheduler!NextRound
  <2>12. CASE Scheduler!Tick BY <2>12 DEF Scheduler!Tick
  <2>13. CASE UNCHANGED schedulerVars BY <2>13 DEF schedulerVars
  <2> QED BY <2>1, <2>2, <2>3, <2>4, <2>5, <2>6, <2>7, <2>8, <2>9, <2>10, <2>11, <2>12, <2>13
          DEF Scheduler!Next, Scheduler!Round
<1>2. KeyLasts'
  <2> USE DEF RoundInv, RoundTypes, KeyLasts, Scheduler!Ttl
  <2>1. CASE Scheduler!Start BY <2>1 DEF Scheduler!Start
  <2>2. CASE Scheduler!Stop BY <2>2 DEF Scheduler!Stop
  <2>3. CASE Scheduler!Crash BY <2>3 DEF Scheduler!Crash
  <2>4. CASE Scheduler!RoundFails BY <2>4 DEF Scheduler!RoundFails
  <2>5. CASE Scheduler!TakeSnapshot BY <2>5 DEF Scheduler!TakeSnapshot
  <2>6. CASE Scheduler!ReadState BY <2>6 DEF Scheduler!ReadState
  <2>7. CASE Scheduler!PassOver BY <2>7 DEF Scheduler!PassOver
  <2>8. CASE Scheduler!Tell BY <2>8 DEF Scheduler!Tell
  <2>9. CASE Scheduler!Posted BY <2>9 DEF Scheduler!Posted
  <2>10. CASE Scheduler!StoreState BY <2>10 DEF Scheduler!StoreState
  <2>11. CASE Scheduler!NextRound BY <2>11 DEF Scheduler!NextRound
  <2>12. CASE Scheduler!Tick BY <2>12 DEF Scheduler!Tick
  <2>13. CASE UNCHANGED schedulerVars BY <2>13 DEF schedulerVars
  <2> QED BY <2>1, <2>2, <2>3, <2>4, <2>5, <2>6, <2>7, <2>8, <2>9, <2>10, <2>11, <2>12, <2>13
          DEF Scheduler!Next, Scheduler!Round
<1>3. ChangesTold'
  <2> USE DEF RoundInv, RoundTypes, ChangesTold
  <2>1. CASE /\ place' \in {"telling", "posting"} => place \in {"telling", "posting"}
             /\ UNCHANGED <<previous, stored, told, todo, current>>
    BY <2>1 DEF Told, Ahead
  <2>2. CASE place' \notin {"telling", "posting"}
    BY <2>2
  <2>3. CASE Scheduler!ReadState
    <3>1. /\ previous' = stored /\ stored' = stored /\ current' = current
          /\ todo' = IF stored = <<>> THEN <<>> ELSE Scheduler!Order
      BY <2>3 DEF Scheduler!ReadState
    <3> QED BY <3>1, OrderIsComplete DEF Ahead
  <2>4. CASE Scheduler!PassOver
    <3>1. /\ place = "telling" /\ todo # <<>> /\ todo' = Tail(todo)
          /\ previous[Head(todo)] = current[Head(todo)]
          /\ UNCHANGED <<previous, stored, told, current>>
      BY <2>4 DEF Scheduler!PassOver, Scheduler!Changed
    <3>2. stored # <<>> /\ todo \in Seq(Scheduler!Scopes)
      BY <3>1
    <3>3. /\ Head(todo) \in Scheduler!Scopes /\ Tail(todo) \in Seq(Scheduler!Scopes)
          /\ \A scope : scope # Head(todo) /\ (\E i \in 1..Len(todo) : todo[i] = scope) =>
                 \E i \in 1..Len(Tail(todo)) : Tail(todo)[i] = scope
      BY <3>1, <3>2, TailKeeps, Zenon
    <3>4. /\ stored # <<>> /\ todo' \in Seq(Scheduler!Scopes)
          /\ \A scope : scope # Head(todo) /\ Ahead(scope) => Ahead(scope)'
          /\ Head(todo) \in Scheduler!Scopes
      BY <3>1, <3>2, <3>3 DEF Ahead
    <3>5. \A scope \in Scheduler!Scopes : stored[scope] # current[scope] => Told(scope)' \/ Ahead(scope)'
      BY <3>1, <3>4 DEF Told
    <3> QED BY <3>1, <3>4, <3>5
  <2>5. CASE Scheduler!Tell
    <3>1. /\ place = "telling" /\ todo # <<>> /\ todo' = Tail(todo)
          /\ told' = [told EXCEPT ![Head(todo)] =
                         [from |-> previous[Head(todo)], to |-> current[Head(todo)]]]
          /\ UNCHANGED <<previous, stored, current>>
      BY <2>5 DEF Scheduler!Tell
    <3>2. stored # <<>> /\ todo \in Seq(Scheduler!Scopes)
      BY <3>1
    <3>3. /\ Head(todo) \in Scheduler!Scopes /\ Tail(todo) \in Seq(Scheduler!Scopes)
          /\ \A scope : scope # Head(todo) /\ (\E i \in 1..Len(todo) : todo[i] = scope) =>
                 \E i \in 1..Len(Tail(todo)) : Tail(todo)[i] = scope
      BY <3>1, <3>2, TailKeeps, Zenon
    <3>4. /\ stored # <<>> /\ todo' \in Seq(Scheduler!Scopes)
          /\ \A scope : scope # Head(todo) /\ Ahead(scope) => Ahead(scope)'
          /\ Head(todo) \in Scheduler!Scopes
      BY <3>1, <3>2, <3>3 DEF Ahead
    <3>5. \A scope \in Scheduler!Scopes : stored[scope] # current[scope] => Told(scope)' \/ Ahead(scope)'
      BY <3>1, <3>4 DEF Told
    <3> QED BY <3>1, <3>4, <3>5
  <2> QED BY <2>1, <2>2, <2>3, <2>4, <2>5 DEF Scheduler!Next, Scheduler!Round, Scheduler!Start,
        Scheduler!Stop, Scheduler!Crash, Scheduler!RoundFails, Scheduler!TakeSnapshot, Scheduler!Posted,
        Scheduler!StoreState, Scheduler!NextRound, Scheduler!Tick, schedulerVars
<1> QED BY <1>1, <1>2, <1>3 DEF RoundInv

\* LEMMA: what the invariant means for the health check and for the state that is stored.
LEMMA RoundsTell ==
  /\ RoundInv => Scheduler!AlarmsAreExplained
  /\ RoundInv /\ [Scheduler!Next]_schedulerVars =>
         \A scope \in Scheduler!Scopes :
             stored # <<>> /\ stored' # stored /\ stored'[scope] # stored[scope] =>
                 told[scope] = [from |-> stored[scope], to |-> stored'[scope]]
<1>1. ASSUME RoundInv PROVE Scheduler!AlarmsAreExplained
  BY <1>1, SchedulerAssumption DEF Scheduler!RuntimeAssumption, RoundInv, RoundTypes, KeyLasts,
       Scheduler!AlarmsAreExplained, Scheduler!Healthy, Scheduler!Ttl
<1>2. ASSUME RoundInv, [Scheduler!Next]_schedulerVars, stored # <<>>, stored' # stored,
             NEW scope \in Scheduler!Scopes, stored'[scope] # stored[scope]
      PROVE  told[scope] = [from |-> stored[scope], to |-> stored'[scope]]
  <2>1. Scheduler!StoreState
    BY <1>2 DEF Scheduler!Next, Scheduler!Round, Scheduler!Start, Scheduler!Stop, Scheduler!Crash,
         Scheduler!RoundFails, Scheduler!TakeSnapshot, Scheduler!ReadState, Scheduler!PassOver,
         Scheduler!Tell, Scheduler!Posted, Scheduler!NextRound, Scheduler!Tick, schedulerVars
  <2>2. place = "telling" /\ todo = <<>> /\ stored' = current
    BY <2>1 DEF Scheduler!StoreState
  <2>3. ~Ahead(scope)
    BY <2>2 DEF Ahead
  <2> QED BY <1>2, <2>2, <2>3 DEF RoundInv, ChangesTold, Told
<1> QED BY <1>1, <1>2

\* Of record_queue_telemetry and _check_scheduler: whenever Redis fails or the scheduler is
\* stopped or killed, no level is forgotten before its change was the last thing the alert
\* stream said of it; and a scheduler whose loop runs is called unhealthy only after its
\* webhooks have used up the slack of the health key.
THEOREM AlarmsAlwaysHold == Scheduler!Spec => AlarmsHold
<1>1. RoundInv /\ [Scheduler!Next]_(Scheduler!vars) => RoundInv'
  BY RoundStep DEF schedulerVars, Scheduler!vars
<1>2. RoundInv => Scheduler!AlarmsAreExplained
  BY RoundsTell
<1>3. RoundInv /\ [Scheduler!Next]_(Scheduler!vars) =>
        [\A s \in Scheduler!Scopes :
             stored # <<>> /\ stored' # stored /\ stored'[s] # stored[s] =>
                 told[s] = [from |-> stored[s], to |-> stored'[s]]]_(Scheduler!vars)
  BY RoundsTell DEF schedulerVars, Scheduler!vars
<1>4. Scheduler!Spec => []RoundInv
  BY <1>1, RoundStart, PTL DEF Scheduler!Spec
<1>5. Scheduler!Spec => Scheduler!StoredMeansTold
  BY <1>3, <1>4, PTL DEF Scheduler!Spec, Scheduler!StoredMeansTold
<1> QED BY <1>2, <1>4, <1>5, PTL DEF AlarmsHold, Scheduler!AlarmsHold

-----------------------------------------------------------------------------
(* The table of jobs *)

\* LEMMA: the waits of one and of two failed tries.
LEMMA Waits == Waited[0] = 0 /\ Waited[1] = 30 /\ Waited[2] = 90
<1> DEFINE Is(f) == f = [n \in Nat |-> IF n = 0 THEN 0 ELSE f[n - 1] + retry_delay_seconds(n)]
           Sum(n) == CASE n = 0 -> 0 [] n = 1 -> 30 [] n = 2 -> 90 [] n = 3 -> 210
                       [] OTHER -> 450 + 300 * (n - 4)
           g == [n \in Nat |-> Sum(n)]
<1>1. Is(g)
  <2> DEFINE Step(n) == IF n = 0 THEN 0 ELSE g[n - 1] + retry_delay_seconds(n)
  <2>1. ASSUME NEW n \in Nat PROVE Sum(n) = Step(n)
    <3>1. CASE n = 0
      BY <3>1
    <3>2. CASE n \in 1..4
      BY <3>2 DEF retry_delay_seconds
    <3>3. CASE n > 4
      <4>1. n - 1 \in Nat /\ n - 1 >= 4
        BY <3>3
      <4>2. g[n - 1] = 450 + 300 * (n - 5)
        BY <4>1, <3>3
      <4>3. retry_delay_seconds(n) = 300
        BY <3>3 DEF retry_delay_seconds
      <4> QED
        BY <3>3, <4>2, <4>3
    <3> QED
      BY <3>1, <3>2, <3>3
  <2>2. g = [n \in Nat |-> Step(n)]
    <3> HIDE DEF Sum, Step
    <3> QED
      BY <2>1
  <2> QED
    BY <2>2
<1>2. Is(Waited)
  <2>1. Waited = CHOOSE f : Is(f)
    BY Zenon DEF Waited
  <2> HIDE DEF Is, g
  <2> QED
    BY <1>1, <2>1, Zenon
<1> HIDE DEF g
<1>3. \A n \in Nat : Waited[n] = IF n = 0 THEN 0 ELSE Waited[n - 1] + retry_delay_seconds(n)
  BY <1>2, Zenon
<1>4. Waited[0] = 0
  BY <1>3
<1>5. Waited[1] = Waited[0] + retry_delay_seconds(1)
  BY <1>3
<1>6. Waited[2] = Waited[1] + retry_delay_seconds(2)
  BY <1>3
<1> QED
  BY <1>4, <1>5, <1>6 DEF retry_delay_seconds

\* LEMMA: the tries of a job, the waits between them and the rounding to half-hours
\* included, work for two hours at most.
LEMMA TriesFit == \A j \in JobNames : Deadline[j] \in 1..4
<1> USE DEF Deadline, Delays, Tries, NameOf, JobNames, REGISTERED_JOBS, Job
<1>1. /\ Deadline["scheduled_scrape"] = 3 /\ Deadline["target_batch_career_page"] = 3
      /\ Deadline["target_batch_watchlist"] = 3
  BY Waits
<1>2. /\ Deadline["enrichment_batch"] = 4 /\ Deadline["embedding_batch"] = 4
      /\ Deadline["tfidf_scoring"] = 3
  BY Waits
<1>3. /\ Deadline["cleanup"] = 2 /\ Deadline["source_health"] = 2
      /\ Deadline["auto_apply_batch"] = 2
  BY Waits
<1>4. /\ Deadline["saved_search_alerts"] = 2 /\ Deadline["staleness_sweep"] = 2
      /\ Deadline["phase7a_source_health"] = 2
  BY Waits
<1>5. /\ Deadline["followup_reminders"] = 2 /\ Deadline["daily_digest"] = 3
      /\ Deadline["gmail_sync"] = 3
  BY Waits
<1> HIDE DEF Deadline
<1> QED
  BY <1>1, <1>2, <1>3, <1>4, <1>5

\* LEMMA: the jobs with an interval are the registered ones, with up to a day each.
LEMMA Intervals ==
  /\ DOMAIN Scheduled = JobNames
  /\ Scheduled \in [JobNames -> 1..48]
BY DEF Scheduled, JobNames, REGISTERED_JOBS

Runs == [age : Nat, worked : Nat]

\* The time since the last dispatch and the time to the next run make up an interval; and
\* runs that are not over were dispatched an interval apart.
Spaced(j) ==
  /\ \A r \in runs[j] : r.worked < Deadline[j] /\ r.age + left[j] >= Scheduled[j]
  /\ \A r, q \in runs[j] : q.age < r.age => r.age - q.age >= Scheduled[j]
TableInv ==
  /\ left \in [JobNames -> 1..48] /\ runs \in [JobNames -> SUBSET Runs]
  /\ \A j \in JobNames : left[j] <= Scheduled[j] /\ Spaced(j)

\* LEMMA: the invariant holds at the start.
LEMMA TableStart == ScheduleInit => TableInv
<1> SUFFICES ASSUME ScheduleInit PROVE TableInv
  OBVIOUS
<1>1. left = Scheduled /\ runs = [j \in JobNames |-> {}]
  BY DEF ScheduleInit
<1>2. ASSUME NEW j \in JobNames PROVE left[j] <= Scheduled[j] /\ Spaced(j)
  <2>1. runs[j] = {}
    BY <1>1
  <2> QED
    BY <1>1, <2>1, Intervals DEF Spaced
<1> QED
  BY <1>1, <1>2, Intervals DEF TableInv

\* LEMMA: a half-hour later, each run of a job is one of before that has become older, or
\* it was dispatched just now.
LEMMA Passes ==
  ASSUME TableInv, NEW S \in SUBSET JobNames, Pass(S)
  PROVE  /\ runs' \in [JobNames -> SUBSET Runs]
         /\ \A j \in JobNames : \A q \in runs'[j] :
              /\ q.worked < Deadline[j]
              /\ \/ q.age = 0 /\ j \in S
                 \/ \E r \in runs[j] : q.age = r.age + 1
<1>1. runs' = [j \in JobNames |-> {q \in {Later(j, r) : r \in runs[j]} : ~IsOver(j, q)}
                                   \cup (IF j \in S THEN {Run(0, 0)} ELSE {})]
  BY DEF Pass
<1>2. ASSUME NEW j \in JobNames, NEW q \in runs'[j]
      PROVE  /\ q \in Runs /\ q.worked < Deadline[j]
             /\ \/ q.age = 0 /\ j \in S
                \/ \E r \in runs[j] : q.age = r.age + 1
  <2>0. Deadline[j] \in 1..4
    BY TriesFit
  <2>1. CASE j \in S /\ q = Run(0, 0)
    BY <2>0, <2>1 DEF Run, Runs
  <2>2. ASSUME NEW r \in runs[j], q = Later(j, r), ~IsOver(j, q)
        PROVE  /\ q \in Runs /\ q.worked < Deadline[j] /\ q.age = r.age + 1
    <3>1. r \in Runs
      BY DEF TableInv
    <3>2. r.age \in Nat /\ r.worked \in Nat
      BY <3>1 DEF Runs
    <3>3. q = [age |-> r.age + 1, worked |-> IF j \in late THEN r.worked ELSE r.worked + 1]
      BY <2>2 DEF Later, Run
    <3>4. q \in Runs /\ q.age = r.age + 1 /\ q.worked \in Nat
      BY <3>2, <3>3 DEF Runs
    <3> QED
      BY <2>0, <2>2, <3>4 DEF IsOver
  <2>3. \/ j \in S /\ q = Run(0, 0)
        \/ \E r \in runs[j] : q = Later(j, r) /\ ~IsOver(j, q)
    <3>1. q \in {o \in {Later(j, r) : r \in runs[j]} : ~IsOver(j, o)}
                \cup (IF j \in S THEN {Run(0, 0)} ELSE {})
      BY <1>1, <1>2
    <3> QED
      BY <3>1
  <2> QED
    BY <2>1, <2>2, <2>3
<1>3. runs' \in [JobNames -> SUBSET Runs]
  <2>1. \A j \in JobNames : runs'[j] \in SUBSET Runs
    BY <1>2
  <2> HIDE DEF Runs
  <2> QED
    BY <1>1, <2>1
<1> QED
  BY <1>2, <1>3

\* LEMMA: a half-hour brings every run time closer, or it has come and the job is
\* dispatched or not; no job is dispatched at another time.
LEMMA Rewinds ==
  ASSUME TableInv, NEW S \in SUBSET JobNames, Pass(S),
         (left' = left /\ S = {}) \/ (Rewind /\ S \subseteq Due)
  PROVE  TableInv'
<1>0. left \in [JobNames -> 1..48] /\ runs \in [JobNames -> SUBSET Runs]
  BY DEF TableInv
<1>1. /\ runs' \in [JobNames -> SUBSET Runs]
      /\ \A j \in JobNames : \A q \in runs'[j] :
           /\ q.worked < Deadline[j]
           /\ \/ q.age = 0 /\ j \in S
              \/ \E r \in runs[j] : q.age = r.age + 1
  BY Passes
<1>2. \A j \in JobNames :
        /\ left'[j] = left[j] \/ left'[j] = Scheduled[j] \/ left'[j] = left[j] - 1
        /\ j \notin S => left'[j] >= left[j] - 1
        /\ j \in S => left[j] = 1 /\ left'[j] = Scheduled[j]
        /\ left[j] = 1 => left'[j] >= 1
  BY <1>0, Intervals DEF Rewind, Due
<1>3. left' \in [JobNames -> 1..48]
  <2>1. ASSUME NEW j \in JobNames PROVE left'[j] \in 1..48
    BY <1>0, <1>2, Intervals
  <2>2. left' = [j \in JobNames |-> left'[j]]
    BY <1>0 DEF Rewind
  <2> QED
    BY <2>1, <2>2
<1>4. ASSUME NEW j \in JobNames PROVE left'[j] <= Scheduled[j] /\ Spaced(j)'
  <2>1. /\ left[j] \in 1..48 /\ Scheduled[j] \in 1..48 /\ left[j] <= Scheduled[j]
        /\ left'[j] \in 1..48
    BY <1>0, <1>3, Intervals DEF TableInv
  <2>2. \A r \in runs[j] : r.age \in Nat /\ r.age + left[j] >= Scheduled[j]
    BY <1>0 DEF Runs, TableInv, Spaced
  <2>3. \A r, p \in runs[j] : p.age < r.age => r.age - p.age >= Scheduled[j]
    BY DEF TableInv, Spaced
  <2>4. ASSUME NEW q \in runs'[j]
        PROVE  q.worked < Deadline[j] /\ q.age + left'[j] >= Scheduled[j]
    <3>1. q.worked < Deadline[j]
      BY <1>1
    <3>2. q.age \in Nat
      BY <1>1, <2>2
    <3>3. CASE j \in S
      BY <1>2, <2>1, <3>1, <3>2, <3>3
    <3>4. CASE j \notin S
      <4>1. PICK r \in runs[j] : q.age = r.age + 1
        BY <1>1, <3>4
      <4>2. left'[j] >= left[j] - 1
        BY <1>2, <3>4
      <4>3. r.age \in Nat /\ r.age + left[j] >= Scheduled[j]
        BY <2>2
      <4>4. \A age \in Nat, a, b, n \in 1..48 :
              age + a >= n /\ b >= a - 1 => age + 1 + b >= n
        OBVIOUS
      <4>5. q.age + left'[j] >= Scheduled[j]
        BY <2>1, <4>1, <4>2, <4>3, <4>4
      <4> QED
        BY <3>1, <4>5
    <3> QED
      BY <3>3, <3>4
  <2>5. ASSUME NEW r \in runs'[j], NEW q \in runs'[j], q.age < r.age
        PROVE  r.age - q.age >= Scheduled[j]
    <3>1. PICK p \in runs[j] : r.age = p.age + 1
      BY <1>1, <2>2, <2>5
    <3>2. CASE q.age = 0 /\ j \in S
      BY <1>2, <2>1, <2>2, <3>1, <3>2
    <3>3. CASE \E o \in runs[j] : q.age = o.age + 1
      BY <2>2, <2>3, <2>5, <3>1, <3>3
    <3> QED
      BY <1>1, <3>2, <3>3
  <2> QED
    BY <1>2, <2>1, <2>4, <2>5 DEF Spaced
<1> QED
  BY <1>1, <1>3, <1>4 DEF TableInv

\* LEMMA: the invariant is inductive.
LEMMA TableStep == TableInv /\ [ScheduleNext]_scheduleVars => TableInv'
<1> SUFFICES ASSUME TableInv, [ScheduleNext]_scheduleVars PROVE TableInv'
  OBVIOUS
<1>1. CASE create_scheduler
  <2>1. left' = Scheduled /\ runs' = runs
    BY <1>1 DEF create_scheduler
  <2>2. ASSUME NEW j \in JobNames PROVE left'[j] <= Scheduled[j] /\ Spaced(j)'
    <3>1. Scheduled[j] \in 1..48 /\ left[j] <= Scheduled[j] /\ left[j] \in 1..48
      BY Intervals DEF TableInv
    <3>2. \A r \in runs[j] : r.age \in Nat
      BY DEF TableInv, Runs
    <3> QED
      BY <2>1, <3>1, <3>2 DEF TableInv, Spaced
  <2> QED
    BY <2>1, <2>2, Intervals DEF TableInv
<1>2. CASE HalfHour
  <2>1. Rewind /\ Pass(Due \cap JobNames)
    BY <1>2 DEF HalfHour
  <2> QED
    BY <2>1, Rewinds
<1>3. ASSUME NEW D, Misfire(D) PROVE TableInv'
  <2>1. Rewind /\ Pass((Due \ D) \cap JobNames)
    BY <1>3 DEF Misfire
  <2> QED
    BY <2>1, Rewinds
<1>4. CASE Down
  <2>1. left' = left /\ Pass({})
    BY <1>4 DEF Down
  <2> QED
    BY <2>1, Rewinds
<1>5. CASE left' = left /\ runs' = runs
  BY <1>5 DEF TableInv, Spaced
<1>6. CASE CrashScheduler \/ GoOn \/ (\E H \in Held : HoldUp(H)) \/ UNCHANGED scheduleVars
  BY <1>5, <1>6 DEF CrashScheduler, GoOn, HoldUp, scheduleVars
<1> QED
  BY <1>1, <1>2, <1>3, <1>4, <1>6 DEF ScheduleNext

(***************************************************************************)
(* However often the scheduler crashes, is restarted or misses run times,   *)
(* and whatever waits for how long: two runs of a job under way were        *)
(* dispatched its interval apart, and the earlier has been held up for what *)
(* its tries leave of the interval, and more.                               *)
(***************************************************************************)
THEOREM RunsAlwaysStayApart == ScheduleSpec => []RunsStayApart
<1>1. TableInv => RunsStayApart
  <2> SUFFICES ASSUME TableInv, NEW j \in JobNames, NEW r \in runs[j], NEW q \in runs[j],
                      q.age < r.age
               PROVE  /\ r.age - q.age >= Scheduled[j]
                      /\ HeldUp(r) > Scheduled[j] - Deadline[j]
    BY DEF RunsStayApart
  <2>1. r.age \in Nat /\ q.age \in Nat /\ r.worked \in Nat /\ r.worked < Deadline[j]
    BY DEF TableInv, Spaced, Runs
  <2>2. r.age - q.age >= Scheduled[j]
    BY DEF TableInv, Spaced
  <2>3. Deadline[j] \in 1..4 /\ Scheduled[j] \in 1..48
    BY TriesFit, Intervals
  <2> QED
    BY <2>1, <2>2, <2>3 DEF HeldUp
<1> QED BY <1>1, TableStart, TableStep, PTL DEF ScheduleSpec

-----------------------------------------------------------------------------
(* The processes together *)

\* LEMMA: worker, scheduler and table each run as specified, or not at all.
LEMMA RuntimePartsRun == MCSpec => HealthSpec /\ Scheduler!Spec /\ ScheduleSpec
<1>1. MCInit => HealthInit /\ Scheduler!Init /\ ScheduleInit
  BY DEF MCInit
<1>2. ASSUME [MCNext]_mcVars
      PROVE  /\ [HealthNext]_allVars /\ [Scheduler!Next]_(Scheduler!vars)
             /\ [ScheduleNext]_scheduleVars
  <2> USE DEF schedulerVars, Scheduler!vars, scheduleVars
  <2>1. CASE UNCHANGED <<allVars, schedulerVars, scheduleVars>>
    BY <2>1
  <2>2. CASE HealthNext /\ UNCHANGED <<schedulerVars, scheduleVars>>
    BY <2>2
  <2>3. CASE Scheduler!Next /\ UNCHANGED <<allVars, scheduleVars>>
    BY <2>3
  <2>4. CASE ScheduleNext /\ UNCHANGED <<allVars, schedulerVars>>
    BY <2>4
  <2> QED BY <1>2, <2>1, <2>2, <2>3, <2>4 DEF MCNext, mcVars, InScheduler, InTimes
<1> QED BY <1>1, <1>2, PTL DEF MCSpec, HealthSpec, Scheduler!Spec, ScheduleSpec

\* The three keep what the run checks of them: losses of counts are explained, deaths are
\* seen, the alarms hold and runs of one job meet only after a wait that accounts for it,
\* for any syncers, queues, lifetimes, faults and waits.
THEOREM RuntimeHolds ==
  MCSpec => [](LossesExplained /\ NeverOverstated /\ DeathIsSeen /\ RunsStayApart) /\ AlarmsHold
<1>1. HealthSpec => []IInv
  BY HealthStart, CountersStep, PTL DEF HealthSpec
<1>2. IInv => LossesExplained /\ NeverOverstated
  BY DEF IInv, Fresh, Bounded, LossesExplained, NeverOverstated
<1> QED BY <1>1, <1>2, RuntimePartsRun, DeathsAreSeen, AlarmsAlwaysHold, RunsAlwaysStayApart, PTL
===================================================================================

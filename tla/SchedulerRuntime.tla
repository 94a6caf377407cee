----------------------------- MODULE SchedulerRuntime -----------------------------
(***********************************************************************************)
(* The scheduler process and its health record (runtime/scheduler.py), and the      *)
(* queue telemetry each record ends with (runtime/telemetry.py).                     *)
(*                                                                                  *)
(* A round of the health loop takes a snapshot of every queue, writes the health    *)
(* key with a TTL, reads the alert state stored by the last round, appends one      *)
(* entry to the alert stream for every scope whose level changed, posts each entry  *)
(* to a webhook, stores the new state and waits.  Of the stream only the last       *)
(* entry of each scope is kept here; the samples of the telemetry stream and the     *)
(* jobs APScheduler starts are left out.                                             *)
(*                                                                                  *)
(* Time passes in ticks, only while somebody waits: for the interval, for the       *)
(* webhook or for a restart.  Redis round trips take none.                           *)
(***********************************************************************************)
EXTENDS Naturals, Sequences, FiniteSets, SequencesExt

CONSTANTS
    Queues,        \* the queues that are watched
    Samples,       \* the <<depth, age>> pairs a queue may show
    Interval,      \* ticks between two rounds
    Slack,         \* how much longer than the interval the health key lives
    WebhookTimeout,\* ticks after which a webhook that does not answer is given up
    MaxFaults      \* bound: faults, crashes and stops

\* Assumed of the constants by the module that instantiates this one.
RuntimeAssumption ==
    /\ Interval \in Nat \ {0} /\ Slack \in Nat \ {0} /\ WebhookTimeout \in Nat
    /\ IsFiniteSet(Queues)

VARIABLES
    process,   \* "down", "starting" (the first round), "up"
    at,        \* where the round is; "dead" when an exception has ended the loop
    marker,    \* the ready file
    key,       \* ticks the health key has to live, 0 when there is none
    current,   \* the state of this round's snapshot
    todo,      \* the scopes of this round still to be compared
    previous,  \* the state read in this round
    stored,    \* the hash of the last stored state, <<>> when there is none
    told,      \* the last entry of the alert stream for each scope
    left,      \* ticks until the webhook answers or the interval is over
    posting,   \* history: ticks spent on webhooks since the key was written
    faults     \* history: faults, crashes and stops so far

vars == <<process, at, marker, key, current, todo, previous, stored, told, left, posting,
          faults>>

Scopes == Queues \cup {"overall"}
Order == <<"overall">> \o SetToSeq(Queues)
Ttl == Interval + Slack
NoEntry == <<>>

Init ==
    /\ process = "down" /\ at = "none" /\ marker = FALSE /\ key = 0
    /\ current = <<>> /\ todo = <<>> /\ previous = <<>> /\ stored = <<>>
    /\ told = [s \in Scopes |-> NoEntry] /\ left = 0 /\ posting = 0 /\ faults = 0

-----------------------------------------------------------------------------------
(* What a snapshot of a queue is called (runtime/queue_state.py): its pressure by   *)
(* its depth, its alert by pressure and the age of its oldest job, and the worst of  *)
(* several queues.                                                                   *)

\* QUEUE_PRESSURE_THRESHOLDS: elevated, saturated; QUEUE_ALERT_AGE_THRESHOLDS_SECONDS:
\* watch, stalled.
DepthThresholds ==
    [scraping |-> <<10, 25>>, analysis |-> <<20, 50>>, ops |-> <<5, 15>>]
AgeThresholds ==
    [scraping |-> <<300, 1200>>, analysis |-> <<180, 900>>, ops |-> <<120, 600>>]

classify_queue_pressure(queue, depth) ==
    CASE depth >= DepthThresholds[queue][2] -> "saturated"
      [] depth >= DepthThresholds[queue][1] /\ depth < DepthThresholds[queue][2] -> "elevated"
      [] OTHER -> "nominal"

classify_queue_alert(queue, pressure, age) ==
    CASE age >= AgeThresholds[queue][2] -> "stalled"
      [] age < AgeThresholds[queue][2] /\ pressure = "saturated" -> "backlog"
      [] /\ age < AgeThresholds[queue][2] /\ pressure # "saturated"
         /\ pressure = "elevated" \/ age >= AgeThresholds[queue][1] -> "watch"
      [] OTHER -> "clear"

\* The worst of a set of levels, by a list that begins with the worst.
derive_overall_pressure(ps) ==
    IF "saturated" \in ps THEN "saturated" ELSE IF "elevated" \in ps THEN "elevated" ELSE "nominal"
derive_overall_alert(as) ==
    IF "stalled" \in as THEN "stalled"
    ELSE IF "backlog" \in as THEN "backlog" ELSE IF "watch" \in as THEN "watch" ELSE "clear"

Level(queue, depth, age) ==
    LET pressure == classify_queue_pressure(queue, depth)
    IN  [pressure |-> pressure, alert |-> classify_queue_alert(queue, pressure, age)]

\* _current_state_mapping: the level of each queue and the one of all together.
StateOf(queues, levels) ==
    [scope \in queues \cup {"overall"} |->
        IF scope = "overall"
        THEN [pressure |-> derive_overall_pressure({levels[q].pressure : q \in queues}),
              alert    |-> derive_overall_alert({levels[q].alert : q \in queues})]
        ELSE levels[scope]]

-----------------------------------------------------------------------------------
(* The process *)

\* The dependencies answer, APScheduler runs, the marker is written, a first round begins.
Start ==
    /\ process = "down"
    /\ process' = "starting" /\ at' = "record" /\ marker' = TRUE
    /\ UNCHANGED <<key, current, todo, previous, stored, told, left, posting, faults>>

\* What a round knows is gone when it ends.
Forget == current' = <<>> /\ previous' = <<>> /\ todo' = <<>>

\* SIGTERM, once its handler is installed: the loop is cancelled wherever it waits, the
\* marker and the key are removed.  Removing the key may fail; the process ends anyway.
Stop ==
    /\ process = "up" /\ faults < MaxFaults /\ faults' = faults + 1
    /\ process' = "down" /\ at' = "none" /\ marker' = FALSE
    /\ key' \in {0, key}
    /\ Forget /\ left' = 0 /\ UNCHANGED <<stored, told, posting>>

\* The process is killed: nothing is cleaned up.
Crash ==
    /\ process # "down" /\ faults < MaxFaults /\ faults' = faults + 1
    /\ process' = "down" /\ at' = "none"
    /\ Forget /\ left' = 0 /\ UNCHANGED <<marker, key, stored, told, posting>>

\* Redis fails in the middle of a round: in the first round the exception ends the
\* process, later it ends the loop's task, which nobody looks at before the stop.
RoundFails ==
    /\ at \in {"record", "keyed", "telling"} /\ faults < MaxFaults /\ faults' = faults + 1
    /\ IF process = "starting" THEN process' = "down" /\ at' = "none"
                               ELSE process' = process /\ at' = "dead"
    /\ Forget /\ UNCHANGED <<marker, key, stored, told, left, posting>>

-----------------------------------------------------------------------------------
(* A round: _record_health, then record_queue_telemetry *)

TakeSnapshot ==
    /\ at = "record" /\ at' = "keyed"
    /\ \E sample \in [Queues -> Samples] :
           current' = StateOf(Queues, [q \in Queues |-> Level(q, sample[q][1], sample[q][2])])
    /\ key' = Ttl /\ posting' = 0
    /\ UNCHANGED <<process, marker, todo, previous, stored, told, left, faults>>

\* Mutant: the new state is stored before its changes are told.
ReadState_storing ==
    /\ at = "keyed" /\ at' = "telling"
    /\ previous' = stored /\ stored' = current
    /\ todo' = IF stored = <<>> THEN <<>> ELSE Order
    /\ UNCHANGED <<process, marker, key, current, told, left, posting, faults>>
\* With no stored state, the first time ever, nothing is a change.
ReadState ==
    /\ at = "keyed" /\ at' = "telling"
    /\ previous' = stored
    /\ todo' = IF stored = <<>> THEN <<>> ELSE Order
    /\ UNCHANGED <<process, marker, key, current, stored, told, left, posting, faults>>

Changed(scope) == previous[scope] # current[scope]
PassOver ==
    /\ at = "telling" /\ todo # <<>> /\ ~Changed(Head(todo))
    /\ todo' = Tail(todo)
    /\ UNCHANGED <<process, at, marker, key, current, previous, stored, told, left, posting,
                   faults>>

\* _publish_alert_transition: the entry first, then the webhook, which takes its time.
Tell ==
    /\ at = "telling" /\ todo # <<>> /\ Changed(Head(todo))
    /\ told' = [told EXCEPT ![Head(todo)] =
                    [from |-> previous[Head(todo)], to |-> current[Head(todo)]]]
    /\ todo' = Tail(todo)
    /\ at' = "posting" /\ left' \in 0..WebhookTimeout
    /\ UNCHANGED <<process, marker, key, current, previous, stored, posting, faults>>

\* Mutant: a webhook that fails fails the round.
Posted_strict ==
    /\ at = "posting" /\ left = 0 /\ at' \in {"telling", "dead"}
    /\ UNCHANGED <<process, marker, key, current, todo, previous, stored, told, left, posting,
                   faults>>
\* The webhook's answer, failure or timeout: all the same to the round.
Posted ==
    /\ at = "posting" /\ left = 0 /\ at' = "telling"
    /\ UNCHANGED <<process, marker, key, current, todo, previous, stored, told, left, posting,
                   faults>>

\* The first round is followed at once by the loop's own.
StoreState ==
    /\ at = "telling" /\ todo = <<>>
    /\ stored' = current
    /\ IF process = "starting" THEN process' = "up" /\ at' = "record" /\ left' = 0
                               ELSE process' = process /\ at' = "waiting" /\ left' = Interval
    /\ Forget /\ UNCHANGED <<marker, key, told, posting, faults>>

NextRound ==
    /\ at = "waiting" /\ left = 0 /\ at' = "record"
    /\ UNCHANGED <<process, marker, key, current, todo, previous, stored, told, left, posting,
                   faults>>

Tick ==
    /\ \/ at \in {"waiting", "posting"} /\ left > 0
       \/ at \in {"none", "dead"} /\ key > 0
    /\ key' = IF key > 0 THEN key - 1 ELSE 0
    /\ left' = IF left > 0 THEN left - 1 ELSE 0
    /\ posting' = IF at = "posting" THEN posting + 1 ELSE posting
    /\ UNCHANGED <<process, at, marker, current, todo, previous, stored, told, faults>>

Round == TakeSnapshot \/ ReadState \/ PassOver \/ Tell \/ Posted \/ StoreState \/ NextRound
Next == Start \/ Stop \/ Crash \/ RoundFails \/ Round \/ Tick

Spec == Init /\ [][Next]_vars
\* The event loop runs what is ready, clocks go on, and compose restarts the container.
FairSpec == Spec /\ WF_vars(Start) /\ WF_vars(Round) /\ WF_vars(Tick)

-----------------------------------------------------------------------------------
(* Properties *)

\* What the scheduler's health check accepts: the key is there.
Healthy == key > 0

\* The stored state never moves on from a level without the move being the last thing
\* the alert stream says of that scope, through crashes, stops and failing rounds.
StoredMeansTold ==
    [][\A s \in Scopes :
          stored # <<>> /\ stored' # stored /\ stored'[s] # stored[s]
              => told[s] = [from |-> stored[s], to |-> stored'[s]]]_vars

\* A scheduler whose loop runs is reported unhealthy only when its webhooks have used
\* up the slack of the key's TTL since it was written.
AlarmsAreExplained ==
    process = "up" /\ at # "dead" /\ ~Healthy => posting >= Slack

\* Unless Redis fails or somebody ends the process, the health record is written again
\* and again, whatever the webhook does.
HeartbeatGoesOn == []<>(at = "keyed") \/ <>(faults > 0)

\* Alarms and the health check tell the truth about the queues and the loop.
AlarmsHold == []AlarmsAreExplained /\ StoredMeansTold
===================================================================================

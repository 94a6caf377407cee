---------------------------- MODULE WorkerMetrics ----------------------------
(***************************************************************************)
(* The Redis hash of one worker role.  The lifecycle adds to a counter with *)
(* HINCRBY; enqueuers and the worker's start-up and job hooks refresh the   *)
(* queue fields, and write back the counters they read a round trip ago.    *)
(***************************************************************************)
EXTENDS Naturals

CONSTANTS
  Syncers,    \* enqueuers and hooks that may be in sync_worker_queue_metrics
  Fields,     \* COUNTER_FIELDS
  KeyExpires, \* whether the key may outlive its TTL (no health traffic)
  MaxEvents   \* bound: events of each kind counted

VARIABLES
  hash,      \* the counters in Redis, 0 when the field is absent
  ttl,       \* the key has a TTL
  at,        \* how far each syncer is
  seen,      \* the counters each syncer read
  happened,  \* the events that were really counted (history)
  stale,     \* syncers that were overtaken by an increment (history)
  disturbed  \* a stale syncer wrote back, or the key expired (history)

vars == <<hash, ttl, at, seen, happened, stale, disturbed>>

Counters == [Fields -> Nat]
Zero == [f \in Fields |-> 0]

TypeOK ==
  /\ hash \in Counters
  /\ ttl \in {"none", "set"}
  /\ at \in [Syncers -> {"idle", "read", "written"}]
  /\ seen \in [Syncers -> Counters]
  /\ happened \in Counters
  /\ stale \subseteq Syncers
  /\ disturbed \in {"no", "yes"}

Init ==
  /\ hash = Zero
  /\ ttl = "none"
  /\ at = [s \in Syncers |-> "idle"]
  /\ seen = [s \in Syncers |-> Zero]
  /\ happened = Zero
  /\ stale = {}
  /\ disturbed = "no"

\* _get_counter_values: one HMGET.
ReadCounters(s) ==
  /\ at[s] = "idle"
  /\ at' = [at EXCEPT ![s] = "read"]
  /\ seen' = [seen EXCEPT ![s] = hash]
  /\ stale' = stale \ {s}
  /\ UNCHANGED <<hash, ttl, happened, disturbed>>

\* Mutant: the mapping is written without the counters that were read.
WriteBack_reset(s) ==
  /\ at[s] = "read"
  /\ at' = [at EXCEPT ![s] = "written"]
  /\ hash' = Zero
  /\ disturbed' = IF s \in stale THEN "yes" ELSE disturbed
  /\ UNCHANGED <<ttl, seen, happened, stale>>

\* The HSET of the whole mapping, counters included.
WriteBack(s) ==
  /\ at[s] = "read"
  /\ at' = [at EXCEPT ![s] = "written"]
  /\ hash' = seen[s]
  /\ disturbed' = IF s \in stale THEN "yes" ELSE disturbed
  /\ UNCHANGED <<ttl, seen, happened, stale>>

SetExpiry(s) ==
  /\ at[s] = "written"
  /\ at' = [at EXCEPT ![s] = "idle"]
  /\ ttl' = "set"
  /\ UNCHANGED <<hash, seen, happened, stale, disturbed>>

\* The syncer fails or dies between two of its round trips.
Abandon(s) ==
  /\ at[s] # "idle"
  /\ at' = [at EXCEPT ![s] = "idle"]
  /\ UNCHANGED <<hash, ttl, seen, happened, stale, disturbed>>

\* increment_worker_counter: HINCRBY is atomic.
Increment(f) ==
  /\ happened[f] < MaxEvents
  /\ happened' = [happened EXCEPT ![f] = @ + 1]
  /\ hash' = [hash EXCEPT ![f] = @ + 1]
  /\ ttl' = "set"
  /\ stale' = Syncers
  /\ UNCHANGED <<at, seen, disturbed>>

\* Nobody refreshed the TTL of max(4 * interval, 60) seconds in time.
KeyLost ==
  /\ KeyExpires /\ ttl = "set"
  /\ hash' = Zero
  /\ ttl' = "none"
  /\ disturbed' = "yes"
  /\ UNCHANGED <<at, seen, happened, stale>>

Next ==
  \/ \E s \in Syncers : ReadCounters(s) \/ WriteBack(s) \/ SetExpiry(s) \/ Abandon(s)
  \/ \E f \in Fields : Increment(f)
  \/ KeyLost

Spec == Init /\ [][Next]_vars

-------------------------------------------------------------------------------
\* The dashboard never shows more than what happened, whatever the overlap of
\* read-modify-write cycles, increments and expiry.
NeverOverstated == \A f \in Fields : hash[f] <= happened[f]

\* Counts are lost in two ways only: a syncer that writes back what it read
\* before an increment, or the expiry of the key.
LossesExplained == disturbed = "no" => hash = happened
===============================================================================

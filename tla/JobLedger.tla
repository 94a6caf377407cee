------------------------------ MODULE JobLedger ------------------------------
(***************************************************************************)
(* What a queue lane promises to whoever enqueues a job, with no word about *)
(* Redis keys, workers or metadata: an accepted job is attempted at most    *)
(* MaxTries times, goes back to the queue only when an attempt failed with  *)
(* tries to spare or was interrupted, and is settled once and for all.      *)
(* JobQueue implements this specification.                                  *)
(***************************************************************************)
EXTENDS Naturals

CONSTANTS
  Jobs,      \* the jobs ever enqueued
  MaxTries   \* RegisteredJob.max_tries of each job

VARIABLES
  state,     \* where each job stands
  attempts,  \* how often its runner has been called
  verdict    \* how it was settled

ledgerVars == <<state, attempts, verdict>>

LedgerTypeOK ==
  /\ state \in [Jobs -> {"absent", "pending", "running", "settled"}]
  /\ attempts \in [Jobs -> Nat]
  /\ verdict \in [Jobs -> {"none", "ok", "failed"}]

LedgerInit ==
  /\ state = [j \in Jobs |-> "absent"]
  /\ attempts = [j \in Jobs |-> 0]
  /\ verdict = [j \in Jobs |-> "none"]

Accept(j) ==
  /\ state[j] = "absent"
  /\ state' = [state EXCEPT ![j] = "pending"]
  /\ UNCHANGED <<attempts, verdict>>

Attempt(j) ==
  /\ state[j] = "pending"
  /\ attempts[j] < MaxTries[j]
  /\ state' = [state EXCEPT ![j] = "running"]
  /\ attempts' = [attempts EXCEPT ![j] = @ + 1]
  /\ UNCHANGED verdict

\* A failed attempt goes back to the queue only while a try remains.
TryAgain(j) ==
  /\ state[j] = "running"
  /\ attempts[j] < MaxTries[j]
  /\ state' = [state EXCEPT ![j] = "pending"]
  /\ UNCHANGED <<attempts, verdict>>

\* A crash or a shutdown of the worker interrupts every running attempt.
Interrupt ==
  /\ \E j \in Jobs : state[j] = "running"
  /\ state' = [j \in Jobs |-> IF state[j] = "running" THEN "pending" ELSE state[j]]
  /\ UNCHANGED <<attempts, verdict>>

Settle(j, v) ==
  /\ state[j] = "running"
  /\ state' = [state EXCEPT ![j] = "settled"]
  /\ verdict' = [verdict EXCEPT ![j] = v]
  /\ UNCHANGED attempts

\* An interrupted last attempt leaves a job nobody may attempt again.
GiveUp(j) ==
  /\ state[j] = "pending"
  /\ attempts[j] = MaxTries[j]
  /\ state' = [state EXCEPT ![j] = "settled"]
  /\ verdict' = [verdict EXCEPT ![j] = "failed"]
  /\ UNCHANGED attempts

LedgerNext ==
  \/ \E j \in Jobs : \/ Accept(j) \/ Attempt(j) \/ TryAgain(j) \/ GiveUp(j)
                     \/ \E v \in {"ok", "failed"} : Settle(j, v)
  \/ Interrupt

LedgerSpec == LedgerInit /\ [][LedgerNext]_ledgerVars
==============================================================================

------------------------------- MODULE SourceGate --------------------------------
(***********************************************************************************)
(* The gate before a source of jobs (scraping/rate_limiter.py): a circuit breaker   *)
(* that admits a caller, a token bucket behind an asyncio lock that makes it wait,   *)
(* and the retries around a call.  ScrapingService.run_scrape goes through the same  *)
(* gate with one try.                                                                *)
(*                                                                                  *)
(* Time is counted in ticks.  A token takes Period ticks, and the bucket is counted  *)
(* in the ticks its content has taken, so that nothing is divided.  Timers may fire  *)
(* late: no action is ever due.                                                      *)
(***********************************************************************************)
EXTENDS Naturals, Sequences, SequencesExt

CONSTANTS
    Callers,
    Period,      \* ticks for one token: 1 / rate
    Capacity,    \* ticks the full bucket has taken: burst times Period
    Threshold, Timeout,   \* of the breaker
    MaxRetries, BackoffBase,
    MaxTime      \* bound

ASSUME GateAssumption ==
    /\ Period \in Nat \ {0} /\ Capacity \in Nat /\ Capacity >= Period
    /\ Threshold \in Nat \ {0} /\ Timeout \in Nat
    /\ MaxRetries \in Nat /\ BackoffBase \in Nat /\ MaxTime \in Nat

VARIABLES
    now,       \* the clock
    tokens,    \* what the bucket holds
    lastTime,  \* when it was filled last
    waiting,   \* the callers in line for the lock
    breaker,   \* [state, failures, since]: since is last_failure_time
    caller,    \* [at, attempt, since] of each caller: since is when its try failed
    taken      \* history: ticks' worth of tokens granted

gateVars == <<now, tokens, lastTime, waiting, breaker, caller, taken>>

Places == {"idle", "start", "queued", "sleeping", "calling", "backoff"}
Fresh == [at |-> "idle", attempt |-> 0, since |-> 0]

GateInit ==
    /\ now = 0 /\ tokens = Capacity /\ lastTime = 0 /\ waiting = <<>>
    /\ breaker = [state |-> "closed", failures |-> 0, since |-> 0]
    /\ caller = [c \in Callers |-> Fresh] /\ taken = 0

At(c, place) == caller[c].at = place
Move(c, place) == caller' = [caller EXCEPT ![c].at = place]
Leave(c) == caller' = [caller EXCEPT ![c] = Fresh]
LockIsFree == \A c \in Callers : ~At(c, "sleeping")

-----------------------------------------------------------------------------------
(* The breaker *)

Recovered == now - breaker.since >= Timeout
CanExecute == breaker.state # "open" \/ Recovered

Begin(c) == At(c, "idle") /\ Move(c, "start")
            /\ UNCHANGED <<now, tokens, lastTime, waiting, breaker, taken>>

\* can_execute: an open breaker turns half-open after its timeout, and then lets
\* everybody through.
Admit(c) ==
    /\ At(c, "start") /\ CanExecute
    /\ breaker' = IF breaker.state = "open" THEN [breaker EXCEPT !.state = "half-open"] ELSE breaker
    /\ Move(c, "queued") /\ waiting' = Append(waiting, c)
    /\ UNCHANGED <<now, tokens, lastTime, taken>>

\* CircuitOpenError, or the source is skipped.
Refuse(c) ==
    /\ At(c, "start") /\ ~CanExecute /\ Leave(c)
    /\ UNCHANGED <<now, tokens, lastTime, waiting, breaker, taken>>

\* Mutant: the breaker opens on the failure that reaches the threshold, and on no later one.
Failed_once ==
    [state |-> IF breaker.failures + 1 = Threshold THEN "open" ELSE breaker.state,
     failures |-> breaker.failures + 1, since |-> now]
Failed ==
    [state |-> IF breaker.failures + 1 >= Threshold THEN "open" ELSE breaker.state,
     failures |-> breaker.failures + 1, since |-> now]

-----------------------------------------------------------------------------------
(* The bucket *)

AtMost(a, b) == IF a <= b THEN a ELSE b
Filled == AtMost(Capacity, tokens + (now - lastTime))

\* The lock is free: the bucket is filled, and the caller takes a token ...
Take(c) ==
    /\ waiting # <<>> /\ Head(waiting) = c /\ LockIsFree /\ Filled >= Period
    /\ waiting' = Tail(waiting)
    /\ lastTime' = now /\ tokens' = Filled - Period /\ taken' = taken + Period
    /\ Move(c, "calling") /\ UNCHANGED <<now, breaker>>

\* ... or keeps the lock and sleeps for what is missing.
Sleep(c) ==
    /\ waiting # <<>> /\ Head(waiting) = c /\ LockIsFree /\ Filled < Period
    /\ waiting' = Tail(waiting)
    /\ lastTime' = now /\ tokens' = Filled
    /\ Move(c, "sleeping") /\ UNCHANGED <<now, breaker, taken>>

\* Nobody else touches the bucket while the lock is held.
Rested == now >= lastTime + (Period - tokens)

\* The bucket is emptied, but the time slept is not taken off: last_time stays.
Wake(c) ==
    /\ At(c, "sleeping") /\ Rested
    /\ tokens' = 0 /\ taken' = taken + Period /\ Move(c, "calling")
    /\ UNCHANGED <<now, lastTime, waiting, breaker>>

\* The job's timeout cancels a caller where it awaits something.  A sleeper gives the
\* lock back, and the breaker never hears of a call that is cut off.
Cancel(c) ==
    /\ \/ /\ caller[c].at \in {"sleeping", "calling", "backoff"} /\ UNCHANGED waiting
       \/ \E i \in DOMAIN waiting : waiting[i] = c /\ waiting' = RemoveAt(waiting, i)
    /\ Leave(c) /\ UNCHANGED <<now, tokens, lastTime, breaker, taken>>

-----------------------------------------------------------------------------------
(* The call *)

Succeed(c) ==
    /\ At(c, "calling") /\ Leave(c)
    /\ breaker' = [breaker EXCEPT !.failures = 0, !.state = "closed"]
    /\ UNCHANGED <<now, tokens, lastTime, waiting, taken>>

Fail(c) ==
    /\ At(c, "calling")
    /\ breaker' = Failed
    /\ IF caller[c].attempt < MaxRetries
       THEN caller' = [caller EXCEPT ![c] = [at |-> "backoff", attempt |-> @.attempt + 1,
                                             since |-> now]]
       ELSE Leave(c)
    /\ UNCHANGED <<now, tokens, lastTime, waiting, taken>>

Retry(c) ==
    /\ At(c, "backoff")
    /\ now >= caller[c].since + BackoffBase * 2^(caller[c].attempt - 1)
    /\ Move(c, "start") /\ UNCHANGED <<now, tokens, lastTime, waiting, breaker, taken>>

TimeGoesOn ==
    /\ now < MaxTime /\ now' = now + 1
    /\ UNCHANGED <<tokens, lastTime, waiting, breaker, caller, taken>>

GateNext ==
    \/ \E c \in Callers :
           \/ Begin(c) \/ Admit(c) \/ Refuse(c) \/ Take(c) \/ Sleep(c) \/ Wake(c)
           \/ Cancel(c) \/ Succeed(c) \/ Fail(c) \/ Retry(c)
    \/ TimeGoesOn

GateSpec == GateInit /\ [][GateNext]_gateVars

-----------------------------------------------------------------------------------
(* Properties *)

GateTypeOK ==
    /\ now \in Nat /\ tokens \in 0..Capacity /\ lastTime \in Nat /\ taken \in Nat
    /\ waiting \in Seq(Callers)
    /\ breaker \in [state : {"closed", "open", "half-open"}, failures : Nat, since : Nat]
    /\ caller \in [Callers -> [at : Places, attempt : Nat, since : Nat]]

\* However callers wait, are cancelled and come back, the bucket grants no more than its
\* burst and twice the rate: a sleeper's time is credited a second time, but no more often.
GrantsBounded == taken <= Capacity + 2 * now

\* After Threshold failures in a row nobody is admitted until the timeout has passed
\* since the last of them, also when calls begun before end late or a probe fails.
AdmissionGuarded ==
    [][\A c \in Callers : At(c, "start") /\ caller'[c].at = "queued" =>
           breaker.failures < Threshold \/ Recovered]_gateVars

\* The gate holds: the bucket's grants stay bounded and the breaker lets nobody through
\* before its time, whatever the callers do.
GateHolds == []GrantsBounded /\ AdmissionGuarded
===================================================================================

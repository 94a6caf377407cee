----------------------------- MODULE TargetsProofs -----------------------------
(***************************************************************************)
(* Proofs about TargetBatch, for any targets, any finite set of runs, any   *)
(* size of a batch and any failures, about SourceGate, for every rate,      *)
(* burst, threshold and number of callers, and about TargetBook, for any    *)
(* pages, requests, imports and tiers.                                      *)
(***************************************************************************)
EXTENDS MCTargets, SequenceTheorems, FiniteSetTheorems, TLAPS

-----------------------------------------------------------------------------
(***************************************************************************)
(* Batches of targets.  RunMoves tells what a step does to one run.  RunInv *)
(* is what a run knows: its attempts are uncommitted while it scrapes, they *)
(* are a climb for each target it has marked, and the counts it has loaded  *)
(* are no higher than the failures committed by then.                       *)
(***************************************************************************)

\* LEMMA: the steps from the first of a tier to the last of a tier.
LEMMA ChainFacts ==
  ASSUME NEW a \in 1..3, NEW b \in 1..3, a <= b
  PROVE  /\ Len(SubSeq(FULL_FALLBACK_CHAIN, 2 * a - 1, 2 * b)) \in Nat \ {0}
         /\ SubSeq(FULL_FALLBACK_CHAIN, 2 * a - 1, 2 * b) \in Seq(Tiers)
<1>1. PICK m \in Int, n \in Int : m = 2 * a - 1 /\ n = 2 * b
  OBVIOUS
<1>2. 1 <= m /\ m < n /\ n <= 6
  BY <1>1
<1>3. /\ FULL_FALLBACK_CHAIN[1] \in Tiers /\ FULL_FALLBACK_CHAIN[2] \in Tiers
      /\ FULL_FALLBACK_CHAIN[3] \in Tiers /\ FULL_FALLBACK_CHAIN[4] \in Tiers
      /\ FULL_FALLBACK_CHAIN[5] \in Tiers /\ FULL_FALLBACK_CHAIN[6] \in Tiers
  BY DEF FULL_FALLBACK_CHAIN, Tiers
<1>4. ASSUME NEW i \in m..n PROVE FULL_FALLBACK_CHAIN[i] \in Tiers
  <2>1. i = 1 \/ i = 2 \/ i = 3 \/ i = 4 \/ i = 5 \/ i = 6
    BY <1>2
  <2> QED
    BY <1>3, <2>1
<1>5. /\ Len(SubSeq(FULL_FALLBACK_CHAIN, m, n)) = n - m + 1
      /\ SubSeq(FULL_FALLBACK_CHAIN, m, n) \in Seq(Tiers)
  BY <1>2, <1>4, SubSeqProperties
<1>6. n - m + 1 \in Nat \ {0}
  BY <1>2
<1> QED
  BY <1>1, <1>5, <1>6

\* LEMMA: a plan has a first step, and its steps are tiers.
LEMMA PlanFacts ==
  ASSUME NEW t \in Targets, NEW last \in Tiers
  PROVE  /\ Len(Route(t, last)) \in Nat \ {0}
         /\ \A i \in 1..Len(Route(t, last)) : Route(t, last)[i] \in Tiers
<1>1. PICK start \in 1..3 : start = IF last # 0 THEN last ELSE StartTier[t]
  BY TiersAssumption DEF Tiers
<1>2. MaxTier[t] \in 1..3
  BY TiersAssumption
<1>3. CASE t \in Ats
  BY <1>3 DEF Route, Tiers
<1>4. CASE t \notin Ats /\ start <= MaxTier[t]
  <2>1. Route(t, last) = SubSeq(FULL_FALLBACK_CHAIN, 2 * start - 1, 2 * MaxTier[t])
    BY <1>1, <1>4 DEF Route
  <2>2. Len(Route(t, last)) \in Nat \ {0} /\ Route(t, last) \in Seq(Tiers)
    BY <1>2, <1>4, <2>1, ChainFacts
  <2> QED
    BY <2>2
<1>5. CASE t \notin Ats /\ ~(start <= MaxTier[t])
  <2>1. Route(t, last) = <<1>>
    BY <1>1, <1>5 DEF Route
  <2> QED
    BY <2>1 DEF Tiers
<1> QED
  BY <1>3, <1>4, <1>5

HandInv(r) ==
  pc[r] \in {"idle", "scrape"} =>
    \/ hand[r] = NoTarget /\ step[r] = 1
    \/ pc[r] = "scrape" /\ hand[r] \in batch[r] /\ step[r] \in 1..Len(Plan(r, hand[r]))
TypeInv == TypeOK /\ \A r \in Runs : HandInv(r)

\* LEMMA: a run is at a step of its plan.
LEMMA AtStep ==
  ASSUME TypeInv, NEW r \in Runs, NEW t \in Targets, AtTarget(r, t)
  PROVE  /\ Len(Plan(r, t)) \in Nat \ {0}
         /\ step[r] \in 1..Len(Plan(r, t))
         /\ Plan(r, t)[step[r]] \in Tiers
         /\ hand[r] = NoTarget => step[r] = 1
<1>1. seen[r][t].lastTier \in Tiers
  BY DEF TypeInv, TypeOK, Views
<1>2. /\ Len(Plan(r, t)) \in Nat \ {0}
      /\ \A i \in 1..Len(Plan(r, t)) : Plan(r, t)[i] \in Tiers
  BY <1>1, PlanFacts DEF Plan
<1>3. step[r] \in 1..Len(Plan(r, t)) /\ (hand[r] = NoTarget => step[r] = 1)
  BY <1>2, TargetsAssumption DEF TypeInv, TypeOK, HandInv, AtTarget
<1> QED
  BY <1>2, <1>3

-----------------------------------------------------------------------------
(***************************************************************************)
(* What a step does to one run.                                             *)
(***************************************************************************)
SameRun(r) ==
  /\ pc'[r] = pc[r] /\ batch'[r] = batch[r] /\ seen'[r] = seen[r] /\ mark'[r] = mark[r]
  /\ hand'[r] = hand[r] /\ step'[r] = step[r] /\ pending'[r] = pending[r]
Loads(r) ==
  /\ pc[r] = "idle" /\ pc'[r] \in {"scrape", "done"}
  /\ batch'[r] \in SUBSET Targets /\ seen'[r] = View
  /\ mark'[r] = mark[r] /\ hand'[r] = hand[r] /\ step'[r] = step[r]
  /\ pending'[r] = pending[r]
NewAttempt(r, t, status) ==
  [run |-> r, target |-> t, step |-> step[r], tier |-> Plan(r, t)[step[r]],
   status |-> status]
Goes(r, t, status) ==
  /\ AtTarget(r, t)
  /\ pending'[r] = pending[r] \cup {NewAttempt(r, t, status)}
  /\ pc'[r] = pc[r] /\ batch'[r] = batch[r] /\ seen'[r] = seen[r]
Marks_as(r, t, m) ==
  /\ mark'[r][t] = m
  /\ \A u \in Targets : u # t => mark'[r][u] = mark[r][u]
  /\ hand'[r] = NoTarget /\ step'[r] = 1
Wins(r, t) ==
  /\ Goes(r, t, "success")
  /\ Marks_as(r, t, [result |-> "success", tier |-> Plan(r, t)[step[r]]])
Loses(r, t) ==
  /\ \/ Goes(r, t, "failed") /\ step[r] = Len(Plan(r, t))
     \/ Goes(r, t, "blocked") /\ hand[r] = NoTarget
  /\ Marks_as(r, t, [result |-> "failed", tier |-> 0])
Climbs(r, t) ==
  /\ Goes(r, t, "failed") /\ step[r] # Len(Plan(r, t))
  /\ mark'[r] = mark[r] /\ hand'[r] = t /\ step'[r] = step[r] + 1
Saves(r) ==
  /\ Marked(r)
  /\ attempts' = attempts \cup pending[r]
  /\ pending'[r] = {}
  /\ pc'[r] = AfterCommit(r)
  /\ batch'[r] = batch[r] /\ seen'[r] = seen[r] /\ mark'[r] = mark[r]
Ends(r) ==
  /\ pc[r] \in {"scrape", "report", "reschedule"} /\ pc'[r] \in {"report", "done"}
  /\ pending'[r] = {} \/ (pc[r] # "scrape" /\ pending'[r] = pending[r])
  /\ batch'[r] = batch[r] /\ seen'[r] = seen[r] /\ mark'[r] = mark[r]
RunMove(r) ==
  \/ SameRun(r) \/ Loads(r) \/ Saves(r) \/ Ends(r)
  \/ \E t \in Targets : Wins(r, t) \/ Loses(r, t) \/ Climbs(r, t)

\* LEMMA: nothing else happens to a run.
LEMMA RunMoves ==
  ASSUME TypeInv, [Next]_vars, NEW b \in Runs
  PROVE  RunMove(b)
<1> USE DEF TypeInv, TypeOK, Goto
<1>1. ASSUME NEW r \in Runs, NEW B \in SUBSET Targets, Load(r, B),
             Goto(r, "scrape") \/ Goto(r, "done")
      PROVE  RunMove(b)
  <2>1. CASE b = r
    <3>1. Loads(b)
      BY <1>1, <2>1 DEF Load, Loads
    <3> QED
      BY <3>1 DEF RunMove
  <2>2. CASE b # r
    <3>1. SameRun(b)
      BY <1>1, <2>2 DEF Load, SameRun
    <3> QED
      BY <3>1 DEF RunMove
  <2> QED
    BY <2>1, <2>2
<1>2. ASSUME NEW r \in Runs, Select(r) PROVE RunMove(b)
  <2>1. ASSUME NEW B \in SUBSET Targets, SelectScheduled(r, B) PROVE RunMove(b)
    BY <1>1, <2>1 DEF SelectScheduled
  <2>2. ASSUME NEW B \in SUBSET Targets, SelectTriggered(r, B) PROVE RunMove(b)
    BY <1>1, <2>2 DEF SelectTriggered
  <2>3. ASSUME NEW t \in Targets, SelectManual(r, t) PROVE RunMove(b)
    <3>1. Load(r, {t}) /\ Goto(r, "scrape") /\ {t} \in SUBSET Targets
      BY <2>3 DEF SelectManual
    <3> QED
      BY <1>1, <3>1
  <2> QED
    BY <1>2, <2>1, <2>2, <2>3 DEF Select
<1>3. ASSUME NEW r \in Runs, NEW t \in Targets, NEW status, AddAttempt(r, t, status),
             AtTarget(r, t), UNCHANGED <<pc, batch, seen>>
      PROVE  Goes(r, t, status)
  BY <1>3 DEF AddAttempt, Goes, NewAttempt
<1>4. ASSUME NEW r \in Runs, NEW t \in Targets, NEW m \in Marks, Conclude(r, t, m)
      PROVE  Marks_as(r, t, m)
  <2>1. mark' = [mark EXCEPT ![r] = [mark[r] EXCEPT ![t] = m]]
    BY <1>4 DEF Conclude
  <2>2. mark'[r] = [mark[r] EXCEPT ![t] = m] /\ mark[r] \in [Targets -> Marks]
    BY <2>1
  <2>3. hand'[r] = NoTarget /\ step'[r] = 1
    BY <1>4 DEF Conclude
  <2> QED
    BY <2>2, <2>3 DEF Marks_as
<1>5. ASSUME NEW r \in Runs, Scrape(r) PROVE RunMove(b)
  <2>1. PICK t \in Targets : StepSucceeds(r, t) \/ StepFails(r, t) \/ RobotsDisallow(r, t)
    BY <1>5 DEF Scrape
  <2>2. CASE b # r
    <3>1. SameRun(b)
      BY <2>1, <2>2 DEF StepSucceeds, StepFails, RobotsDisallow, AddAttempt, Conclude, SameRun
    <3> QED
      BY <3>1 DEF RunMove
  <2>3. AtTarget(r, t)
    BY <2>1 DEF StepSucceeds, StepFails, RobotsDisallow
  <2>4. Plan(r, t)[step[r]] \in Tiers
    BY <2>3, AtStep
  <2>5. /\ [result |-> "success", tier |-> Plan(r, t)[step[r]]] \in Marks
        /\ [result |-> "failed", tier |-> 0] \in Marks
    BY <2>4 DEF Marks, Tiers
  <2>6. CASE b = r /\ StepSucceeds(r, t)
    <3>1. Goes(r, t, "success")
      BY <1>3, <2>6 DEF StepSucceeds
    <3>2. Marks_as(r, t, [result |-> "success", tier |-> Plan(r, t)[step[r]]])
      BY <1>4, <2>5, <2>6 DEF StepSucceeds
    <3> QED
      BY <2>6, <3>1, <3>2 DEF Wins, RunMove
  <2>7. CASE b = r /\ StepFails(r, t)
    <3>1. Goes(r, t, "failed")
      BY <1>3, <2>7 DEF StepFails
    <3>2. CASE step[r] = Len(Plan(r, t))
      <4>1. Marks_as(r, t, [result |-> "failed", tier |-> 0])
        BY <1>4, <2>5, <2>7, <3>2 DEF StepFails
      <4> QED
        BY <2>7, <3>1, <3>2, <4>1 DEF Loses, RunMove
    <3>3. CASE step[r] # Len(Plan(r, t))
      <4>1. mark' = mark /\ hand'[r] = t /\ step'[r] = step[r] + 1
        BY <2>7, <3>3 DEF StepFails
      <4> QED
        BY <2>7, <3>1, <3>3, <4>1 DEF Climbs, RunMove
    <3> QED
      BY <3>2, <3>3
  <2>8. CASE b = r /\ RobotsDisallow(r, t)
    <3>1. Goes(r, t, "blocked") /\ hand[r] = NoTarget
      BY <1>3, <2>8 DEF RobotsDisallow
    <3>2. Marks_as(r, t, [result |-> "failed", tier |-> 0])
      BY <1>4, <2>5, <2>8 DEF RobotsDisallow
    <3> QED
      BY <2>8, <3>1, <3>2 DEF Loses, RunMove
  <2> QED
    BY <2>1, <2>2, <2>6, <2>7, <2>8
<1>6. ASSUME NEW r \in Runs, CommitBatch(r) PROVE RunMove(b)
  <2>1. b = r => Saves(b)
    BY <1>6 DEF CommitBatch, SaveAttempts, AfterCommit, Saves
  <2>2. b # r => SameRun(b)
    BY <1>6 DEF CommitBatch, SameRun
  <2> QED
    BY <2>1, <2>2 DEF RunMove
<1>7. ASSUME NEW r \in Runs, FlushRefused(r) \/ Report(r) \/ Reschedule(r) PROVE RunMove(b)
  <2>1. b = r => Ends(b)
    BY <1>7 DEF FlushRefused, Report, Reschedule, workVars, Ends
  <2>2. b # r => SameRun(b)
    BY <1>7 DEF FlushRefused, Report, Reschedule, workVars, SameRun
  <2> QED
    BY <2>1, <2>2 DEF RunMove
<1>8. ASSUME NEW r \in Runs, Abort(r) \/ Die(r) PROVE RunMove(b)
  <2>1. b = r => Ends(b)
    BY <1>8 DEF Abort, Die, LoseBatch, Ends
  <2>2. b # r => SameRun(b)
    BY <1>8 DEF Abort, Die, LoseBatch, SameRun
  <2> QED
    BY <2>1, <2>2 DEF RunMove
<1>9. ASSUME NEW t \in Targets, Release(t) \/ TimePasses(t) PROVE RunMove(b)
  BY <1>9 DEF Release, TimePasses, workVars, SameRun, RunMove
<1>10. CASE UNCHANGED vars
  BY <1>10 DEF vars, workVars, SameRun, RunMove
<1> QED
  BY <1>2, <1>5, <1>6, <1>7, <1>8, <1>9, <1>10 DEF Next, Finish

\* LEMMA: and attempts are added only by a run that saves.
LEMMA AttemptsMove ==
  ASSUME TypeInv, [Next]_vars
  PROVE  attempts' = attempts \/ \E r \in Runs : Saves(r)
<1> USE DEF TypeInv, TypeOK, Goto
<1>1. ASSUME NEW r \in Runs, Select(r) PROVE attempts' = attempts
  BY <1>1 DEF Select, SelectScheduled, SelectTriggered, SelectManual, Load
<1>2. ASSUME NEW r \in Runs, Scrape(r) PROVE attempts' = attempts
  BY <1>2 DEF Scrape, StepSucceeds, StepFails, RobotsDisallow
<1>3. ASSUME NEW r \in Runs, CommitBatch(r) PROVE Saves(r)
  BY <1>3 DEF CommitBatch, SaveAttempts, Saves
<1>4. ASSUME NEW r \in Runs, FlushRefused(r) \/ Report(r) \/ Reschedule(r) \/ Abort(r) \/ Die(r)
      PROVE  attempts' = attempts
  BY <1>4 DEF FlushRefused, Report, Reschedule, Abort, Die
<1>5. ASSUME NEW t \in Targets, Release(t) \/ TimePasses(t) PROVE attempts' = attempts
  BY <1>5 DEF Release, TimePasses
<1>6. CASE UNCHANGED vars
  BY <1>6 DEF vars
<1> QED
  BY <1>1, <1>2, <1>3, <1>4, <1>5, <1>6 DEF Next, Finish


-----------------------------------------------------------------------------
(***************************************************************************)
(* Types.                                                                   *)
(***************************************************************************)
\* LEMMA: the intervals of the back-off.
LEMMA BackoffFacts == ASSUME NEW n \in Nat PROVE Backoff(n + 1) \in Waits /\ Backoff(n + 1) > 1
<1>1. CASE n + 1 >= 3
  BY <1>1 DEF Backoff, Waits
<1>2. CASE n = 0
  <2>1. 2^1 = 2
    OBVIOUS
  <2> QED
    BY <1>2, <2>1 DEF Backoff, Waits
<1>3. CASE n = 1
  <2>1. 2^2 = 4
    OBVIOUS
  <2> QED
    BY <1>3, <2>1 DEF Backoff, Waits
<1> QED
  BY <1>1, <1>2, <1>3

LEMMA InitTypes == Init => TypeInv
<1> SUFFICES ASSUME Init PROVE TypeInv
  OBVIOUS
<1>1. View \in [Targets -> Views]
  BY DEF Init, View, Views, Tiers
<1>2. Unmarked \in Marks
  BY DEF Unmarked, Marks, Tiers
<1>3. TypeOK
  BY <1>1, <1>2 DEF Init, TypeOK, Tiers, Waits
<1>4. \A r \in Runs : HandInv(r)
  BY DEF Init, HandInv
<1> QED
  BY <1>3, <1>4 DEF TypeInv

\* LEMMA: what a run tells of a target is a set of attempts.
LEMMA AttemptTypes ==
  ASSUME TypeInv, NEW r \in Runs, NEW t \in Targets, AtTarget(r, t),
         NEW status \in {"success", "failed", "blocked"}
  PROVE  NewAttempt(r, t, status) \in Attempts
<1>1. step[r] \in Nat \ {0} /\ Plan(r, t)[step[r]] \in Tiers
  BY AtStep
<1> QED
  BY <1>1 DEF NewAttempt, Attempts

\* LEMMA: a run in hand stays at a step of its plan.
LEMMA HandStep ==
  ASSUME TypeInv, [Next]_vars, NEW b \in Runs
  PROVE  HandInv(b)'
<1>1. RunMove(b)
  BY RunMoves
<1>2. HandInv(b)
  BY DEF TypeInv
<1>3. CASE SameRun(b)
  BY <1>2, <1>3 DEF SameRun, HandInv, Plan
<1>4. CASE Loads(b)
  BY <1>2, <1>4 DEF Loads, HandInv
<1>5. CASE Saves(b) \/ Ends(b)
  BY <1>5 DEF Saves, Ends, HandInv, AfterCommit
<1>6. ASSUME NEW t \in Targets, Wins(b, t) \/ Loses(b, t) PROVE HandInv(b)'
  BY <1>6 DEF Wins, Loses, Marks_as, HandInv
<1>7. ASSUME NEW t \in Targets, Climbs(b, t) PROVE HandInv(b)'
  <2>1. AtTarget(b, t) /\ pc'[b] = pc[b] /\ batch'[b] = batch[b] /\ seen'[b] = seen[b]
    BY <1>7 DEF Climbs, Goes
  <2>2. step[b] \in 1..Len(Plan(b, t)) /\ Len(Plan(b, t)) \in Nat
    BY <2>1, AtStep
  <2>3. step'[b] \in 1..Len(Plan(b, t))
    BY <1>7, <2>2 DEF Climbs
  <2>4. Plan(b, t)' = Plan(b, t)
    BY <2>1 DEF Plan
  <2>5. hand'[b] = t /\ t \in batch[b] /\ pc[b] = "scrape"
    BY <1>7, <2>1 DEF Climbs, AtTarget
  <2> QED
    BY <2>1, <2>3, <2>4, <2>5 DEF HandInv
<1> QED
  BY <1>1, <1>3, <1>4, <1>5, <1>6, <1>7 DEF RunMove

LEMMA TypeStep == TypeInv /\ [Next]_vars => TypeInv'
<1> SUFFICES ASSUME TypeInv, [Next]_vars PROVE TypeInv'
  OBVIOUS
<1>0. \A r \in Runs : HandInv(r)'
  BY HandStep
<1>1. TypeOK
  BY DEF TypeInv
<1> USE DEF Goto
<1>2. View \in [Targets -> Views]
  BY <1>1 DEF View, Views, TypeOK
<1>3. ASSUME NEW r \in Runs, NEW B \in SUBSET Targets, Load(r, B)
      PROVE  /\ batch' \in [Runs -> SUBSET Targets]
             /\ seen' \in [Runs -> [Targets -> Views]]
  BY <1>1, <1>2, <1>3 DEF Load, TypeOK
<1>4. ASSUME NEW r \in Runs, Select(r) PROVE TypeOK'
  <2>1. ASSUME NEW B \in SUBSET Targets, SelectScheduled(r, B) PROVE TypeOK'
    <3>1. Load(r, B)
      BY <2>1 DEF SelectScheduled
    <3> QED
      BY <1>1, <1>3, <2>1, <3>1 DEF SelectScheduled, Load, TypeOK, rowVars, runVars
  <2>2. ASSUME NEW B \in SUBSET Targets, SelectTriggered(r, B) PROVE TypeOK'
    <3>1. Load(r, B)
      BY <2>2 DEF SelectTriggered
    <3> QED
      BY <1>1, <1>3, <2>2, <3>1 DEF SelectTriggered, Load, TypeOK, rowVars
  <2>3. ASSUME NEW t \in Targets, SelectManual(r, t) PROVE TypeOK'
    <3>1. Load(r, {t}) /\ {t} \in SUBSET Targets
      BY <2>3 DEF SelectManual
    <3> QED
      BY <1>1, <1>3, <2>3, <3>1 DEF SelectManual, Load, TypeOK, rowVars
  <2> QED
    BY <1>4, <2>1, <2>2, <2>3 DEF Select
<1>5. ASSUME NEW r \in Runs, NEW t \in Targets, AtTarget(r, t),
             NEW status \in {"success", "failed", "blocked"}, AddAttempt(r, t, status)
      PROVE  pending' \in [Runs -> SUBSET Attempts]
  <2>1. NewAttempt(r, t, status) \in Attempts
    BY <1>5, AttemptTypes
  <2> QED
    BY <1>1, <1>5, <2>1 DEF AddAttempt, NewAttempt, TypeOK
<1>6. ASSUME NEW r \in Runs, NEW t \in Targets, NEW m \in Marks, Conclude(r, t, m)
      PROVE  /\ mark' \in [Runs -> [Targets -> Marks]]
             /\ hand' \in [Runs -> Targets \cup {NoTarget}]
             /\ step' \in [Runs -> Nat]
  BY <1>1, <1>6 DEF Conclude, TypeOK
<1>7. ASSUME NEW r \in Runs, Scrape(r) PROVE TypeOK'
  <2>1. PICK t \in Targets : StepSucceeds(r, t) \/ StepFails(r, t) \/ RobotsDisallow(r, t)
    BY <1>7 DEF Scrape
  <2>2. AtTarget(r, t)
    BY <2>1 DEF StepSucceeds, StepFails, RobotsDisallow
  <2>3. Plan(r, t)[step[r]] \in Tiers
    BY <2>2, AtStep
  <2>4. /\ [result |-> "success", tier |-> Plan(r, t)[step[r]]] \in Marks
        /\ [result |-> "failed", tier |-> 0] \in Marks
    BY <2>3 DEF Marks, Tiers
  <2>5. pending' \in [Runs -> SUBSET Attempts]
    BY <1>5, <2>1, <2>2 DEF StepSucceeds, StepFails, RobotsDisallow
  <2>6. /\ mark' \in [Runs -> [Targets -> Marks]]
        /\ hand' \in [Runs -> Targets \cup {NoTarget}]
        /\ step' \in [Runs -> Nat]
    <3>1. CASE StepSucceeds(r, t) \/ RobotsDisallow(r, t)
      BY <1>6, <2>4, <3>1 DEF StepSucceeds, RobotsDisallow
    <3>2. CASE StepFails(r, t) /\ step[r] = Len(Plan(r, t))
      BY <1>6, <2>4, <3>2 DEF StepFails
    <3>3. CASE StepFails(r, t) /\ step[r] # Len(Plan(r, t))
      <4>1. mark' = mark /\ hand' = [hand EXCEPT ![r] = t] /\ step' = [step EXCEPT ![r] = @ + 1]
        BY <3>3 DEF StepFails
      <4> QED
        BY <1>1, <4>1 DEF TypeOK
    <3> QED
      BY <2>1, <3>1, <3>2, <3>3
  <2>7. UNCHANGED <<checked, rowVars, attempts, runVars, pc, batch, seen, faults>>
    BY <2>1 DEF StepSucceeds, StepFails, RobotsDisallow
  <2> QED
    BY <1>1, <2>5, <2>6, <2>7 DEF TypeOK, rowVars, runVars
<1>8. ASSUME NEW r \in Runs, SaveMarks(r)
      PROVE  /\ failures' \in [Targets -> Nat]
             /\ failureCount' \in [Targets -> Nat]
             /\ lastTier' \in [Targets -> Tiers]
  <2>1. \A t \in Targets : seen[r][t] \in Views /\ mark[r][t] \in Marks
    BY <1>1 DEF TypeOK
  <2>2. \A t \in Targets : seen[r][t].failures + 1 \in Nat /\ seen[r][t].failureCount + 1 \in Nat
    BY <2>1 DEF Views
  <2>3. \A t \in Targets : mark[r][t].tier \in Tiers
    BY <2>1 DEF Marks
  <2>4. failures' \in [Targets -> Nat]
    BY <1>1, <1>8, <2>2 DEF SaveMarks, TypeOK
  <2>5. failureCount' \in [Targets -> Nat]
    BY <1>1, <1>8, <2>2 DEF SaveMarks, TypeOK
  <2>6. lastTier' \in [Targets -> Tiers]
    BY <1>1, <1>8, <2>3 DEF SaveMarks, TypeOK
  <2> QED
    BY <2>4, <2>5, <2>6
<1>9. ASSUME NEW r \in Runs, CommitBatch(r) PROVE TypeOK'
  <2>1. attempts' \subseteq Attempts
    BY <1>1, <1>9 DEF CommitBatch, SaveAttempts, TypeOK
  <2>2. pc' \in [Runs -> {"idle", "scrape", "report", "reschedule", "done"}]
    <3>1. AfterCommit(r) \in {"report", "reschedule", "done"}
      BY DEF AfterCommit
    <3> QED
      BY <1>1, <1>9, <3>1 DEF CommitBatch, TypeOK
  <2>3. SaveMarks(r)
    BY <1>9 DEF CommitBatch
  <2> QED
    BY <1>1, <1>8, <1>9, <2>1, <2>2, <2>3 DEF CommitBatch, TypeOK, runVars
<1>10. ASSUME NEW r \in Runs, FlushRefused(r) \/ Abort(r) \/ Die(r) PROVE TypeOK'
  <2>1. /\ pending' \in [Runs -> SUBSET Attempts]
        /\ hand' \in [Runs -> Targets \cup {NoTarget}]
        /\ step' \in [Runs -> Nat]
        /\ faults' \in Nat
    <3>1. /\ pending' = [pending EXCEPT ![r] = {}]
          /\ hand' = [hand EXCEPT ![r] = NoTarget]
          /\ step' = [step EXCEPT ![r] = 1]
          /\ faults' = faults \/ faults' = faults + 1
      BY <1>10 DEF FlushRefused, Abort, Die, LoseBatch
    <3> QED
      BY <1>1, <3>1 DEF TypeOK
  <2>2. pc' \in [Runs -> {"idle", "scrape", "report", "reschedule", "done"}]
    BY <1>1, <1>10 DEF FlushRefused, Abort, Die, TypeOK
  <2>3. UNCHANGED <<checked, rowVars, attempts, runVars, batch, seen, mark>>
    BY <1>10 DEF FlushRefused, Abort, Die, LoseBatch, rowVars
  <2> QED
    BY <1>1, <2>1, <2>2, <2>3 DEF TypeOK, rowVars, runVars
<1>11. ASSUME NEW r \in Runs, Report(r) PROVE TypeOK'
  <2>1. Found(r, "success") \in SUBSET Targets
    BY <1>1 DEF Found, TypeOK
  <2>2. Cardinality(Found(r, "success")) \in Nat
    BY <2>1, TargetsAssumption, FS_Subset, FS_CardinalityType
  <2> QED
    BY <1>1, <1>11, <2>2 DEF Report, TypeOK, rowVars, workVars
<1>12. ASSUME NEW r \in Runs, Reschedule(r) PROVE TypeOK'
  <2>1. \A t \in Targets : Backoff(seen[r][t].failures + 1) \in Waits
    BY <1>1, BackoffFacts DEF TypeOK, Views
  <2>2. wait' \in [Targets -> Waits]
    BY <1>1, <1>12, <2>1 DEF Reschedule, TypeOK, Waits
  <2> QED
    BY <1>1, <1>12, <2>2 DEF Reschedule, TypeOK, runVars, workVars
<1>13. ASSUME NEW t \in Targets, Release(t) \/ TimePasses(t) PROVE TypeOK'
  <2>1. failures' \in [Targets -> Nat] /\ wait' \in [Targets -> Waits]
    <3>1. failures \in [Targets -> Nat] /\ wait \in [Targets -> Waits] /\ 0 \in Waits
      BY <1>1 DEF TypeOK, Waits
    <3>2. CASE Release(t)
      BY <3>1, <3>2 DEF Release
    <3>3. CASE TimePasses(t)
      BY <3>1, <3>3 DEF TimePasses
    <3> QED
      BY <1>13, <3>2, <3>3
  <2>2. UNCHANGED <<checked, failureCount, lastTier, attempts, runVars, pc, workVars, faults>>
    BY <1>13 DEF Release, TimePasses
  <2> QED
    BY <1>1, <2>1, <2>2 DEF TypeOK, runVars, workVars
<1>14. ASSUME UNCHANGED vars PROVE TypeOK'
  BY <1>1, <1>14 DEF TypeOK, vars, rowVars, runVars, workVars
<1>15. TypeOK'
  BY <1>4, <1>7, <1>9, <1>10, <1>11, <1>12, <1>13, <1>14 DEF Next, Finish
<1> QED
  BY <1>0, <1>15 DEF TypeInv

\* THEOREM: the variables of the batches keep their types (all of TargetBatch).
THEOREM TypeCorrect == Spec => []TypeOK
<1>1. Spec => []TypeInv
  BY InitTypes, TypeStep, PTL DEF Spec
<1>2. TypeInv => TypeOK
  BY DEF TypeInv
<1> QED
  BY <1>1, <1>2, PTL

-----------------------------------------------------------------------------
(***************************************************************************)
(* What a run knows of its attempts.                                        *)
(***************************************************************************)
\* Failures at the steps before step n.
Prefix(ran, plan, n) ==
  /\ {x.step : x \in ran} = 1..(n - 1)
  /\ \A x \in ran : x.tier = plan[x.step] /\ x.status = "failed"
\* A whole climb that m sums up.
Agrees(ran, plan, m) ==
  /\ IsClimb(ran, plan)
  /\ m.result \in {"success", "failed"}
  /\ m.result = "success" => \E x \in ran : x.status = "success" /\ x.tier = m.tier
  /\ m.result = "failed" => \A x \in ran : x.status # "success"

Of(r) == {x \in attempts : x.run = r}
Own(r, t) == {x \in pending[r] : x.target = t}
StepAt(r, t) == IF hand[r] = t THEN step[r] ELSE 1
Whole(r) == \A t \in batch[r] : Agrees(Tried(r, t), Plan(r, t), mark[r][t])

PendingInv(r) ==
  /\ pc[r] # "scrape" => pending[r] = {}
  /\ \A x \in pending[r] : x.run = r
ScrapeInv(r) ==
  /\ pc[r] = "idle" => \A t \in Targets : mark[r][t].result = "none"
  /\ pc[r] = "scrape" => \A t \in batch[r] :
       /\ mark[r][t].result = "none" => Prefix(Own(r, t), Plan(r, t), StepAt(r, t))
       /\ mark[r][t].result # "none" =>
            hand[r] # t /\ Agrees(Own(r, t), Plan(r, t), mark[r][t])
CommitInv(r) ==
  /\ pc[r] \in {"idle", "scrape"} => Of(r) = {}
  /\ Of(r) = {} \/ Whole(r)
  /\ pc[r] = "reschedule" => r \in Jobs /\ Whole(r)
RunInv(r) == PendingInv(r) /\ ScrapeInv(r) /\ CommitInv(r)
RunsInv == TypeInv /\ \A r \in Runs : RunInv(r)

\* LEMMA: one more attempt carries a climb on, or ends it.
LEMMA ClimbStep ==
  ASSUME NEW ran, NEW plan, Len(plan) \in Nat \ {0}, NEW n \in 1..Len(plan), NEW x,
         Prefix(ran, plan, n), x.step = n, x.tier = plan[n]
  PROVE  /\ x.status = "failed" => Prefix(ran \cup {x}, plan, n + 1)
         /\ x.status = "failed" /\ n = Len(plan) => IsClimb(ran \cup {x}, plan)
         /\ x.status = "success" => IsClimb(ran \cup {x}, plan)
         /\ x.status = "blocked" /\ n = 1 => IsClimb(ran \cup {x}, plan)
<1> DEFINE more == ran \cup {x}
<1>1. {y.step : y \in more} = 1..n
  <2>1. {y.step : y \in more} = {y.step : y \in ran} \cup {n}
    OBVIOUS
  <2>2. 1..n = (1..(n - 1)) \cup {n}
    OBVIOUS
  <2> QED
    BY <2>1, <2>2 DEF Prefix
<1>2. \A y \in ran : /\ y.step \in 1..(n - 1)
                       /\ y.tier = plan[y.step] /\ y.status = "failed"
  BY DEF Prefix
<1>3. \A y \in more : y.tier = plan[y.step]
  BY <1>2
<1>4. x.status = "failed" => Prefix(more, plan, n + 1)
  <2>1. (n + 1) - 1 = n
    OBVIOUS
  <2> QED
    BY <1>1, <1>2, <1>3, <2>1 DEF Prefix
<1>5. ASSUME \/ x.status = "failed" /\ n = Len(plan)
             \/ x.status = "success"
             \/ x.status = "blocked" /\ n = 1
      PROVE  IsClimb(more, plan)
  <2>1. ASSUME NEW y \in more
        PROVE  /\ y.step < n => y.status = "failed"
               /\ y.status = "blocked" => n = 1
               /\ y.step = n /\ n < Len(plan) => y.status # "failed"
    <3>1. CASE y \in ran
      <4>1. y.step < n /\ y.step # n
        BY <1>2, <3>1
      <4> QED
        BY <1>2, <3>1, <4>1
    <3>2. CASE y = x
      <4>1. ~(y.step < n)
        BY <3>2
      <4>2. n = Len(plan) => ~(n < Len(plan))
        OBVIOUS
      <4> QED
        BY <1>5, <3>2, <4>1, <4>2
    <3> QED
      BY <3>1, <3>2
  <2> HIDE DEF more
  <2> QED
    BY <1>1, <1>3, <2>1 DEF IsClimb
<1> QED
  BY <1>4, <1>5

\* LEMMA: what a save of another run leaves alone.
LEMMA RunsApart ==
  ASSUME RunsInv, [Next]_vars, NEW b \in Runs
  PROVE  Saves(b) \/ Of(b)' = Of(b)
<1>1. CASE attempts' = attempts
  BY <1>1 DEF Of
<1>2. ASSUME NEW r \in Runs, Saves(r), r # b PROVE Of(b)' = Of(b)
  <2>1. attempts' = attempts \cup pending[r]
    BY <1>2 DEF Saves
  <2>2. \A x \in pending[r] : x.run = r
    BY DEF RunsInv, RunInv, PendingInv
  <2> QED
    BY <1>2, <2>1, <2>2 DEF Of
<1> QED
  BY <1>1, <1>2, AttemptsMove DEF RunsInv

\* LEMMA: the attempts on a target are those of the run on it.
LEMMA TriedOf ==
  ASSUME NEW r, NEW t
  PROVE  /\ Tried(r, t) = {x \in Of(r) : x.target = t}
         /\ Tried(r, t)' = {x \in Of(r)' : x.target = t}
BY DEF Tried, Of

\* LEMMA: a run goes on with the attempts of its own on its batch.
LEMMA PendingStep ==
  ASSUME RunsInv, [Next]_vars, NEW b \in Runs
  PROVE  PendingInv(b)'
<1>1. RunMove(b) /\ PendingInv(b)
  BY RunMoves DEF RunsInv, RunInv
<1>2. CASE SameRun(b)
  BY <1>1, <1>2 DEF SameRun, PendingInv
<1>3. CASE Loads(b)
  BY <1>1, <1>3 DEF Loads, PendingInv
<1>4. CASE Saves(b)
  BY <1>1, <1>4 DEF Saves, PendingInv
<1>5. CASE Ends(b)
  BY <1>1, <1>5 DEF Ends, PendingInv
<1>6. ASSUME NEW t \in Targets, NEW status, Goes(b, t, status) PROVE PendingInv(b)'
  <2>1. pc'[b] = "scrape"
    BY <1>6 DEF Goes, AtTarget
  <2>2. NewAttempt(b, t, status).run = b
    BY DEF NewAttempt
  <2>3. pending'[b] = pending[b] \cup {NewAttempt(b, t, status)}
    BY <1>6 DEF Goes
  <2> QED
    BY <1>1, <2>1, <2>2, <2>3 DEF PendingInv
<1> QED
  BY <1>1, <1>2, <1>3, <1>4, <1>5, <1>6 DEF RunMove, Wins, Loses, Climbs

LEMMA ScrapeStep ==
  ASSUME RunsInv, [Next]_vars, NEW b \in Runs
  PROVE  ScrapeInv(b)'
<1>1. RunMove(b) /\ PendingInv(b) /\ ScrapeInv(b) /\ HandInv(b) /\ TypeInv
  BY RunMoves DEF RunsInv, RunInv, TypeInv
<1>2. CASE SameRun(b)
  BY <1>1, <1>2 DEF SameRun, ScrapeInv, Own, StepAt, Plan
<1>3. CASE Loads(b)
  <2>1. batch'[b] \subseteq Targets /\ pc'[b] # "idle"
    BY <1>3 DEF Loads
  <2>2. hand'[b] = NoTarget /\ pending'[b] = {} /\ mark'[b] = mark[b] /\ pc[b] = "idle"
    BY <1>1, <1>3 DEF Loads, PendingInv, HandInv
  <2>3. ASSUME NEW t \in batch'[b]
        PROVE  mark'[b][t].result = "none" /\ Prefix(Own(b, t)', Plan(b, t)', StepAt(b, t)')
    <3>1. mark'[b][t].result = "none"
      BY <1>1, <2>1, <2>2, <2>3 DEF ScrapeInv
    <3>2. Own(b, t)' = {}
      BY <2>2 DEF Own
    <3>3. StepAt(b, t)' = 1
      BY <2>1, <2>2, TargetsAssumption DEF StepAt
    <3>4. {x.step : x \in {}} = 1..(1 - 1)
      OBVIOUS
    <3> QED
      BY <3>1, <3>2, <3>3, <3>4 DEF Prefix
  <2> QED
    BY <2>1, <2>3 DEF ScrapeInv
<1>4. CASE Saves(b) \/ Ends(b)
  BY <1>4 DEF Saves, Ends, ScrapeInv, AfterCommit
<1>5. ASSUME NEW t \in Targets, Wins(b, t) \/ Loses(b, t) \/ Climbs(b, t)
      PROVE  ScrapeInv(b)'
  <2>1. PICK status \in {"success", "failed", "blocked"} :
          /\ Goes(b, t, status)
          /\ \/ status = "success" /\ Wins(b, t)
             \/ /\ \/ status = "failed" /\ step[b] = Len(Plan(b, t))
                   \/ status = "blocked" /\ hand[b] = NoTarget
                /\ Loses(b, t)
             \/ status = "failed" /\ Climbs(b, t)
    BY <1>5 DEF Wins, Loses, Climbs
  <2>2. AtTarget(b, t) /\ pc[b] = "scrape" /\ pc'[b] = "scrape" /\ batch'[b] = batch[b]
        /\ seen'[b] = seen[b] /\ batch[b] \subseteq Targets /\ t \in batch[b]
    BY <1>1, <2>1 DEF Goes, AtTarget, TypeInv, TypeOK
  <2>3. \A u : Plan(b, u)' = Plan(b, u)
    BY <2>2 DEF Plan
  <2> DEFINE x == NewAttempt(b, t, status)
  <2>4. /\ x.target = t /\ x.step = step[b] /\ x.tier = Plan(b, t)[step[b]]
        /\ x.status = status
    BY DEF NewAttempt
  <2>5. /\ Own(b, t)' = Own(b, t) \cup {x}
        /\ \A u : u # t => Own(b, u)' = Own(b, u)
    BY <2>1, <2>4 DEF Goes, Own
  <2> HIDE DEF x
  <2>6. /\ Len(Plan(b, t)) \in Nat \ {0} /\ step[b] \in 1..Len(Plan(b, t))
        /\ hand[b] = NoTarget => step[b] = 1
    BY <1>1, <2>2, AtStep
  <2>7. StepAt(b, t) = step[b]
    BY <2>2, <2>6, TargetsAssumption DEF StepAt, AtTarget
  <2>8. Prefix(Own(b, t), Plan(b, t), step[b])
    BY <1>1, <2>2, <2>7 DEF ScrapeInv, AtTarget
  <2>9. /\ status = "failed" => Prefix(Own(b, t) \cup {x}, Plan(b, t), step[b] + 1)
        /\ status = "failed" /\ step[b] = Len(Plan(b, t)) => IsClimb(Own(b, t) \cup {x}, Plan(b, t))
        /\ status = "success" => IsClimb(Own(b, t) \cup {x}, Plan(b, t))
        /\ status = "blocked" /\ step[b] = 1 => IsClimb(Own(b, t) \cup {x}, Plan(b, t))
    BY <2>4, <2>6, <2>8, ClimbStep
  <2>10. ASSUME NEW u \in batch[b], u # t
         PROVE  /\ mark'[b][u] = mark[b][u] /\ StepAt(b, u)' = StepAt(b, u)
                /\ hand'[b] # u
    <3>1. hand[b] # u /\ hand'[b] # u
      BY <1>5, <2>2, <2>10, TargetsAssumption DEF AtTarget, Wins, Loses, Climbs, Marks_as
    <3>2. mark'[b][u] = mark[b][u]
      BY <1>5, <2>2, <2>10 DEF Wins, Loses, Climbs, Marks_as
    <3> QED
      BY <3>1, <3>2 DEF StepAt
  <2>11. ASSUME NEW u \in batch[b], u # t
         PROVE  /\ mark'[b][u].result = "none" => Prefix(Own(b, u)', Plan(b, u)', StepAt(b, u)')
                /\ mark'[b][u].result # "none" =>
                     hand'[b] # u /\ Agrees(Own(b, u)', Plan(b, u)', mark'[b][u])
    BY <1>1, <2>2, <2>3, <2>5, <2>10, <2>11 DEF ScrapeInv
  <2>12. /\ mark'[b][t].result = "none" => Prefix(Own(b, t)', Plan(b, t)', StepAt(b, t)')
         /\ mark'[b][t].result # "none" =>
              hand'[b] # t /\ Agrees(Own(b, t)', Plan(b, t)', mark'[b][t])
    <3>1. x \in Own(b, t)' /\ \A y \in Own(b, t)' : y = x \/ y.status = "failed"
      BY <2>5, <2>8 DEF Prefix
    <3>2. CASE status = "success" /\ Wins(b, t)
      <4>1. mark'[b][t] = [result |-> "success", tier |-> Plan(b, t)[step[b]]]
            /\ hand'[b] = NoTarget
        BY <3>2 DEF Wins, Marks_as
      <4>2. Agrees(Own(b, t)', Plan(b, t)', mark'[b][t])
        BY <2>3, <2>4, <2>5, <2>9, <3>1, <3>2, <4>1 DEF Agrees
      <4> QED
        BY <4>1, <4>2, TargetsAssumption
    <3>3. CASE /\ \/ status = "failed" /\ step[b] = Len(Plan(b, t))
                  \/ status = "blocked" /\ hand[b] = NoTarget
               /\ Loses(b, t)
      <4>1. mark'[b][t] = [result |-> "failed", tier |-> 0] /\ hand'[b] = NoTarget
        BY <3>3 DEF Loses, Marks_as
      <4>2. IsClimb(Own(b, t)', Plan(b, t)')
        BY <2>3, <2>5, <2>6, <2>9, <3>3
      <4>3. Agrees(Own(b, t)', Plan(b, t)', mark'[b][t])
        BY <2>4, <3>1, <3>3, <4>1, <4>2 DEF Agrees
      <4> QED
        BY <4>1, <4>3, TargetsAssumption
    <3>4. CASE status = "failed" /\ Climbs(b, t)
      <4>1. mark'[b][t] = mark[b][t] /\ hand'[b] = t /\ step'[b] = step[b] + 1
        BY <3>4 DEF Climbs
      <4>2. mark[b][t].result = "none"
        BY <2>2 DEF AtTarget
      <4>3. StepAt(b, t)' = step[b] + 1
        BY <4>1 DEF StepAt
      <4> QED
        BY <2>3, <2>5, <2>9, <3>4, <4>1, <4>2, <4>3
    <3> QED
      BY <2>1, <3>2, <3>3, <3>4
  <2> QED
    BY <2>2, <2>11, <2>12 DEF ScrapeInv
<1> QED
  BY <1>1, <1>2, <1>3, <1>4, <1>5 DEF RunMove

LEMMA CommitStep ==
  ASSUME RunsInv, [Next]_vars, NEW b \in Runs
  PROVE  CommitInv(b)'
<1>1. RunMove(b) /\ PendingInv(b) /\ ScrapeInv(b) /\ CommitInv(b)
  BY RunMoves DEF RunsInv, RunInv
<1>2. CASE Saves(b)
  <2>1. Of(b) = {}
    BY <1>1, <1>2 DEF Saves, Marked, CommitInv
  <2>2. Of(b)' = pending[b]
    BY <1>1, <1>2, <2>1 DEF Saves, Of, PendingInv
  <2>3. Whole(b)'
    <3>1. \A t \in batch[b] : Agrees(Own(b, t), Plan(b, t), mark[b][t])
      BY <1>1, <1>2 DEF Saves, Marked, ScrapeInv
    <3>2. \A t : Tried(b, t)' = Own(b, t)
      BY <2>2, TriedOf DEF Own
    <3>3. \A t : Plan(b, t)' = Plan(b, t)
      BY <1>2 DEF Saves, Plan
    <3>4. batch'[b] = batch[b] /\ mark'[b] = mark[b]
      BY <1>2 DEF Saves
    <3> QED
      BY <3>1, <3>2, <3>3, <3>4 DEF Whole
  <2>4. pc'[b] = AfterCommit(b)
    BY <1>2 DEF Saves
  <2>5. pc'[b] \notin {"idle", "scrape"} /\ (pc'[b] = "reschedule" => b \in Jobs)
    BY <2>4 DEF AfterCommit
  <2> QED
    BY <2>3, <2>5 DEF CommitInv
<1>3. CASE ~Saves(b)
  <2>1. Of(b)' = Of(b)
    BY <1>3, RunsApart
  <2>2. \A t : Tried(b, t)' = Tried(b, t)
    BY <2>1, TriedOf
  <2>3. CASE SameRun(b) \/ Ends(b)
    <3>1. Whole(b)' = Whole(b)
      <4>1. batch'[b] = batch[b] /\ mark'[b] = mark[b] /\ seen'[b] = seen[b]
        BY <2>3 DEF SameRun, Ends
      <4>2. \A t : Plan(b, t)' = Plan(b, t)
        BY <4>1 DEF Plan
      <4> QED
        BY <2>2, <4>1, <4>2 DEF Whole
    <3>2. /\ pc'[b] \in {"idle", "scrape"} => pc[b] \in {"idle", "scrape"}
          /\ pc'[b] = "reschedule" => pc[b] = "reschedule"
      BY <2>3 DEF SameRun, Ends
    <3> QED
      BY <1>1, <2>1, <3>1, <3>2 DEF CommitInv
  <2>4. CASE Loads(b)
    <3>1. Of(b)' = {} /\ pc'[b] # "reschedule"
      BY <1>1, <2>1, <2>4 DEF Loads, CommitInv
    <3> QED
      BY <3>1 DEF CommitInv
  <2>5. ASSUME NEW t \in Targets, NEW status, Goes(b, t, status) PROVE CommitInv(b)'
    <3>1. Of(b)' = {} /\ pc'[b] = "scrape"
      BY <1>1, <2>1, <2>5 DEF Goes, AtTarget, CommitInv
    <3> QED
      BY <3>1 DEF CommitInv
  <2> QED
    BY <1>1, <1>3, <2>3, <2>4, <2>5 DEF RunMove, Wins, Loses, Climbs
<1> QED
  BY <1>2, <1>3

LEMMA InitRuns == Init => RunsInv
<1> SUFFICES ASSUME Init PROVE RunsInv
  OBVIOUS
<1>1. ASSUME NEW r \in Runs PROVE RunInv(r)
  <2>1. PendingInv(r)
    BY DEF Init, PendingInv
  <2>2. ScrapeInv(r)
    BY DEF Init, ScrapeInv, Unmarked
  <2>3. CommitInv(r)
    BY DEF Init, CommitInv, Of
  <2> QED
    BY <2>1, <2>2, <2>3 DEF RunInv
<1> QED
  BY <1>1, InitTypes DEF RunsInv

LEMMA RunsStep == RunsInv /\ [Next]_vars => RunsInv'
<1> SUFFICES ASSUME RunsInv, [Next]_vars PROVE RunsInv'
  OBVIOUS
<1>1. \A r \in Runs : RunInv(r)'
  BY PendingStep, ScrapeStep, CommitStep DEF RunInv
<1>2. TypeInv'
  BY TypeStep DEF RunsInv
<1> QED
  BY <1>1, <1>2 DEF RunsInv

(***************************************************************************)
(* THEOREM: a batch commits for all of its targets or for none              *)
(* (run_target_batch), whatever fails and whoever overlaps with it.         *)
(***************************************************************************)
THEOREM BatchesAreAtomic == Spec => []BatchIsAtomic
<1>1. Spec => []RunsInv
  BY InitRuns, RunsStep, PTL DEF Spec
<1>2. RunsInv => BatchIsAtomic
  <2> SUFFICES ASSUME RunsInv, NEW x \in attempts, NEW t \in batch[x.run]
               PROVE  IsClimb(Tried(x.run, t), Plan(x.run, t))
    BY DEF BatchIsAtomic
  <2>1. x.run \in Runs
    BY DEF RunsInv, TypeInv, TypeOK, Attempts
  <2>2. x \in Of(x.run)
    BY DEF Of
  <2>3. Whole(x.run)
    BY <2>1, <2>2 DEF RunsInv, RunInv, CommitInv
  <2> QED
    BY <2>3 DEF Whole, Agrees
<1> QED
  BY <1>1, <1>2, PTL

-----------------------------------------------------------------------------
(***************************************************************************)
(* The rows of the targets.                                                 *)
(***************************************************************************)
\* LEMMA: who writes them.
LEMMA RowMoves ==
  ASSUME TypeInv, [Next]_vars
  PROVE  \/ UNCHANGED rowVars
         \/ \E r \in Runs : Saves(r) /\ SaveMarks(r) /\ wait' = wait
         \/ \E r \in Runs : Reschedule(r)
         \/ \E t \in Targets : Release(t) \/ TimePasses(t)
<1> USE DEF TypeInv, TypeOK, Goto
<1>1. ASSUME NEW r \in Runs, Select(r) PROVE UNCHANGED rowVars
  BY <1>1 DEF Select, SelectScheduled, SelectTriggered, SelectManual, Load
<1>2. ASSUME NEW r \in Runs, Scrape(r) PROVE UNCHANGED rowVars
  BY <1>2 DEF Scrape, StepSucceeds, StepFails, RobotsDisallow
<1>3. ASSUME NEW r \in Runs, CommitBatch(r) PROVE Saves(r) /\ SaveMarks(r) /\ wait' = wait
  BY <1>3 DEF CommitBatch, SaveAttempts, Saves
<1>4. ASSUME NEW r \in Runs, FlushRefused(r) \/ Report(r) \/ Abort(r) \/ Die(r)
      PROVE  UNCHANGED rowVars
  BY <1>4 DEF FlushRefused, Report, Abort, Die, LoseBatch, rowVars
<1>5. CASE UNCHANGED vars
  BY <1>5 DEF vars
<1> QED
  BY <1>1, <1>2, <1>3, <1>4, <1>5 DEF Next, Finish

\* LEMMA: attempts stay, and so do the runs that failed.
LEMMA FailuresStay ==
  ASSUME RunsInv, [Next]_vars, NEW t \in Targets
  PROVE  /\ \A r \in Runs : Succeeded(r, t) => Succeeded(r, t)'
         /\ FailedRuns(t) \subseteq FailedRuns(t)'
<1>1. attempts \subseteq attempts'
  BY AttemptsMove DEF RunsInv, Saves
<1>2. ASSUME NEW r \in Runs PROVE Tried(r, t) = {} \/ Tried(r, t)' = Tried(r, t)
  <2>1. CASE Saves(r)
    <3>1. Of(r) = {}
      BY <2>1 DEF Saves, Marked, RunsInv, RunInv, CommitInv
    <3> QED
      BY <3>1, TriedOf
  <2>2. CASE Of(r)' = Of(r)
    BY <2>2, TriedOf
  <2> QED
    BY <2>1, <2>2, RunsApart
<1> QED
  BY <1>2 DEF Succeeded, FailedRuns

\* LEMMA: what a run that saves has found is in its attempts.
LEMMA SavedMarks ==
  ASSUME RunsInv, [Next]_vars, NEW r \in Runs, Saves(r), NEW t \in Targets
  PROVE  /\ t \in Found(r, "failed") => r \notin FailedRuns(t) /\ r \in FailedRuns(t)'
         /\ t \in Found(r, "success") =>
              \E x \in attempts' : /\ x.run = r /\ x.target = t
                                   /\ x.status = "success" /\ x.tier = mark[r][t].tier
<1>1. Of(r) = {}
  BY DEF Saves, Marked, RunsInv, RunInv, CommitInv
<1>2. Tried(r, t) = {}
  BY <1>1, TriedOf
<1>3. ASSUME t \in batch[r]
      PROVE  Agrees(Tried(r, t)', Plan(r, t)', mark[r][t])
  <2>1. CommitInv(r)'
    BY CommitStep
  <2>2. pending[r] # {} \/ Of(r)' = {}
    BY <1>1 DEF Saves, Of
  <2>3. Agrees(Own(r, t), Plan(r, t), mark[r][t])
    BY <1>3 DEF Saves, Marked, RunsInv, RunInv, ScrapeInv
  <2>4. \A x \in pending[r] : x.run = r
    BY DEF RunsInv, RunInv, PendingInv
  <2>5. Of(r)' = pending[r]
    BY <1>1, <2>4 DEF Saves, Of
  <2>6. Tried(r, t)' = Own(r, t) /\ Plan(r, t)' = Plan(r, t)
    BY <2>5, TriedOf DEF Own, Saves, Plan
  <2> QED
    BY <2>3, <2>6
<1>4. ASSUME t \in Found(r, "failed") PROVE r \in FailedRuns(t)'
  <2>1. Agrees(Tried(r, t)', Plan(r, t)', mark[r][t]) /\ mark[r][t].result = "failed"
    BY <1>3, <1>4 DEF Found
  <2>2. Tried(r, t)' # {}
    <3>1. PICK n \in 1..Len(Plan(r, t)') : {x.step : x \in Tried(r, t)'} = 1..n
      BY <2>1 DEF Agrees, IsClimb
    <3>2. 1 \in 1..n
      BY <3>1
    <3> QED
      BY <3>1, <3>2
  <2> QED
    BY <2>1, <2>2 DEF Agrees, FailedRuns, Succeeded
<1>5. ASSUME t \in Found(r, "success")
      PROVE  \E x \in Tried(r, t)' : x.status = "success" /\ x.tier = mark[r][t].tier
  BY <1>3, <1>5 DEF Found, Agrees
<1>6. r \notin FailedRuns(t)
  BY <1>2 DEF FailedRuns
<1> QED
  BY <1>4, <1>5, <1>6 DEF Tried

CountInv ==
  /\ CountersNeverOverstate
  /\ \A r \in Runs, t \in Targets :
       /\ seen[r][t].failures <= seen[r][t].failureCount
       /\ seen[r][t].failureCount <= Cardinality(FailedRuns(t))

\* LEMMA: finitely many runs have failed.
LEMMA FailedFinite ==
  ASSUME NEW t
  PROVE  /\ IsFiniteSet(FailedRuns(t)) /\ Cardinality(FailedRuns(t)) \in Nat
         /\ IsFiniteSet(FailedRuns(t)') /\ Cardinality(FailedRuns(t)') \in Nat
<1>1. FailedRuns(t) \in SUBSET Runs /\ FailedRuns(t)' \in SUBSET Runs
  BY DEF FailedRuns
<1> QED
  BY <1>1, RunsAssumption, FS_Subset, FS_CardinalityType

LEMMA CountStep ==
  ASSUME RunsInv, CountInv, [Next]_vars
  PROVE  CountInv'
<1>1. TypeInv /\ TypeOK
  BY DEF RunsInv, TypeInv
<1>2. \A t \in Targets :
        /\ failures[t] \in Nat /\ failureCount[t] \in Nat
        /\ failures[t] <= failureCount[t]
        /\ failureCount[t] <= Cardinality(FailedRuns(t))
  BY <1>1 DEF TypeOK, CountInv, CountersNeverOverstate
<1>3. \A r \in Runs, t \in Targets :
        /\ seen[r][t].failures \in Nat /\ seen[r][t].failureCount \in Nat
        /\ seen[r][t].failures <= seen[r][t].failureCount
        /\ seen[r][t].failureCount <= Cardinality(FailedRuns(t))
  BY <1>1 DEF TypeOK, Views, CountInv
<1>4. ASSUME NEW t \in Targets
      PROVE  Cardinality(FailedRuns(t)) <= Cardinality(FailedRuns(t)')
  BY FailuresStay, FailedFinite, FS_Subset
<1>5. ASSUME NEW t \in Targets, NEW r \in Runs, Saves(r), t \in Found(r, "failed")
      PROVE  Cardinality(FailedRuns(t)) + 1 <= Cardinality(FailedRuns(t)')
  <2>1. r \notin FailedRuns(t) /\ FailedRuns(t) \cup {r} \in SUBSET FailedRuns(t)'
    BY <1>5, SavedMarks, FailuresStay
  <2>2. Cardinality(FailedRuns(t) \cup {r}) = Cardinality(FailedRuns(t)) + 1
    BY <2>1, FailedFinite, FS_AddElement
  <2>3. Cardinality(FailedRuns(t) \cup {r}) <= Cardinality(FailedRuns(t)')
    BY <2>1, FailedFinite, FS_Subset
  <2> QED
    BY <2>2, <2>3
<1>6. ASSUME NEW t \in Targets
      PROVE  /\ failures'[t] <= failureCount'[t]
             /\ failureCount'[t] <= Cardinality(FailedRuns(t)')
  <2> DEFINE old == Cardinality(FailedRuns(t))
             new == Cardinality(FailedRuns(t)')
  <2>0. old \in Nat /\ new \in Nat /\ old <= new
    BY <1>4, FailedFinite
  <2>1. failures[t] \in Nat /\ failureCount[t] \in Nat /\ failures[t] <= failureCount[t]
        /\ failureCount[t] <= old
    BY <1>2
  <2> HIDE DEF old, new
  <2>2. (failures'[t] = failures[t] \/ failures'[t] = 0) /\ failureCount'[t] = failureCount[t]
          => failures'[t] <= failureCount'[t] /\ failureCount'[t] <= new
    BY <2>0, <2>1
  <2>3. CASE \/ UNCHANGED rowVars
             \/ \E r \in Runs : Reschedule(r)
             \/ \E u \in Targets : Release(u) \/ TimePasses(u)
    BY <1>1, <2>2, <2>3 DEF rowVars, Reschedule, Release, TimePasses, TypeOK, new
  <2>4. ASSUME NEW r \in Runs, Saves(r), SaveMarks(r), t \in Found(r, "failed")
        PROVE  failures'[t] <= failureCount'[t] /\ failureCount'[t] <= new
    <3>1. failures'[t] = seen[r][t].failures + 1 /\ failureCount'[t] = seen[r][t].failureCount + 1
      BY <2>4 DEF SaveMarks, Found
    <3>2. old + 1 <= new
      BY <1>5, <2>4 DEF old, new
    <3>3. /\ seen[r][t].failures \in Nat /\ seen[r][t].failureCount \in Nat
          /\ seen[r][t].failures <= seen[r][t].failureCount
          /\ seen[r][t].failureCount <= old
      BY <1>3 DEF old
    <3> QED
      BY <2>0, <3>1, <3>2, <3>3
  <2>5. ASSUME NEW r \in Runs, SaveMarks(r), t \notin Found(r, "failed")
        PROVE  failures'[t] <= failureCount'[t] /\ failureCount'[t] <= new
    <3>1. failures'[t] = failures[t] \/ failures'[t] = 0
      BY <2>5 DEF SaveMarks
    <3>2. failureCount'[t] = failureCount[t]
      BY <2>5 DEF SaveMarks
    <3> QED
      BY <2>2, <3>1, <3>2
  <2> QED
    BY <1>1, <2>3, <2>4, <2>5, RowMoves DEF new
<1>7. ASSUME NEW r \in Runs, NEW t \in Targets
      PROVE  /\ seen'[r][t].failures <= seen'[r][t].failureCount
             /\ seen'[r][t].failureCount <= Cardinality(FailedRuns(t)')
  <2>1. seen'[r] = seen[r] \/ seen'[r] = View
    BY <1>1, RunMoves DEF RunMove, SameRun, Loads, Saves, Ends, Wins, Loses, Climbs, Goes
  <2>2. Cardinality(FailedRuns(t)) \in Nat /\ Cardinality(FailedRuns(t)') \in Nat
    BY FailedFinite
  <2>3. CASE seen'[r] = seen[r]
    BY <1>3, <1>4, <2>2, <2>3
  <2>4. CASE seen'[r] = View
    <3>1. seen'[r][t].failures = failures[t] /\ seen'[r][t].failureCount = failureCount[t]
      BY <2>4 DEF View
    <3> QED
      BY <1>2, <1>4, <2>2, <3>1
  <2> QED
    BY <2>1, <2>3, <2>4
<1> QED
  BY <1>6, <1>7 DEF CountInv, CountersNeverOverstate

(***************************************************************************)
(* THEOREM: no overlap of batches and releases makes a target's counts      *)
(* exceed the runs that failed on it (_mark_target_failure).                *)
(***************************************************************************)
THEOREM CountersAreHonest == Spec => []CountersNeverOverstate
<1>1. Init => CountInv
  <2> SUFFICES ASSUME Init PROVE CountInv
    OBVIOUS
  <2>1. ASSUME NEW t \in Targets
        PROVE  Cardinality(FailedRuns(t)) \in Nat /\ failures[t] = 0 /\ failureCount[t] = 0
    BY FailedFinite DEF Init
  <2>2. ASSUME NEW r \in Runs, NEW t \in Targets
        PROVE  seen[r][t].failures = 0 /\ seen[r][t].failureCount = 0
    BY DEF Init, View
  <2> QED
    BY <2>1, <2>2 DEF CountInv, CountersNeverOverstate
<1>2. RunsInv /\ CountInv /\ [Next]_vars => (RunsInv /\ CountInv)'
  BY RunsStep, CountStep
<1>3. CountInv => CountersNeverOverstate
  BY DEF CountInv
<1> QED
  BY <1>1, <1>2, <1>3, InitRuns, PTL DEF Spec

(***************************************************************************)
(* THEOREM: a target waits only for what a scheduled run has committed      *)
(* (run_target_batch_job).                                                  *)
(***************************************************************************)
THEOREM WaitsEarned == Spec => []WaitsAreEarned
<1>1. Init => WaitsAreEarned
  BY DEF Init, WaitsAreEarned
<1>2. ASSUME RunsInv, WaitsAreEarned, [Next]_vars PROVE WaitsAreEarned'
  <2> SUFFICES ASSUME NEW t \in Targets
               PROVE  /\ wait'[t] = 1 => \E r \in Jobs : Succeeded(r, t)'
                      /\ wait'[t] > 1 => FailedRuns(t)' \cap Jobs # {}
    BY DEF WaitsAreEarned
  <2>1. TypeInv /\ TypeOK
    BY <1>2 DEF RunsInv, TypeInv
  <2>2. /\ (\E r \in Jobs : Succeeded(r, t)) => \E r \in Jobs : Succeeded(r, t)'
        /\ FailedRuns(t) \cap Jobs # {} => FailedRuns(t)' \cap Jobs # {}
    BY <1>2, FailuresStay DEF Runs
  <2>3. /\ wait[t] = 1 => \E r \in Jobs : Succeeded(r, t)'
        /\ wait[t] > 1 => FailedRuns(t)' \cap Jobs # {}
    BY <1>2, <2>2 DEF WaitsAreEarned
  <2>4. CASE wait'[t] = wait[t]
    BY <2>3, <2>4
  <2>5. CASE wait'[t] = 0
    BY <2>5
  <2>6. ASSUME NEW r \in Runs, Reschedule(r)
        PROVE  /\ wait'[t] = 1 => \E s \in Jobs : Succeeded(s, t)'
               /\ wait'[t] > 1 => FailedRuns(t)' \cap Jobs # {}
    <3>1. r \in Jobs /\ Whole(r)
      BY <1>2, <2>6 DEF Reschedule, RunsInv, RunInv, CommitInv
    <3>2. CASE t \in Found(r, "success")
      <4>1. Agrees(Tried(r, t), Plan(r, t), mark[r][t]) /\ mark[r][t].result = "success"
        BY <3>1, <3>2 DEF Whole, Found
      <4>2. Succeeded(r, t)'
        BY <1>2, <3>1, <4>1, FailuresStay DEF Agrees, Succeeded, Runs
      <4>3. wait'[t] = 1
        BY <2>6, <3>2 DEF Reschedule, Found
      <4> QED
        BY <3>1, <4>2, <4>3
    <3>3. CASE t \in Found(r, "failed")
      <4>1. Agrees(Tried(r, t), Plan(r, t), mark[r][t]) /\ mark[r][t].result = "failed"
        BY <3>1, <3>3 DEF Whole, Found
      <4>2. Tried(r, t) # {}
        <5>1. PICK n \in 1..Len(Plan(r, t)) : {x.step : x \in Tried(r, t)} = 1..n
          BY <4>1 DEF Agrees, IsClimb
        <5>2. 1 \in 1..n
          BY <5>1
        <5> QED
          BY <5>1, <5>2
      <4>3. r \in FailedRuns(t)
        BY <4>1, <4>2 DEF Agrees, FailedRuns, Succeeded
      <4>4. FailedRuns(t)' \cap Jobs # {}
        BY <1>2, <3>1, <4>3, FailuresStay
      <4>5. wait'[t] = Backoff(seen[r][t].failures + 1)
        BY <2>6, <3>3 DEF Reschedule, Found
      <4>6. wait'[t] > 1 /\ wait'[t] \in Waits
        BY <2>1, <4>5, BackoffFacts DEF TypeOK, Views
      <4>7. wait'[t] # 1
        BY <4>6 DEF Waits
      <4> QED
        BY <4>4, <4>7
    <3>4. CASE t \notin Found(r, "success") /\ t \notin Found(r, "failed")
      <4>1. wait'[t] = wait[t]
        BY <2>6, <3>4 DEF Reschedule
      <4> QED
        BY <2>3, <4>1
    <3> QED
      BY <3>2, <3>3, <3>4
  <2>7. ASSUME NEW u \in Targets, Release(u) \/ TimePasses(u)
        PROVE  wait'[t] = wait[t] \/ wait'[t] = 0
    BY <2>1, <2>7 DEF Release, TimePasses, TypeOK
  <2>8. UNCHANGED rowVars => wait' = wait
    BY DEF rowVars
  <2> QED
    BY <1>2, <2>1, <2>4, <2>5, <2>6, <2>7, <2>8, RowMoves
<1> QED
  BY <1>1, <1>2, InitRuns, RunsStep, PTL DEF Spec

(***************************************************************************)
(* THEOREM: the tier a climb starts at has delivered (_mark_target_success, *)
(* TierRouter.route).                                                       *)
(***************************************************************************)
THEOREM StartsAreProven == Spec => []StartIsProven
<1>1. Init => StartIsProven
  BY DEF Init, StartIsProven
<1>2. ASSUME RunsInv, StartIsProven, [Next]_vars PROVE StartIsProven'
  <2> SUFFICES ASSUME NEW t \in Targets, lastTier'[t] # 0
               PROVE  \E x \in attempts' : /\ x.target = t /\ x.status = "success"
                                           /\ x.tier = lastTier'[t]
    BY DEF StartIsProven
  <2>1. attempts \subseteq attempts'
    BY <1>2, AttemptsMove DEF RunsInv, Saves
  <2>2. CASE lastTier'[t] = lastTier[t]
    BY <1>2, <2>1, <2>2 DEF StartIsProven
  <2>3. ASSUME NEW r \in Runs, Saves(r), SaveMarks(r), lastTier'[t] # lastTier[t]
        PROVE  \E x \in attempts' : /\ x.target = t /\ x.status = "success"
                                    /\ x.tier = lastTier'[t]
    <3>1. t \in Found(r, "success") /\ lastTier'[t] = mark[r][t].tier
      BY <2>3 DEF SaveMarks
    <3> QED
      BY <1>2, <2>3, <3>1, SavedMarks
  <2>4. (\/ UNCHANGED rowVars
         \/ \E r \in Runs : Reschedule(r)
         \/ \E u \in Targets : Release(u) \/ TimePasses(u)) => lastTier'[t] = lastTier[t]
    BY DEF rowVars, Reschedule, Release, TimePasses
  <2> QED
    BY <1>2, <2>2, <2>3, <2>4, RowMoves DEF RunsInv
<1> QED
  BY <1>1, <1>2, InitRuns, RunsStep, PTL DEF Spec

(***************************************************************************)
(* THEOREM: due date and start tier of a target rest on committed attempts. *)
(***************************************************************************)
THEOREM SchedulesStayEarned == Spec => []SchedulesAreEarned
  BY WaitsEarned, StartsAreProven, PTL DEF SchedulesAreEarned

-----------------------------------------------------------------------------
(***************************************************************************)
(* The gate before a source: what it grants, and whom it admits.            *)
(***************************************************************************)

(* A sleeper's bucket is credited up to lastTime on both accounts: the time it     *)
(* sleeps makes up for the token it lacks.  In any other state the time since the  *)
(* bucket was filled last may be credited once more.                              *)
Credit == taken + tokens <= Capacity + lastTime + now
SleeperCredit == \A c \in Callers : At(c, "sleeping") =>
                     taken + tokens <= Capacity + 2 * lastTime
OneSleeper == \A c, d \in Callers : At(c, "sleeping") /\ At(d, "sleeping") => c = d
BreakerCounts ==
    /\ breaker.since <= now
    /\ breaker.state = "closed" => breaker.failures < Threshold
    /\ breaker.state # "closed" => breaker.failures >= Threshold
    /\ breaker.state = "half-open" => Recovered
GateInv == GateTypeOK /\ lastTime <= now /\ Credit /\ SleeperCredit /\ OneSleeper
           /\ BreakerCounts

LEMMA MoveTyped ==
    ASSUME GateTypeOK, NEW c \in Callers, NEW p \in Places, Move(c, p)
    PROVE  /\ caller' \in [Callers -> [at : Places, attempt : Nat, since : Nat]]
           /\ caller'[c].at = p
           /\ \A d \in Callers : d # c => caller'[d] = caller[d]
BY DEF GateTypeOK, Move

LEMMA LeaveTyped ==
    ASSUME GateTypeOK, NEW c \in Callers, Leave(c)
    PROVE  /\ caller' \in [Callers -> [at : Places, attempt : Nat, since : Nat]]
           /\ caller'[c].at = "idle"
           /\ \A d \in Callers : d # c => caller'[d] = caller[d]
BY DEF GateTypeOK, Leave, Fresh, Places

LEMMA FilledTyped ==
    ASSUME GateTypeOK, lastTime <= now
    PROVE  /\ Filled \in 0..Capacity
           /\ Filled <= tokens + (now - lastTime)
BY GateAssumption DEF GateTypeOK, Filled, AtMost

(* The breaker's count is kept by its three operations and by the clock.           *)
LEMMA BreakerSteps ==
    ASSUME GateTypeOK, BreakerCounts, now' = now,
           \/ breaker' = breaker
           \/ CanExecute /\ breaker' = IF breaker.state = "open"
                              THEN [breaker EXCEPT !.state = "half-open"] ELSE breaker
           \/ breaker' = [breaker EXCEPT !.failures = 0, !.state = "closed"]
           \/ breaker' = Failed
    PROVE  /\ breaker' \in [state : {"closed", "open", "half-open"}, failures : Nat, since : Nat]
           /\ BreakerCounts'
<1> USE GateAssumption DEF GateTypeOK, BreakerCounts, Recovered, CanExecute, Failed
<1>1. CASE breaker' = breaker
  BY <1>1
<1>2. CASE CanExecute /\ breaker' = IF breaker.state = "open"
                              THEN [breaker EXCEPT !.state = "half-open"] ELSE breaker
  <2>1. CASE breaker.state = "open"
    <3>1. breaker' = [breaker EXCEPT !.state = "half-open"] BY <1>2, <2>1
    <3> QED BY <1>2, <2>1, <3>1
  <2>2. CASE breaker.state # "open" BY <1>2, <2>2
  <2> QED BY <2>1, <2>2
<1>3. CASE breaker' = [breaker EXCEPT !.failures = 0, !.state = "closed"]
  <2>1. /\ breaker'.failures = 0 /\ breaker'.state = "closed" /\ breaker'.since = breaker.since
        /\ breaker' \in [state : {"closed", "open", "half-open"}, failures : Nat, since : Nat]
    BY <1>3
  <2> QED BY <2>1
<1>4. CASE breaker' = Failed
  <2>1. CASE breaker.state = "closed" BY <1>4, <2>1
  <2>2. CASE breaker.state # "closed" BY <1>4, <2>2
  <2> QED BY <2>1, <2>2
<1> QED BY <1>1, <1>2, <1>3, <1>4

(* A caller that goes anywhere but to sleep, while bucket and clock stand still,   *)
(* leaves the accounts as they are.                                                *)
LEMMA QuietSteps ==
    ASSUME GateInv, NEW c \in Callers, NEW p \in Places \ {"sleeping"}, caller'[c].at = p,
           \A d \in Callers : d # c => caller'[d] = caller[d],
           UNCHANGED <<now, tokens, lastTime, taken>>
    PROVE  Credit' /\ SleeperCredit' /\ OneSleeper' /\ lastTime' <= now'
BY DEF GateInv, Credit, SleeperCredit, OneSleeper, At

THEOREM GateInvHolds == GateSpec => []GateInv
<1>1. GateInit => GateInv
  BY GateAssumption DEF GateInit, GateInv, GateTypeOK, Fresh, Places, Credit, SleeperCredit,
     OneSleeper, BreakerCounts, At
<1>2. GateInv /\ [GateNext]_gateVars => GateInv'
  <2> SUFFICES ASSUME GateInv, [GateNext]_gateVars PROVE GateInv'
    OBVIOUS
  <2>0. GateTypeOK /\ lastTime <= now /\ BreakerCounts
    BY DEF GateInv
  <2>1. ASSUME NEW c \in Callers, Begin(c) PROVE GateInv'
    <3>1. Move(c, "start") /\ UNCHANGED <<now, tokens, lastTime, waiting, breaker, taken>>
      BY <2>1 DEF Begin
    <3>2. "start" \in Places \ {"sleeping"} BY DEF Places
    <3>3. GateTypeOK' BY <2>0, <3>1, <3>2, MoveTyped DEF GateTypeOK
    <3>4. BreakerCounts' BY <2>0, <3>1, BreakerSteps
    <3> QED BY <2>0, <3>1, <3>2, <3>3, <3>4, MoveTyped, QuietSteps DEF GateInv
  <2>2. ASSUME NEW c \in Callers, Admit(c) PROVE GateInv'
    <3>1. /\ Move(c, "queued") /\ waiting' = Append(waiting, c)
          /\ UNCHANGED <<now, tokens, lastTime, taken>>
      BY <2>2 DEF Admit
    <3>2. "queued" \in Places \ {"sleeping"} BY DEF Places
    <3>4. /\ breaker' \in [state : {"closed", "open", "half-open"}, failures : Nat, since : Nat]
          /\ BreakerCounts'
      BY <2>0, <2>2, <3>1, BreakerSteps DEF Admit
    <3>3. GateTypeOK' BY <2>0, <3>1, <3>2, <3>4, MoveTyped DEF GateTypeOK
    <3> QED BY <2>0, <3>1, <3>2, <3>3, <3>4, MoveTyped, QuietSteps DEF GateInv
  <2>3. ASSUME NEW c \in Callers, Refuse(c) PROVE GateInv'
    <3>1. Leave(c) /\ UNCHANGED <<now, tokens, lastTime, waiting, breaker, taken>>
      BY <2>3 DEF Refuse
    <3>2. "idle" \in Places \ {"sleeping"} BY DEF Places
    <3>3. GateTypeOK' BY <2>0, <3>1, <3>2, LeaveTyped DEF GateTypeOK
    <3>4. BreakerCounts' BY <2>0, <3>1, BreakerSteps
    <3> QED BY <2>0, <3>1, <3>2, <3>3, <3>4, LeaveTyped, QuietSteps DEF GateInv
  <2>4. ASSUME NEW c \in Callers, Take(c) PROVE GateInv'
    <3>1. /\ waiting # <<>> /\ waiting' = Tail(waiting) /\ LockIsFree /\ Filled >= Period
          /\ lastTime' = now /\ tokens' = Filled - Period /\ taken' = taken + Period
          /\ Move(c, "calling") /\ UNCHANGED <<now, breaker>>
      BY <2>4 DEF Take
    <3>2. "calling" \in Places BY DEF Places
    <3>3. Filled \in 0..Capacity /\ Filled <= tokens + (now - lastTime)
      BY <2>0, FilledTyped
    <3>4. tokens' \in 0..Capacity /\ taken' \in Nat /\ lastTime' \in Nat /\ now' \in Nat
      BY <2>0, <3>1, <3>3, GateAssumption DEF GateTypeOK
    <3>5. waiting' \in Seq(Callers)
      BY <2>0, <3>1 DEF GateTypeOK
    <3>6. GateTypeOK'
      BY <2>0, <3>1, <3>2, <3>4, <3>5, MoveTyped DEF GateTypeOK
    <3>7. BreakerCounts' BY <2>0, <3>1, BreakerSteps
    <3>8. Credit' /\ lastTime' <= now'
      <4>1. taken + tokens <= Capacity + lastTime + now BY DEF GateInv, Credit
      <4> QED BY <2>0, <3>1, <3>3, <4>1, GateAssumption DEF GateTypeOK, Credit
    <3>9. \A d \in Callers : caller'[d].at # "sleeping"
      BY <2>0, <3>1, <3>2, MoveTyped DEF LockIsFree, At
    <3>10. SleeperCredit' /\ OneSleeper'
      BY <3>9 DEF SleeperCredit, OneSleeper, At
    <3> QED BY <3>6, <3>7, <3>8, <3>10 DEF GateInv
  <2>5. ASSUME NEW c \in Callers, Sleep(c) PROVE GateInv'
    <3>1. /\ waiting # <<>> /\ waiting' = Tail(waiting) /\ LockIsFree
          /\ lastTime' = now /\ tokens' = Filled
          /\ Move(c, "sleeping") /\ UNCHANGED <<now, breaker, taken>>
      BY <2>5 DEF Sleep
    <3>2. "sleeping" \in Places BY DEF Places
    <3>3. Filled \in 0..Capacity /\ Filled <= tokens + (now - lastTime)
      BY <2>0, FilledTyped
    <3>5. waiting' \in Seq(Callers)
      BY <2>0, <3>1 DEF GateTypeOK
    <3>6. GateTypeOK'
      BY <2>0, <3>1, <3>2, <3>3, <3>5, MoveTyped DEF GateTypeOK
    <3>7. BreakerCounts' BY <2>0, <3>1, BreakerSteps
    <3>8. Credit' /\ SleeperCredit' /\ lastTime' <= now'
      <4>1. taken + tokens <= Capacity + lastTime + now BY DEF GateInv, Credit
      <4>2. taken' + tokens' <= Capacity + 2 * lastTime'
        BY <2>0, <3>1, <3>3, <4>1, GateAssumption DEF GateTypeOK
      <4> QED BY <2>0, <3>1, <4>2, GateAssumption DEF GateTypeOK, Credit, SleeperCredit
    <3>9. \A d \in Callers : caller'[d].at = "sleeping" => d = c
      BY <2>0, <3>1, <3>2, MoveTyped DEF LockIsFree, At
    <3> QED BY <3>6, <3>7, <3>8, <3>9 DEF GateInv, OneSleeper, At
  <2>6. ASSUME NEW c \in Callers, Wake(c) PROVE GateInv'
    <3>1. /\ At(c, "sleeping") /\ now >= lastTime + (Period - tokens)
          /\ tokens' = 0 /\ taken' = taken + Period /\ Move(c, "calling")
          /\ UNCHANGED <<now, lastTime, waiting, breaker>>
      BY <2>6 DEF Wake, Rested
    <3>2. "calling" \in Places BY DEF Places
    <3>3. tokens' \in 0..Capacity /\ taken' \in Nat
      BY <2>0, <3>1, GateAssumption DEF GateTypeOK
    <3>4. GateTypeOK'
      BY <2>0, <3>1, <3>2, <3>3, MoveTyped DEF GateTypeOK
    <3>5. BreakerCounts' BY <2>0, <3>1, BreakerSteps
    <3>6. taken + tokens <= Capacity + 2 * lastTime
      BY <3>1 DEF GateInv, SleeperCredit
    <3>7. Credit' /\ lastTime' <= now'
      BY <2>0, <3>1, <3>6, GateAssumption DEF GateTypeOK, Credit
    <3>8. \A d \in Callers : caller'[d].at # "sleeping"
      <4>1. \A d \in Callers : At(d, "sleeping") => d = c
        BY <3>1 DEF GateInv, OneSleeper
      <4> QED BY <2>0, <3>1, <3>2, <4>1, MoveTyped DEF At
    <3> QED BY <3>4, <3>5, <3>7, <3>8 DEF GateInv, SleeperCredit, OneSleeper, At
  <2>7. ASSUME NEW c \in Callers, Cancel(c) PROVE GateInv'
    <3>1. /\ \/ UNCHANGED waiting
             \/ \E i \in DOMAIN waiting : waiting' = RemoveAt(waiting, i)
          /\ Leave(c) /\ UNCHANGED <<now, tokens, lastTime, breaker, taken>>
      BY <2>7 DEF Cancel
    <3>2. "idle" \in Places \ {"sleeping"} BY DEF Places
    <3>3. waiting' \in Seq(Callers)
      <4>1. ASSUME NEW i \in DOMAIN waiting, waiting' = RemoveAt(waiting, i)
            PROVE  waiting' \in Seq(Callers)
        <5>1. waiting \in Seq(Callers) /\ i \in 1..Len(waiting)
          BY <2>0, <4>1 DEF GateTypeOK
        <5>2. /\ SubSeq(waiting, 1, i - 1) \in Seq(Callers)
              /\ SubSeq(waiting, i + 1, Len(waiting)) \in Seq(Callers)
          BY <5>1
        <5> QED BY <4>1, <5>2 DEF RemoveAt
      <4> QED BY <2>0, <3>1, <4>1 DEF GateTypeOK
    <3>4. GateTypeOK' BY <2>0, <3>1, <3>2, <3>3, LeaveTyped DEF GateTypeOK
    <3>5. BreakerCounts' BY <2>0, <3>1, BreakerSteps
    <3> QED BY <2>0, <3>1, <3>2, <3>4, <3>5, LeaveTyped, QuietSteps DEF GateInv
  <2>8. ASSUME NEW c \in Callers, Succeed(c) PROVE GateInv'
    <3>1. /\ Leave(c) /\ breaker' = [breaker EXCEPT !.failures = 0, !.state = "closed"]
          /\ UNCHANGED <<now, tokens, lastTime, waiting, taken>>
      BY <2>8 DEF Succeed
    <3>2. "idle" \in Places \ {"sleeping"} BY DEF Places
    <3>3. /\ breaker' \in [state : {"closed", "open", "half-open"}, failures : Nat, since : Nat]
          /\ BreakerCounts'
      BY <2>0, <3>1, BreakerSteps
    <3>4. GateTypeOK' BY <2>0, <3>1, <3>2, <3>3, LeaveTyped DEF GateTypeOK
    <3> QED BY <2>0, <3>1, <3>2, <3>3, <3>4, LeaveTyped, QuietSteps DEF GateInv
  <2>9. ASSUME NEW c \in Callers, Fail(c) PROVE GateInv'
    <3>1. breaker' = Failed /\ UNCHANGED <<now, tokens, lastTime, waiting, taken>>
      BY <2>9 DEF Fail
    <3>2. /\ breaker' \in [state : {"closed", "open", "half-open"}, failures : Nat, since : Nat]
          /\ BreakerCounts'
      BY <2>0, <3>1, BreakerSteps
    <3>3. PICK p \in Places \ {"sleeping"} :
              /\ caller' \in [Callers -> [at : Places, attempt : Nat, since : Nat]]
              /\ caller'[c].at = p
              /\ \A d \in Callers : d # c => caller'[d] = caller[d]
      <4>1. CASE caller[c].attempt < MaxRetries
        <5>1. caller' = [caller EXCEPT ![c] = [at |-> "backoff", attempt |-> @.attempt + 1,
                                               since |-> now]]
          BY <2>9, <4>1 DEF Fail
        <5>2. "backoff" \in Places \ {"sleeping"} BY DEF Places
        <5>3. /\ caller' \in [Callers -> [at : Places, attempt : Nat, since : Nat]]
              /\ caller'[c].at = "backoff"
              /\ \A d \in Callers : d # c => caller'[d] = caller[d]
          BY <2>0, <5>1, <5>2 DEF GateTypeOK
        <5> QED BY <5>2, <5>3
      <4>2. CASE ~(caller[c].attempt < MaxRetries)
        <5>1. Leave(c) BY <2>9, <4>2 DEF Fail
        <5>2. "idle" \in Places \ {"sleeping"} BY DEF Places
        <5> QED BY <2>0, <5>1, <5>2, LeaveTyped
      <4> QED BY <4>1, <4>2
    <3>4. GateTypeOK' BY <2>0, <3>1, <3>2, <3>3 DEF GateTypeOK
    <3> QED BY <2>0, <3>1, <3>2, <3>3, <3>4, QuietSteps DEF GateInv
  <2>10. ASSUME NEW c \in Callers, Retry(c) PROVE GateInv'
    <3>1. Move(c, "start") /\ UNCHANGED <<now, tokens, lastTime, waiting, breaker, taken>>
      BY <2>10 DEF Retry
    <3>2. "start" \in Places \ {"sleeping"} BY DEF Places
    <3>3. GateTypeOK' BY <2>0, <3>1, <3>2, MoveTyped DEF GateTypeOK
    <3>4. BreakerCounts' BY <2>0, <3>1, BreakerSteps
    <3> QED BY <2>0, <3>1, <3>2, <3>3, <3>4, MoveTyped, QuietSteps DEF GateInv
  <2>11. ASSUME TimeGoesOn PROVE GateInv'
    <3>1. now' = now + 1 /\ UNCHANGED <<tokens, lastTime, waiting, breaker, caller, taken>>
      BY <2>11 DEF TimeGoesOn
    <3>2. GateTypeOK' BY <2>0, <3>1 DEF GateTypeOK
    <3>3. lastTime' <= now' /\ Credit'
      BY <2>0, <3>1, GateAssumption DEF GateTypeOK, GateInv, Credit
    <3>4. SleeperCredit' /\ OneSleeper'
      BY <3>1 DEF GateInv, SleeperCredit, OneSleeper, At
    <3>5. BreakerCounts'
      BY <2>0, <3>1, GateAssumption DEF GateTypeOK, BreakerCounts, Recovered
    <3> QED BY <3>2, <3>3, <3>4, <3>5 DEF GateInv
  <2>12. CASE UNCHANGED gateVars
    BY <2>12 DEF gateVars, GateInv, GateTypeOK, Credit, SleeperCredit, OneSleeper, At,
       BreakerCounts, Recovered
  <2> QED BY <2>1, <2>2, <2>3, <2>4, <2>5, <2>6, <2>7, <2>8, <2>9, <2>10, <2>11, <2>12
       DEF GateNext
<1> QED BY <1>1, <1>2, PTL DEF GateSpec

(* Every caller's place, the bucket's content and the breaker's fields keep their  *)
(* types.                                                                          *)
THEOREM GateTyped == GateSpec => []GateTypeOK
BY GateInvHolds, PTL DEF GateInv

(* However many callers wait, are cancelled and come back, the bucket of a source  *)
(* grants at most its burst and twice its rate (TokenBucketLimiter.acquire).       *)
THEOREM GateGrantsBounded == GateSpec => []GrantsBounded
<1>1. GateInv => GrantsBounded
  BY GateAssumption DEF GateInv, GateTypeOK, Credit, GrantsBounded
<1> QED BY <1>1, GateInvHolds, PTL

(* A caller is admitted only below the threshold of failures, or after the timeout *)
(* since the last one (CircuitBreaker.can_execute).                                *)
THEOREM GateAdmissionGuarded == GateSpec => AdmissionGuarded
<1>1. GateInv /\ [GateNext]_gateVars =>
        [\A c \in Callers : At(c, "start") /\ caller'[c].at = "queued" =>
           breaker.failures < Threshold \/ Recovered]_gateVars
  <2> SUFFICES ASSUME GateInv, GateNext, NEW c \in Callers, At(c, "start"),
                      caller'[c].at = "queued"
               PROVE  breaker.failures < Threshold \/ Recovered
    OBVIOUS
  <2>0. GateTypeOK BY DEF GateInv
  <2>1. ASSUME NEW d \in Callers, Admit(d) PROVE breaker.failures < Threshold \/ Recovered
    BY <2>0, <2>1 DEF Admit, CanExecute, GateInv, BreakerCounts, GateTypeOK
  <2>2. ASSUME NEW d \in Callers, Begin(d) \/ Retry(d) PROVE FALSE
    <3>1. Move(d, "start") BY <2>2 DEF Begin, Retry
    <3> QED BY <2>0, <3>1, MoveTyped DEF At, Places
  <2>3. ASSUME NEW d \in Callers, Refuse(d) \/ Cancel(d) \/ Succeed(d) PROVE FALSE
    <3>1. Leave(d) BY <2>3 DEF Refuse, Cancel, Succeed
    <3> QED BY <2>0, <3>1, LeaveTyped DEF At
  <2>4. ASSUME NEW d \in Callers, Take(d) \/ Wake(d) PROVE FALSE
    <3>1. Move(d, "calling") BY <2>4 DEF Take, Wake
    <3> QED BY <2>0, <3>1, MoveTyped DEF At, Places
  <2>5. ASSUME NEW d \in Callers, Sleep(d) PROVE FALSE
    <3>1. Move(d, "sleeping") BY <2>5 DEF Sleep
    <3> QED BY <2>0, <3>1, MoveTyped DEF At, Places
  <2>6. ASSUME NEW d \in Callers, Fail(d) PROVE FALSE
    <3>1. caller'[c].at # "queued"
      <4>1. CASE c # d
        BY <2>0, <2>6, <4>1, LeaveTyped DEF Fail, GateTypeOK, At
      <4>2. CASE c = d
        BY <2>0, <2>6, <4>2 DEF Fail, GateTypeOK, Leave, Fresh
      <4> QED BY <4>1, <4>2
    <3> QED BY <3>1
  <2>7. ASSUME TimeGoesOn PROVE FALSE
    BY <2>7 DEF TimeGoesOn, At
  <2> QED BY <2>1, <2>2, <2>3, <2>4, <2>5, <2>6, <2>7 DEF GateNext
<1> QED BY <1>1, GateInvHolds, PTL DEF GateSpec, AdmissionGuarded

(* The two together: bucket and breaker of a source hold.                          *)
THEOREM GateAlwaysHolds == GateSpec => GateHolds
BY GateGrantsBounded, GateAdmissionGuarded DEF GateHolds
-----------------------------------------------------------------------------
(***************************************************************************)
(* The list of targets.  BookInv says what each row is and what each        *)
(* request holds: rows to add whose URL nobody has stored since the request *)
(* looked, or a row as it was read, which is as it was unless its change    *)
(* is later.                                                                *)
(***************************************************************************)


IsClass(c) == c = [vendor |-> c.vendor, token |-> c.token, tier |-> c.tier, kind |-> c.kind]
IsRow(t) ==
    /\ t = [url |-> t.url, class |-> t.class, by |-> t.by, looked |-> t.looked,
            stored |-> t.stored, changed |-> t.changed, own |-> t.own, patched |-> t.patched,
            crossed |-> t.crossed]
    /\ IsClass(t.class) /\ t.looked \in Nat
Classed(t) == t.class = Book!ClassifyTarget(t.url) \/ t.own \/ t.patched \/ t.crossed
IsSequence(s) == \E S : s \in Seq(S)

\* No row has had the URL since the request looked.
FreeSince(url, looked, but) ==
    \A i \in DOMAIN rows \ but : rows[i].url = url => rows[i].stored > looked

RowsHold ==
    /\ clock \in Nat /\ ids \in Nat /\ DOMAIN rows \subseteq 1..ids
    /\ \A i \in DOMAIN rows :
          /\ IsRow(rows[i]) /\ Classed(rows[i])
          /\ rows[i].stored \in Nat /\ rows[i].changed \in Nat
          /\ rows[i].looked <= clock /\ rows[i].stored <= clock /\ rows[i].changed <= clock
          /\ \A r \in Users : rows[i].by = r /\ rows[i].stored > 0 => req[r].at = "done"

\* What a request is about to add: no two rows have the same URL, and none that was there.
AddHolds(add, r) ==
    /\ IsSequence(add)
    /\ \A n \in 1..Len(add) :
          /\ IsRow(add[n]) /\ Classed(add[n]) /\ add[n].by = r /\ add[n].looked <= clock
          /\ FreeSince(add[n].url, add[n].looked, {})
          /\ \A m \in 1..Len(add) : add[m].url = add[n].url => m = n

\* What it has read of a row is what the row is, if nobody has changed it since.
EditHolds(q) ==
    /\ q.id \in 1..ids /\ q.since \in Nat /\ q.since <= clock
    /\ q.id \in DOMAIN rows /\ rows[q.id].changed <= q.since =>
           rows[q.id].url = q.read.url /\ rows[q.id].class = q.read.class
    /\ q.at = "store" /\ q.url # q.read.url =>
           q.looked \in Nat /\ q.looked <= clock /\ FreeSince(q.url, q.looked, {q.id})

RequestHolds(q, r) ==
    /\ q = [op |-> q.op, at |-> q.at, id |-> q.id, read |-> q.read, url |-> q.url,
            todo |-> q.todo, add |-> q.add, looked |-> q.looked, since |-> q.since]
    /\ AddHolds(q.add, r)
    /\ q.op = "edit" => EditHolds(q)
    /\ q.at = "done" => q.op = "none"

BookInv ==
    /\ RowsHold
    /\ DOMAIN req = Users /\ \A r \in Users : RequestHolds(req[r], r)
    /\ TargetsExplained

\* Rows change and are added, and commits are counted.
RowsGoOn ==
    /\ clock' \in Nat /\ clock <= clock' /\ ids' \in Nat /\ ids <= ids'
    /\ \A i \in DOMAIN rows' : rows'[i].stored \in Nat /\ rows'[i].changed \in Nat
    /\ \A i \in DOMAIN rows' :
          \/ i \in DOMAIN rows /\ rows'[i] = rows[i]
          \/ /\ i \in DOMAIN rows /\ rows'[i].changed > clock
             /\ rows'[i].url = rows[i].url /\ rows'[i].stored = rows[i].stored
          \/ /\ rows'[i].changed > clock /\ rows'[i].stored > clock
             /\ i \in DOMAIN rows \/ i > ids

LEMMA FreeStays ==
  ASSUME RowsHold, RowsGoOn, NEW url, NEW looked \in Nat, looked <= clock, NEW but,
         FreeSince(url, looked, but), \A i \in but : i <= ids
  PROVE  FreeSince(url, looked, but)'
<1> SUFFICES ASSUME NEW i \in DOMAIN rows' \ but, rows'[i].url = url PROVE rows'[i].stored > looked
  BY DEF FreeSince
<1>1. clock \in Nat
  BY DEF RowsHold
<1>2. CASE i \in DOMAIN rows /\ rows'[i].url = rows[i].url /\ rows'[i].stored = rows[i].stored
  BY <1>2 DEF FreeSince
<1>3. CASE rows'[i].stored > clock
  BY <1>1, <1>3 DEF RowsGoOn
<1> QED BY <1>2, <1>3 DEF RowsGoOn

LEMMA RequestStays ==
  ASSUME RowsHold, RowsGoOn, NEW q, NEW r \in Users, RequestHolds(q, r)
  PROVE  RequestHolds(q, r)'
<1>1. clock \in Nat /\ clock' \in Nat /\ clock <= clock' /\ ids \in Nat /\ ids' \in Nat /\ ids <= ids'
  BY DEF RowsHold, RowsGoOn
<1>2. ASSUME NEW n \in 1..Len(q.add)
      PROVE  q.add[n].looked <= clock' /\ FreeSince(q.add[n].url, q.add[n].looked, {})'
  <2>1. /\ q.add[n].looked \in Nat /\ q.add[n].looked <= clock
        /\ FreeSince(q.add[n].url, q.add[n].looked, {})
    BY DEF RequestHolds, AddHolds, IsRow
  <2> QED BY <1>1, <2>1, FreeStays
<1>3. AddHolds(q.add, r)'
  BY <1>2 DEF RequestHolds, AddHolds
<1>4. ASSUME q.op = "edit" PROVE EditHolds(q)'
  <2>1. EditHolds(q)
    BY <1>4 DEF RequestHolds
  <2>2. q.id \in 1..ids /\ q.since \in Nat /\ q.since <= clock
    BY <2>1 DEF EditHolds
  <2>3. q.id \in 1..ids' /\ q.since <= clock'
    BY <1>1, <2>2
  <2>4. ASSUME q.id \in DOMAIN rows', rows'[q.id].changed <= q.since
        PROVE  rows'[q.id].url = q.read.url /\ rows'[q.id].class = q.read.class
    <3>1. CASE q.id \in DOMAIN rows /\ rows'[q.id] = rows[q.id]
      BY <2>1, <2>4, <3>1 DEF EditHolds
    <3>2. ~(rows'[q.id].changed > clock)
      BY <1>1, <2>2, <2>4 DEF RowsGoOn
    <3> QED BY <2>4, <3>1, <3>2 DEF RowsGoOn
  <2>5. ASSUME q.at = "store", q.url # q.read.url
        PROVE  q.looked \in Nat /\ q.looked <= clock' /\ FreeSince(q.url, q.looked, {q.id})'
    <3>1. q.looked \in Nat /\ q.looked <= clock /\ FreeSince(q.url, q.looked, {q.id})
      BY <2>1, <2>5 DEF EditHolds
    <3> QED BY <1>1, <2>2, <3>1, FreeStays
  <2> QED BY <2>2, <2>3, <2>4, <2>5 DEF EditHolds
<1> QED BY <1>3, <1>4 DEF RequestHolds

\* Only one request moves.
LEMMA RequestsMove ==
  ASSUME BookInv, RowsGoOn, NEW r \in Users, NEW q, req' = [req EXCEPT ![r] = q],
         RequestHolds(q, r)'
  PROVE  /\ DOMAIN req' = Users /\ req'[r] = q /\ \A v \in Users : v # r => req'[v] = req[v]
         /\ \A v \in Users : RequestHolds(req[v], v)'
<1>1. DOMAIN req' = Users /\ req'[r] = q /\ \A v \in Users : v # r => req'[v] = req[v]
  BY DEF BookInv
<1>2. ASSUME NEW v \in Users PROVE RequestHolds(req[v], v)'
  <2>1. CASE v = r
    BY <1>1, <2>1
  <2>2. CASE v # r
    <3>1. PICK k : k = req[v]
      OBVIOUS
    <3>2. RequestHolds(k, v)'
      BY <3>1, RequestStays DEF BookInv
    <3> QED BY <1>1, <2>2, <3>1, <3>2
  <2> QED BY <2>1, <2>2
<1> QED BY <1>1, <1>2

\* Who rests or has ended has nothing to add.
LEMMA RestHolds ==
  ASSUME NEW r \in Users, NEW q \in {Book!Idle, [Book!Idle EXCEPT !.at = "done"]}
  PROVE  RequestHolds(q, r) /\ q.op # "edit"
<1>1. /\ q = [op |-> q.op, at |-> q.at, id |-> q.id, read |-> q.read, url |-> q.url,
              todo |-> q.todo, add |-> q.add, looked |-> q.looked, since |-> q.since]
      /\ q.op = "none" /\ q.add = <<>>
  <2>1. CASE q = Book!Idle
    BY <2>1 DEF Book!Idle
  <2>2. CASE q = [Book!Idle EXCEPT !.at = "done"]
    <3>1. q = [op |-> "none", at |-> "done", id |-> 0, read |-> Book!NoRow, url |-> Book!Url(""),
               todo |-> <<>>, add |-> <<>>, looked |-> 0, since |-> 0]
      BY <2>2, Zenon DEF Book!Idle
    <3> QED BY <3>1
  <2> QED BY <2>1, <2>2
<1>2. IsSequence(<<>>)
  BY DEF IsSequence
<1>3. Len(<<>>) = 0
  OBVIOUS
<1> QED BY <1>1, <1>2, <1>3 DEF RequestHolds, AddHolds

\* A request that changes no row.
LEMMA SameKeeps ==
  ASSUME BookInv, NEW r \in Users, NEW q, req' = [req EXCEPT ![r] = q], Book!Same,
         RequestHolds(q, r), req[r].at # "done" \/ q.at = "done"
  PROVE  BookInv'
<1>1. UNCHANGED <<checks, rows, ids, clock, tried>>
  BY DEF Book!Same
<1>2. RowsGoOn
  BY <1>1 DEF RowsGoOn, BookInv, RowsHold
<1>3. RequestHolds(q, r)'
  BY <1>2, RequestStays DEF BookInv
<1>4. /\ DOMAIN req' = Users /\ req'[r] = q /\ \A v \in Users : v # r => req'[v] = req[v]
      /\ \A v \in Users : RequestHolds(req[v], v)'
  BY <1>2, <1>3, RequestsMove
<1>5. RowsHold'
  BY <1>1, <1>4 DEF BookInv, RowsHold
<1>6. TargetsExplained'
  BY <1>1 DEF BookInv, TargetsExplained, Book!TargetsExplained, Book!DoublesExplained,
              Book!ClassesExplained, Book!Overlap
<1> QED BY <1>4, <1>5, <1>6 DEF BookInv

LEMMA SequencesGrow ==
  ASSUME NEW s, NEW e, IsSequence(s)
  PROVE  /\ Len(s) \in Nat /\ DOMAIN s = 1..Len(s)
         /\ IsSequence(Append(s, e)) /\ Len(Append(s, e)) = Len(s) + 1
         /\ \A n \in 1..Len(s) : Append(s, e)[n] = s[n]
         /\ Append(s, e)[Len(s) + 1] = e
<1>1. PICK S : s \in Seq(S)
  BY DEF IsSequence
<1>2. s \in Seq(S \cup {e}) /\ e \in S \cup {e}
  BY <1>1
<1>3. Append(s, e) \in Seq(S \cup {e})
  BY <1>2
<1>4. IsSequence(Append(s, e))
  BY <1>3 DEF IsSequence
<1> QED BY <1>2, <1>4, AppendProperties

LEMMA NewRowHolds ==
  ASSUME BookInv, NEW r, NEW url, NEW vendor, NEW t, t = Book!NewRow(r, url, vendor)
  PROVE  IsRow(t) /\ Classed(t) /\ t.by = r /\ t.looked = clock /\ t.url = url
<1>1. PICK c : c = Book!ClassifyTarget(url)
  OBVIOUS
<1>2. IsClass(c)
  BY <1>1 DEF Book!ClassifyTarget, IsClass
<1>3. PICK d : d = IF vendor = "" THEN c ELSE [c EXCEPT !.vendor = vendor]
  OBVIOUS
<1>4. IsClass(d)
  <2>1. CASE vendor = ""
    BY <1>2, <1>3, <2>1
  <2>2. CASE vendor # ""
    <3>1. d = [c EXCEPT !.vendor = vendor]
      BY <1>3, <2>2
    <3>2. d = [vendor |-> vendor, token |-> c.token, tier |-> c.tier, kind |-> c.kind]
      BY <1>2, <3>1, Zenon DEF IsClass
    <3> QED BY <3>2 DEF IsClass
  <2> QED BY <2>1, <2>2
<1>5. PICK n : n = Book!NoRow
  OBVIOUS
<1>6. t = [n EXCEPT !.url = url, !.by = r, !.looked = clock, !.own = vendor # "", !.class = d]
  BY <1>1, <1>3, <1>5 DEF Book!NewRow
<1>7. n = [url |-> n.url, class |-> n.class, by |-> n.by, looked |-> n.looked,
           stored |-> n.stored, changed |-> n.changed, own |-> n.own, patched |-> n.patched,
           crossed |-> n.crossed]
  BY <1>5, Zenon DEF Book!NoRow
<1>8. PICK o : o = (vendor # "")
  OBVIOUS
<1>9. t = [n EXCEPT !.url = url, !.by = r, !.looked = clock, !.own = o, !.class = d]
  BY <1>6, <1>8
<1>10. t = [url |-> url, class |-> d, by |-> r, looked |-> clock, stored |-> n.stored,
            changed |-> n.changed, own |-> o, patched |-> n.patched, crossed |-> n.crossed]
  BY <1>7, <1>9, Zenon
<1>11. /\ t.url = url /\ t.class = d /\ t.by = r /\ t.looked = clock /\ t.own = o
       /\ t = [url |-> t.url, class |-> t.class, by |-> t.by, looked |-> t.looked,
               stored |-> t.stored, changed |-> t.changed, own |-> t.own, patched |-> t.patched,
               crossed |-> t.crossed]
  BY <1>10
<1>12. d = c \/ o
  BY <1>3, <1>8
<1>13. clock \in Nat
  BY DEF BookInv, RowsHold
<1> QED BY <1>1, <1>4, <1>11, <1>12, <1>13 DEF IsRow, Classed

LEMMA EndIsSame ==
  ASSUME BookInv, NEW r \in Users, Book!End(r), Book!Same
  PROVE  BookInv'
<1>1. PICK q : q = [Book!Idle EXCEPT !.at = "done"]
  OBVIOUS
<1>2. RequestHolds(q, r) /\ q.at = "done"
  BY <1>1, RestHolds DEF Book!Idle
<1> QED BY <1>1, <1>2, SameKeeps DEF Book!End

LEMMA LookItemKeeps ==
  ASSUME BookInv, NEW r \in Users, Book!LookItem(r)
  PROVE  BookInv'
<1> DEFINE item == Head(req[r].todo)
           skipped == Book!Exists(item.url, {}) \/ Book!Queued(r, item.url)
           new == Book!NewRow(r, item.url, item.vendor)
           plus == IF skipped THEN req[r].add ELSE Append(req[r].add, new)
<1>1. PICK k : k = req[r]
  OBVIOUS
<1>2. PICK q : q = [k EXCEPT !.todo = Tail(k.todo), !.add = plus]
  OBVIOUS
<1>3. /\ req' = [req EXCEPT ![r] = q] /\ Book!Same /\ k.at = "look" /\ k.op = "import"
  BY <1>1, <1>2 DEF Book!LookItem
<1>4. RequestHolds(k, r)
  BY <1>1 DEF BookInv
<1>5. PICK a : a = plus
  OBVIOUS
<1>6. AddHolds(a, r)
  <2>1. AddHolds(k.add, r)
    BY <1>4 DEF RequestHolds
  <2>2. CASE skipped
    BY <1>1, <1>5, <2>1, <2>2
  <2>3. CASE ~skipped
    <3>1. PICK t : t = new
      OBVIOUS
    <3>2. PICK s : s = k.add
      OBVIOUS
    <3>3. a = Append(s, t)
      BY <1>1, <1>5, <2>3, <3>1, <3>2
    <3>4. IsRow(t) /\ Classed(t) /\ t.by = r /\ t.looked = clock /\ t.url = item.url
      BY <3>1, NewRowHolds
    <3>5. IsSequence(s) /\ Len(s) \in Nat /\ DOMAIN s = 1..Len(s)
      BY <2>1, <3>2, SequencesGrow DEF AddHolds
    <3>6. /\ IsSequence(a) /\ Len(a) = Len(s) + 1
          /\ \A n \in 1..Len(s) : a[n] = s[n]
      BY <3>3, <3>5, SequencesGrow
    <3>6a. a[Len(s) + 1] = t
      BY <3>3, <3>5, SequencesGrow
    <3>7. clock \in Nat
      BY DEF BookInv, RowsHold
    <3>8. FreeSince(t.url, t.looked, {})
      BY <2>3, <3>4 DEF FreeSince, Book!Exists
    <3>9. \A n \in 1..Len(s) : s[n].url # t.url
      BY <1>1, <2>3, <3>2, <3>4, <3>5 DEF Book!Queued
    <3> HIDE DEF item, skipped, new, plus
    <3>10. ASSUME NEW n \in 1..Len(a)
           PROVE  /\ IsRow(a[n]) /\ Classed(a[n]) /\ a[n].by = r /\ a[n].looked <= clock
                  /\ FreeSince(a[n].url, a[n].looked, {})
                  /\ \A m \in 1..Len(a) : a[m].url = a[n].url => m = n
      <4>1. CASE n \in 1..Len(s)
        <5>1. a[n] = s[n]
          BY <3>6, <4>1
        <5>2. \A m \in 1..Len(s) : a[m].url = a[n].url => m = n
          BY <2>1, <3>2, <3>6, <4>1 DEF AddHolds
        <5> QED BY <2>1, <3>2, <3>5, <3>6, <3>6a, <3>9, <4>1, <5>1, <5>2 DEF AddHolds
      <4>2. CASE n = Len(s) + 1
        <5>1. \A m \in 1..Len(s) : a[m].url # a[n].url
          BY <3>6, <3>6a, <3>9, <4>2
        <5> QED BY <3>4, <3>5, <3>6, <3>6a, <3>7, <3>8, <4>2, <5>1
      <4> QED BY <3>5, <3>6, <4>1, <4>2
    <3> QED BY <3>6, <3>10 DEF AddHolds
  <2> QED BY <2>2, <2>3
<1>7. q = [op |-> k.op, at |-> k.at, id |-> k.id, read |-> k.read, url |-> k.url,
           todo |-> Tail(k.todo), add |-> a, looked |-> k.looked, since |-> k.since]
  BY <1>2, <1>4, <1>5, Zenon DEF RequestHolds
<1> HIDE DEF plus
<1>8. RequestHolds(q, r)
  <2>1. q.add = a /\ q.op = "import" /\ q.at = "look"
    BY <1>3, <1>7
  <2>2. q = [op |-> q.op, at |-> q.at, id |-> q.id, read |-> q.read, url |-> q.url,
             todo |-> q.todo, add |-> q.add, looked |-> q.looked, since |-> q.since]
    BY <1>7
  <2> QED BY <1>6, <2>1, <2>2 DEF RequestHolds
<1> QED BY <1>1, <1>3, <1>8, SameKeeps

\* A request that begins, with what it holds from then on.
LEMMA BeginKeeps ==
  ASSUME BookInv, NEW r \in Users, NEW q, Book!Begin(r, q), Book!Same, RequestHolds(q, r)
  PROVE  BookInv'
BY SameKeeps DEF Book!Begin

LEMMA LoadedIs ==
  ASSUME BookInv, NEW r \in Users, NEW op, NEW at, NEW i \in DOMAIN rows,
         NEW q, q = Book!Loaded(op, at, i)
  PROVE  /\ q = [op |-> op, at |-> at, id |-> i, read |-> rows[i], url |-> rows[i].url,
                 todo |-> <<>>, add |-> <<>>, looked |-> 0, since |-> clock]
         /\ AddHolds(<<>>, r)
         /\ i \in 1..ids /\ clock \in Nat
<1>1. PICK k : k = Book!Idle
  OBVIOUS
<1>2. k = [op |-> "none", at |-> "idle", id |-> 0, read |-> Book!NoRow, url |-> Book!Url(""),
           todo |-> <<>>, add |-> <<>>, looked |-> 0, since |-> 0]
  BY <1>1 DEF Book!Idle
<1>3. q = [k EXCEPT !.op = op, !.at = at, !.id = i, !.read = rows[i], !.since = clock,
                    !.url = rows[i].url]
  BY <1>1 DEF Book!Loaded
<1>4. q = [op |-> op, at |-> at, id |-> i, read |-> rows[i], url |-> rows[i].url,
           todo |-> <<>>, add |-> <<>>, looked |-> 0, since |-> clock]
  BY <1>2, <1>3, Zenon
<1>5. AddHolds(<<>>, r)
  <2>1. Book!Idle.add = <<>>
    BY DEF Book!Idle
  <2> QED BY <2>1, RestHolds DEF RequestHolds
<1> QED BY <1>4, <1>5 DEF BookInv, RowsHold

\* The requests that read a row.
LEMMA LoadKeeps ==
  ASSUME BookInv, NEW r \in Users, NEW i \in DOMAIN rows,
         \/ Book!BeginRename(r, i) \/ Book!BeginDelete(r, i)
         \/ \E url : Book!BeginEdit(r, i, url)
         \/ \E tier : Book!BeginPatch(r, i, tier)
  PROVE  BookInv'
<1>1. CASE \E url : Book!BeginEdit(r, i, url)
  <2>1. PICK url : Book!BeginEdit(r, i, url)
    BY <1>1
  <2>2. PICK k : k = Book!Loaded("edit", "look", i)
    OBVIOUS
  <2>3. PICK u : u = Book!Normal(url)
    OBVIOUS
  <2>4. PICK q : q = [k EXCEPT !.url = u]
    OBVIOUS
  <2>5. Book!Begin(r, q) /\ Book!Same
    BY <2>1, <2>2, <2>3, <2>4 DEF Book!BeginEdit
  <2>6. /\ k = [op |-> "edit", at |-> "look", id |-> i, read |-> rows[i], url |-> rows[i].url,
                todo |-> <<>>, add |-> <<>>, looked |-> 0, since |-> clock]
        /\ AddHolds(<<>>, r) /\ i \in 1..ids /\ clock \in Nat
    BY <2>2, LoadedIs
  <2>7. q = [op |-> "edit", at |-> "look", id |-> i, read |-> rows[i], url |-> u,
             todo |-> <<>>, add |-> <<>>, looked |-> 0, since |-> clock]
    BY <2>4, <2>6, Zenon
  <2>8. RequestHolds(q, r)
    BY <2>6, <2>7 DEF RequestHolds, EditHolds
  <2> QED BY <2>5, <2>8, BeginKeeps
<1>2. CASE Book!BeginRename(r, i)
  <2>1. PICK q : q = Book!Loaded("edit", "store", i)
    OBVIOUS
  <2>2. Book!Begin(r, q) /\ Book!Same
    BY <1>2, <2>1 DEF Book!BeginRename
  <2>3. /\ q = [op |-> "edit", at |-> "store", id |-> i, read |-> rows[i], url |-> rows[i].url,
                todo |-> <<>>, add |-> <<>>, looked |-> 0, since |-> clock]
        /\ AddHolds(<<>>, r) /\ i \in 1..ids /\ clock \in Nat
    BY <2>1, LoadedIs
  <2>4. RequestHolds(q, r)
    BY <2>3 DEF RequestHolds, EditHolds
  <2> QED BY <2>2, <2>4, BeginKeeps
<1>3. CASE Book!BeginDelete(r, i)
  <2>1. PICK q : q = Book!Loaded("delete", "look", i)
    OBVIOUS
  <2>2. Book!Begin(r, q) /\ Book!Same
    BY <1>3, <2>1 DEF Book!BeginDelete
  <2>3. /\ q = [op |-> "delete", at |-> "look", id |-> i, read |-> rows[i], url |-> rows[i].url,
                todo |-> <<>>, add |-> <<>>, looked |-> 0, since |-> clock]
        /\ AddHolds(<<>>, r)
    BY <2>1, LoadedIs
  <2>4. RequestHolds(q, r)
    BY <2>3 DEF RequestHolds
  <2> QED BY <2>2, <2>4, BeginKeeps
<1>4. CASE \E tier : Book!BeginPatch(r, i, tier)
  <2>1. PICK tier : Book!BeginPatch(r, i, tier)
    BY <1>4
  <2>2. PICK k : k = Book!Loaded("patch", "store", i)
    OBVIOUS
  <2>3. PICK q : q = [k EXCEPT !.looked = tier]
    OBVIOUS
  <2>4. Book!Begin(r, q) /\ Book!Same
    BY <2>1, <2>2, <2>3 DEF Book!BeginPatch
  <2>5. /\ k = [op |-> "patch", at |-> "store", id |-> i, read |-> rows[i], url |-> rows[i].url,
                todo |-> <<>>, add |-> <<>>, looked |-> 0, since |-> clock]
        /\ AddHolds(<<>>, r)
    BY <2>2, LoadedIs
  <2>6. q = [op |-> "patch", at |-> "store", id |-> i, read |-> rows[i], url |-> rows[i].url,
             todo |-> <<>>, add |-> <<>>, looked |-> tier, since |-> clock]
    BY <2>3, <2>5, Zenon
  <2>7. RequestHolds(q, r)
    BY <2>5, <2>6 DEF RequestHolds
  <2> QED BY <2>4, <2>7, BeginKeeps
<1> QED BY <1>1, <1>2, <1>3, <1>4

\* The requests that add rows.
LEMMA EntryKeeps ==
  ASSUME BookInv, NEW r \in Users,
         \/ \E list : Book!BeginImport(r, list)
         \/ \E url : Book!BeginCreate(r, url)
  PROVE  BookInv'
<1>1. PICK k : k = Book!Idle
  OBVIOUS
<1>2. /\ k = [op |-> "none", at |-> "idle", id |-> 0, read |-> Book!NoRow, url |-> Book!Url(""),
              todo |-> <<>>, add |-> <<>>, looked |-> 0, since |-> 0]
      /\ RequestHolds(k, r)
  BY <1>1, RestHolds DEF Book!Idle
<1>3. PICK n, u : n = Book!NoRow /\ u = Book!Url("")
  OBVIOUS
<1>4. CASE \E list : Book!BeginImport(r, list)
  <2>1. PICK list : Book!BeginImport(r, list)
    BY <1>4
  <2>2. PICK q : q = [k EXCEPT !.op = "import", !.at = "look", !.todo = list]
    OBVIOUS
  <2>3. q = [op |-> "import", at |-> "look", id |-> 0, read |-> n, url |-> u,
             todo |-> list, add |-> <<>>, looked |-> 0, since |-> 0]
    BY <1>2, <1>3, <2>2, Zenon
  <2>4. RequestHolds(q, r)
    BY <1>2, <2>3 DEF RequestHolds
  <2> QED BY <1>1, <2>1, <2>2, <2>4, BeginKeeps DEF Book!BeginImport
<1>5. CASE \E url : Book!BeginCreate(r, url)
  <2>1. PICK url : Book!BeginCreate(r, url)
    BY <1>5
  <2>2. PICK v : v = Book!Normal(url)
    OBVIOUS
  <2>3. PICK q : q = [k EXCEPT !.op = "create", !.at = "look", !.url = v]
    OBVIOUS
  <2>4. q = [op |-> "create", at |-> "look", id |-> 0, read |-> n, url |-> v,
             todo |-> <<>>, add |-> <<>>, looked |-> 0, since |-> 0]
    BY <1>2, <1>3, <2>3, Zenon
  <2>5. RequestHolds(q, r)
    BY <1>2, <2>4 DEF RequestHolds
  <2> QED BY <1>1, <2>1, <2>2, <2>3, <2>5, BeginKeeps DEF Book!BeginCreate
<1> QED BY <1>4, <1>5

\* The looks that end the request, or let it go on to its commit.
LEMMA LookKeeps ==
  ASSUME BookInv, NEW r \in Users,
         Book!LookCreate(r) \/ Book!LookEdit(r) \/ Book!LookDelete(r) \/ Book!GiveUp(r)
  PROVE  BookInv'
<1>0. Book!Same
  BY DEF Book!LookCreate, Book!LookEdit, Book!LookDelete, Book!GiveUp
<1>1. CASE Book!End(r)
  BY <1>0, <1>1, EndIsSame
<1>2. PICK k : k = req[r]
  OBVIOUS
<1>3. RequestHolds(k, r)
  BY <1>2 DEF BookInv
<1>4. clock \in Nat
  BY DEF BookInv, RowsHold
<1>5. CASE Book!LookCreate(r) /\ ~Book!End(r)
  <2>0. PICK u, v : u = k.url /\ v = ""
    OBVIOUS
  <2>1. PICK t : t = Book!NewRow(r, u, v)
    OBVIOUS
  <2>2. PICK a : a = <<t>>
    OBVIOUS
  <2>3. PICK q : q = [k EXCEPT !.at = "store", !.add = a]
    OBVIOUS
  <2>4. /\ ~Book!Exists(k.url, {}) /\ req' = [req EXCEPT ![r] = q]
        /\ k.op = "create" /\ k.at = "look"
    BY <1>2, <1>5, <2>0, <2>1, <2>2, <2>3 DEF Book!LookCreate
  <2>5. q = [op |-> k.op, at |-> "store", id |-> k.id, read |-> k.read, url |-> k.url,
             todo |-> k.todo, add |-> a, looked |-> k.looked, since |-> k.since]
    BY <1>3, <2>3, Zenon DEF RequestHolds
  <2>6. IsRow(t) /\ Classed(t) /\ t.by = r /\ t.looked = clock /\ t.url = k.url
    <3>1. IsRow(t) /\ Classed(t) /\ t.by = r /\ t.looked = clock /\ t.url = u
      BY <2>1, NewRowHolds
    <3> QED BY <2>0, <3>1
  <2>7. AddHolds(a, r)
    <3>1. a \in Seq({t}) /\ Len(a) = 1 /\ a[1] = t
      BY <2>2
    <3>2. IsSequence(a)
      BY <3>1 DEF IsSequence
    <3>3. FreeSince(t.url, t.looked, {})
      BY <2>4, <2>6 DEF FreeSince, Book!Exists
    <3> QED BY <1>4, <2>6, <3>1, <3>2, <3>3 DEF AddHolds
  <2>8. RequestHolds(q, r)
    BY <2>4, <2>5, <2>7 DEF RequestHolds
  <2> QED BY <1>0, <1>2, <2>4, <2>8, SameKeeps
<1>6. CASE Book!LookEdit(r) /\ ~Book!End(r)
  <2>1. PICK q : q = [k EXCEPT !.at = "store", !.looked = clock]
    OBVIOUS
  <2>2. /\ ~Book!Exists(k.url, {k.id}) /\ req' = [req EXCEPT ![r] = q]
        /\ k.op = "edit" /\ k.at = "look"
    BY <1>2, <1>6, <2>1 DEF Book!LookEdit
  <2>3. q = [op |-> k.op, at |-> "store", id |-> k.id, read |-> k.read, url |-> k.url,
             todo |-> k.todo, add |-> k.add, looked |-> clock, since |-> k.since]
    BY <1>3, <2>1, Zenon DEF RequestHolds
  <2>4. FreeSince(k.url, clock, {k.id})
    BY <2>2 DEF FreeSince, Book!Exists
  <2>5. RequestHolds(q, r)
    BY <1>3, <1>4, <2>2, <2>3, <2>4 DEF RequestHolds, EditHolds
  <2> QED BY <1>0, <1>2, <2>2, <2>5, SameKeeps
<1>7. CASE Book!LookDelete(r) /\ ~Book!End(r)
  <2>1. PICK q : q = [k EXCEPT !.at = "store"]
    OBVIOUS
  <2>2. /\ req' = [req EXCEPT ![r] = q] /\ k.op = "delete" /\ k.at = "look"
    BY <1>2, <1>7, <2>1 DEF Book!LookDelete
  <2>3. q = [op |-> k.op, at |-> "store", id |-> k.id, read |-> k.read, url |-> k.url,
             todo |-> k.todo, add |-> k.add, looked |-> k.looked, since |-> k.since]
    BY <1>3, <2>1, Zenon DEF RequestHolds
  <2>4. RequestHolds(q, r)
    BY <1>3, <2>2, <2>3 DEF RequestHolds
  <2> QED BY <1>0, <1>2, <2>2, <2>4, SameKeeps
<1> QED BY <1>1, <1>5, <1>6, <1>7 DEF Book!GiveUp

\* Doubles, when some rows have been stored anew by a request that had looked first.
LEMMA DoublesStay ==
  ASSUME BookInv, NEW r \in Users, req[r].at # "done", NEW new,
         \A i \in DOMAIN rows' \ new :
             /\ i \in DOMAIN rows /\ rows'[i].url = rows[i].url /\ rows'[i].by = rows[i].by
             /\ rows'[i].looked = rows[i].looked /\ rows'[i].stored = rows[i].stored,
         \A i \in DOMAIN rows' \cap new :
             /\ rows'[i].by = r /\ rows'[i].stored = clock + 1 /\ rows'[i].looked \in Nat
             /\ rows'[i].looked <= clock
             /\ \A k \in DOMAIN rows \ new : rows[k].url = rows'[i].url =>
                    rows[k].stored > rows'[i].looked
             /\ \A k \in DOMAIN rows' \cap new : rows'[k].url = rows'[i].url => k = i
  PROVE  Book!DoublesExplained'
<1>0. clock \in Nat
  BY DEF BookInv, RowsHold
<1>1. ASSUME NEW i \in DOMAIN rows', NEW k \in DOMAIN rows', i \in new, k \notin new,
             rows'[i].url = rows'[k].url
      PROVE  /\ rows'[i].by # rows'[k].by /\ rows'[i].looked < rows'[k].stored
             /\ rows'[k].looked < rows'[i].stored
  <2>1. /\ rows[k].stored > rows'[i].looked /\ rows'[i].looked \in Nat
        /\ rows[k].stored \in Nat /\ rows[k].looked \in Nat /\ rows[k].looked <= clock
    BY <1>1 DEF BookInv, RowsHold, IsRow
  <2>2. rows[k].by # r
    BY <1>1, <2>1 DEF BookInv, RowsHold
  <2>3. /\ rows'[i].by = r /\ rows'[i].stored = clock + 1
        /\ rows'[k].by = rows[k].by /\ rows'[k].stored = rows[k].stored
        /\ rows'[k].looked = rows[k].looked
    BY <1>1
  <2> QED BY <1>0, <2>1, <2>2, <2>3
<1>2. ASSUME NEW i \in DOMAIN rows', NEW k \in DOMAIN rows', i # k, rows'[i].url = rows'[k].url
      PROVE  /\ rows'[i].by # rows'[k].by /\ rows'[i].looked < rows'[k].stored
             /\ rows'[k].looked < rows'[i].stored
  <2>1. CASE i \in new /\ k \in new
    BY <1>2, <2>1
  <2>2. CASE i \notin new /\ k \notin new
    BY <1>2, <2>2 DEF BookInv, TargetsExplained, Book!TargetsExplained, Book!DoublesExplained,
                      Book!Overlap
  <2>3. CASE (i \in new /\ k \notin new) \/ (i \notin new /\ k \in new)
    BY <1>1, <1>2, <2>3
  <2> QED BY <2>1, <2>2, <2>3
<1> QED BY <1>2 DEF Book!DoublesExplained, Book!Overlap

\* A commit ends its request.
LEMMA CommitKeeps ==
  ASSUME BookInv, RowsGoOn, NEW r \in Users, Book!End(r),
         clock' = clock + 1, DOMAIN rows' \subseteq 1..ids', Book!DoublesExplained',
         (checks => tried \subseteq DOMAIN rows)',
         \A i \in DOMAIN rows' :
             /\ IsRow(rows'[i]) /\ Classed(rows'[i])
             /\ rows'[i].looked <= clock' /\ rows'[i].stored <= clock'
             /\ rows'[i].changed <= clock'
             /\ \/ rows'[i].by = r
                \/ /\ i \in DOMAIN rows
                   /\ rows'[i].by = rows[i].by /\ rows'[i].stored = rows[i].stored
  PROVE  BookInv'
<1>1. PICK q : q = [Book!Idle EXCEPT !.at = "done"]
  OBVIOUS
<1>2. RequestHolds(q, r)' /\ q.at = "done"
  <2>1. RequestHolds(q, r)
    BY <1>1, RestHolds
  <2>2. RequestHolds(q, r)'
    BY <2>1, RequestStays DEF BookInv
  <2> QED BY <1>1, <2>2 DEF Book!Idle
<1>3. /\ DOMAIN req' = Users /\ req'[r] = q /\ \A v \in Users : v # r => req'[v] = req[v]
      /\ \A v \in Users : RequestHolds(req[v], v)'
  BY <1>1, <1>2, RequestsMove DEF Book!End
<1>4. ASSUME NEW i \in DOMAIN rows', NEW v \in Users, rows'[i].by = v, rows'[i].stored > 0
      PROVE  req'[v].at = "done"
  <2>1. CASE v = r
    BY <1>2, <1>3, <2>1
  <2>2. CASE v # r
    BY <1>3, <1>4, <2>2 DEF BookInv, RowsHold
  <2> QED BY <2>1, <2>2
<1>5. RowsHold'
  <2>1. clock' \in Nat /\ ids' \in Nat
    BY DEF RowsGoOn
  <2>2. \A i \in DOMAIN rows' : rows'[i].stored \in Nat /\ rows'[i].changed \in Nat
    BY DEF RowsGoOn
  <2> QED BY <1>4, <2>1, <2>2 DEF RowsHold
<1>6. TargetsExplained'
  BY DEF TargetsExplained, Book!TargetsExplained, Book!ClassesExplained, Classed
<1> QED BY <1>3, <1>5, <1>6 DEF BookInv

LEMMA StoreNewKeeps ==
  ASSUME BookInv, NEW r \in Users, Book!StoreNew(r)
  PROVE  BookInv'
<1>1. PICK k : k = req[r]
  OBVIOUS
<1>2. PICK a : a = k.add
  OBVIOUS
<1>3. clock \in Nat /\ ids \in Nat /\ DOMAIN rows \subseteq 1..ids
  BY DEF BookInv, RowsHold
<1>4. AddHolds(a, r)
  BY <1>1, <1>2 DEF BookInv, RequestHolds
<1>5. Len(a) \in Nat
  BY <1>4, SequencesGrow DEF AddHolds
<1>6. PICK c : c = clock + 1
  OBVIOUS
<1>7. PICK new : new = ids + 1..ids + Len(a)
  OBVIOUS
<1>8. /\ rows' = [i \in DOMAIN rows \cup new |->
                    IF i \in DOMAIN rows THEN rows[i]
                    ELSE [a[i - ids] EXCEPT !.stored = c, !.changed = c]]
      /\ ids' = ids + Len(a) /\ clock' = c /\ UNCHANGED <<checks, tried>> /\ Book!End(r)
      /\ k.at # "done"
  BY <1>1, <1>2, <1>6, <1>7 DEF Book!StoreNew
<1>8a. clock' = c /\ c \in Nat /\ \A n \in Nat : n <= clock => n <= c
  <2>1. clock' = c
    BY <1>8, Zenon
  <2>2. c \in Nat /\ \A n \in Nat : n <= clock => n <= c
    BY <1>3, <1>6
  <2> QED BY <2>1, <2>2
<1>9. DOMAIN rows' = DOMAIN rows \cup new /\ DOMAIN rows \cap new = {}
  <2>1. DOMAIN rows' = DOMAIN rows \cup new
    BY <1>8, Zenon
  <2>2. \A i \in new : i \notin 1..ids
    BY <1>3, <1>5, <1>7
  <2> QED BY <1>3, <2>1, <2>2
<1>10. \A i \in DOMAIN rows : rows'[i] = rows[i]
  BY <1>8
<1>11. ASSUME NEW i \in new
       PROVE  /\ IsRow(rows'[i]) /\ Classed(rows'[i]) /\ rows'[i].by = r
              /\ rows'[i].stored = c /\ rows'[i].changed = c
              /\ rows'[i].looked = a[i - ids].looked /\ rows'[i].url = a[i - ids].url
              /\ i - ids \in 1..Len(a) /\ i > ids
  <2>1. i - ids \in 1..Len(a) /\ i > ids
    BY <1>3, <1>5, <1>7
  <2>2. PICK e : e = a[i - ids]
    OBVIOUS
  <2>3. IsRow(e) /\ Classed(e) /\ e.by = r
    BY <1>4, <2>1, <2>2 DEF AddHolds
  <2>4. PICK t : t = rows'[i]
    OBVIOUS
  <2>5. t = [e EXCEPT !.stored = c, !.changed = c]
    BY <1>8, <1>9, <2>2, <2>4
  <2>6. c \in Nat
    BY <1>3, <1>6
  <2>7. /\ IsRow(t) /\ t.by = e.by /\ t.looked = e.looked /\ t.url = e.url
        /\ t.stored = c /\ t.changed = c /\ (Classed(e) => Classed(t))
    <3>1. t = [url |-> e.url, class |-> e.class, by |-> e.by, looked |-> e.looked,
               stored |-> c, changed |-> c, own |-> e.own, patched |-> e.patched,
               crossed |-> e.crossed]
      BY <2>3, <2>5, Zenon DEF IsRow
    <3> QED BY <2>3, <2>6, <3>1 DEF IsRow, Classed
  <2> QED BY <2>1, <2>2, <2>3, <2>4, <2>7
<1>12. RowsGoOn
  <2>1. \A i \in DOMAIN rows : rows[i].stored \in Nat /\ rows[i].changed \in Nat
    BY DEF BookInv, RowsHold
  <2>2. c \in Nat /\ c > clock /\ clock <= c /\ ids + Len(a) \in Nat /\ ids <= ids + Len(a)
    BY <1>3, <1>5, <1>6
  <2> QED BY <1>8, <1>9, <1>10, <1>11, <2>1, <2>2 DEF RowsGoOn
<1>13. Book!DoublesExplained'
  <2>1. ASSUME NEW i \in DOMAIN rows' \ new
        PROVE  /\ i \in DOMAIN rows /\ rows'[i].url = rows[i].url /\ rows'[i].by = rows[i].by
               /\ rows'[i].looked = rows[i].looked /\ rows'[i].stored = rows[i].stored
    BY <1>9, <1>10
  <2>2. ASSUME NEW i \in DOMAIN rows' \cap new
        PROVE  /\ rows'[i].by = r /\ rows'[i].stored = clock + 1 /\ rows'[i].looked \in Nat
               /\ rows'[i].looked <= clock
               /\ \A j \in DOMAIN rows \ new : rows[j].url = rows'[i].url =>
                      rows[j].stored > rows'[i].looked
               /\ \A j \in DOMAIN rows' \cap new : rows'[j].url = rows'[i].url => j = i
    <3>1. PICK n : n = i - ids
      OBVIOUS
    <3>2. /\ n \in 1..Len(a) /\ rows'[i].looked = a[n].looked /\ rows'[i].url = a[n].url
          /\ rows'[i].by = r /\ rows'[i].stored = c
      BY <1>11, <2>2, <3>1
    <3>3. a[n].looked \in Nat /\ a[n].looked <= clock /\ FreeSince(a[n].url, a[n].looked, {})
      BY <1>4, <3>2 DEF AddHolds, IsRow
    <3>4. ASSUME NEW j \in DOMAIN rows' \cap new, rows'[j].url = rows'[i].url PROVE j = i
      <4>1. PICK m : m = j - ids
        OBVIOUS
      <4>2. m \in 1..Len(a) /\ rows'[j].url = a[m].url
        BY <1>11, <3>4, <4>1
      <4>3. m = n
        BY <1>4, <3>2, <3>4, <4>2 DEF AddHolds
      <4>4. i \in Int /\ j \in Int
        BY <1>3, <1>5, <1>7
      <4> QED BY <1>3, <3>1, <4>1, <4>3, <4>4
    <3> QED BY <1>6, <3>2, <3>3, <3>4 DEF FreeSince
  <2>3. req[r].at # "done"
    BY <1>1, <1>8
  <2>4. \A i \in DOMAIN rows' \ new :
           /\ i \in DOMAIN rows /\ rows'[i].url = rows[i].url /\ rows'[i].by = rows[i].by
           /\ rows'[i].looked = rows[i].looked /\ rows'[i].stored = rows[i].stored
    BY <2>1
  <2>5. \A i \in DOMAIN rows' \cap new :
           /\ rows'[i].by = r /\ rows'[i].stored = clock + 1 /\ rows'[i].looked \in Nat
           /\ rows'[i].looked <= clock
           /\ \A j \in DOMAIN rows \ new : rows[j].url = rows'[i].url =>
                  rows[j].stored > rows'[i].looked
           /\ \A j \in DOMAIN rows' \cap new : rows'[j].url = rows'[i].url => j = i
    BY <2>2
  <2> QED BY <2>3, <2>4, <2>5, DoublesStay
<1>14. DOMAIN rows' \subseteq 1..ids'
  <2>1. 1..ids \subseteq 1..(ids + Len(a)) /\ new \subseteq 1..(ids + Len(a))
    BY <1>3, <1>5, <1>7
  <2> QED BY <1>3, <1>8, <1>9, <2>1
<1>15. (checks => tried \subseteq DOMAIN rows)'
  BY <1>8, <1>9 DEF BookInv, TargetsExplained, Book!TargetsExplained
<1>16. ASSUME NEW i \in DOMAIN rows'
       PROVE  /\ IsRow(rows'[i]) /\ Classed(rows'[i])
              /\ rows'[i].looked <= clock' /\ rows'[i].stored <= clock'
              /\ rows'[i].changed <= clock'
              /\ \/ rows'[i].by = r
                 \/ /\ i \in DOMAIN rows
                    /\ rows'[i].by = rows[i].by /\ rows'[i].stored = rows[i].stored
  <2>1. CASE i \in DOMAIN rows
    <3>1. /\ IsRow(rows[i]) /\ Classed(rows[i]) /\ rows[i].looked \in Nat
          /\ rows[i].stored \in Nat /\ rows[i].changed \in Nat
          /\ rows[i].looked <= clock /\ rows[i].stored <= clock /\ rows[i].changed <= clock
      BY <2>1 DEF BookInv, RowsHold, IsRow
    <3>2. /\ clock' = c /\ rows[i].looked <= c /\ rows[i].stored <= c /\ rows[i].changed <= c
      BY <1>8a, <3>1
    <3>3. rows'[i] = rows[i]
      BY <1>10, <2>1
    <3> QED BY <2>1, <3>1, <3>2, <3>3
  <2>2. CASE i \in new
    <3>1. a[i - ids].looked \in Nat /\ a[i - ids].looked <= clock
      BY <1>4, <1>11, <2>2 DEF AddHolds, IsRow
    <3>2. clock' = c /\ c <= c /\ a[i - ids].looked <= c
      BY <1>8a, <3>1
    <3> QED BY <1>11, <2>2, <3>2
  <2> QED BY <1>9, <2>1, <2>2
<1> QED BY <1>6, <1>8, <1>12, <1>13, <1>14, <1>15, <1>16, CommitKeeps

\* A row changes: it stays where it is, or moves to a URL that was free.
LEMMA ChangeKeeps ==
  ASSUME BookInv, NEW r \in Users, NEW i \in DOMAIN rows, NEW t,
         rows' = [rows EXCEPT ![i] = t], clock' = clock + 1, Book!End(r),
         UNCHANGED <<checks, ids, tried>>, req[r].at # "done",
         IsRow(t), Classed(t), t.changed = clock + 1,
         \/ /\ t.url = rows[i].url /\ t.by = rows[i].by /\ t.looked = rows[i].looked
            /\ t.stored = rows[i].stored
         \/ /\ t.by = r /\ t.stored = clock + 1 /\ t.looked <= clock
            /\ FreeSince(t.url, t.looked, {i})
  PROVE  BookInv'
<1>1. clock \in Nat /\ ids \in Nat /\ DOMAIN rows \subseteq 1..ids
  BY DEF BookInv, RowsHold
<1>2. /\ DOMAIN rows' = DOMAIN rows /\ rows'[i] = t
      /\ \A j \in DOMAIN rows : j # i => rows'[j] = rows[j]
  OBVIOUS
<1>3. \A j \in DOMAIN rows : /\ IsRow(rows[j]) /\ Classed(rows[j]) /\ rows[j].looked \in Nat
                             /\ rows[j].stored \in Nat /\ rows[j].changed \in Nat
                             /\ rows[j].looked <= clock /\ rows[j].stored <= clock
                             /\ rows[j].changed <= clock
  BY DEF BookInv, RowsHold, IsRow
<1>4. RowsGoOn
  <2>1. clock + 1 \in Nat /\ clock <= clock + 1 /\ clock + 1 > clock /\ ids <= ids
    BY <1>1
  <2>2. t.stored \in Nat /\ t.changed \in Nat
    BY <1>3, <2>1
  <2> QED BY <1>1, <1>2, <1>3, <2>1, <2>2 DEF RowsGoOn
<1>5. Book!DoublesExplained'
  <2>1. CASE /\ t.url = rows[i].url /\ t.by = rows[i].by /\ t.looked = rows[i].looked
             /\ t.stored = rows[i].stored
    <3>1. \A j \in DOMAIN rows \ {} :
             /\ j \in DOMAIN rows /\ rows'[j].url = rows[j].url /\ rows'[j].by = rows[j].by
             /\ rows'[j].looked = rows[j].looked /\ rows'[j].stored = rows[j].stored
      BY <1>2, <2>1
    <3> QED BY <1>2, <3>1 DEF BookInv, TargetsExplained, Book!TargetsExplained,
                              Book!DoublesExplained, Book!Overlap
  <2>2. CASE /\ t.by = r /\ t.stored = clock + 1 /\ t.looked <= clock
             /\ FreeSince(t.url, t.looked, {i})
    <3>1. \A j \in DOMAIN rows' \ {i} :
             /\ j \in DOMAIN rows /\ rows'[j].url = rows[j].url /\ rows'[j].by = rows[j].by
             /\ rows'[j].looked = rows[j].looked /\ rows'[j].stored = rows[j].stored
      BY <1>2
    <3>2. t.looked \in Nat
      BY DEF IsRow
    <3>3. \A h \in DOMAIN rows' \cap {i} :
             /\ rows'[h].by = r /\ rows'[h].stored = clock + 1 /\ rows'[h].looked \in Nat
             /\ rows'[h].looked <= clock
             /\ \A j \in DOMAIN rows \ {i} : rows[j].url = rows'[h].url =>
                    rows[j].stored > rows'[h].looked
             /\ \A j \in DOMAIN rows' \cap {i} : rows'[j].url = rows'[h].url => j = h
      BY <1>2, <2>2, <3>2 DEF FreeSince
    <3> QED BY <3>1, <3>3, DoublesStay
  <2> QED BY <2>1, <2>2
<1>6. DOMAIN rows' \subseteq 1..ids'
  BY <1>1, <1>2
<1>7. (checks => tried \subseteq DOMAIN rows)'
  BY <1>2 DEF BookInv, TargetsExplained, Book!TargetsExplained
<1>8. ASSUME NEW j \in DOMAIN rows'
      PROVE  /\ IsRow(rows'[j]) /\ Classed(rows'[j])
             /\ rows'[j].looked <= clock' /\ rows'[j].stored <= clock'
             /\ rows'[j].changed <= clock'
             /\ \/ rows'[j].by = r
                \/ /\ j \in DOMAIN rows
                   /\ rows'[j].by = rows[j].by /\ rows'[j].stored = rows[j].stored
  <2>1. \A n \in Nat : n <= clock => n <= clock + 1
    BY <1>1
  <2>2. CASE j # i
    BY <1>2, <1>3, <2>1, <2>2
  <2>3. CASE j = i
    <3>1. t.looked <= clock + 1 /\ t.stored <= clock + 1 /\ clock + 1 <= clock + 1
      BY <1>1, <1>3, <2>1 DEF IsRow
    <3> QED BY <1>2, <2>3, <3>1
  <2> QED BY <2>2, <2>3
<1> QED BY <1>4, <1>5, <1>6, <1>7, <1>8, CommitKeeps

\* A class, when what differs from what was read is written.
LEMMA ColumnsAreClass ==
  ASSUME NEW cur, IsClass(cur), NEW read, NEW new, NEW f, f = Book!Columns(cur, read, new)
  PROVE  IsClass(f) /\ (read = cur /\ IsClass(new) => f = new)
<1>1. DOMAIN cur = {"vendor", "token", "tier", "kind"}
  BY DEF IsClass
<1>2. f = [c \in {"vendor", "token", "tier", "kind"} |-> Book!Column(cur[c], read[c], new[c])]
  BY <1>1 DEF Book!Columns
<1>3. f = [vendor |-> f.vendor, token |-> f.token, tier |-> f.tier, kind |-> f.kind]
  BY <1>2
<1>4. ASSUME read = cur, IsClass(new) PROVE f = new
  <2>1. f.vendor = new.vendor /\ f.token = new.token /\ f.tier = new.tier /\ f.kind = new.kind
    BY <1>2, <1>4 DEF Book!Column
  <2> QED BY <1>3, <1>4, <2>1 DEF IsClass
<1> QED BY <1>3, <1>4 DEF IsClass

LEMMA StoreEditKeeps ==
  ASSUME BookInv, NEW r \in Users, Book!StoreEdit(r)
  PROVE  BookInv'
<1>1. PICK k : k = req[r]
  OBVIOUS
<1>2. PICK i : i = k.id
  OBVIOUS
<1>3. PICK e : e = rows[i]
  OBVIOUS
<1>4. PICK class : class = Book!Columns(e.class, k.read.class, Book!ClassifyTarget(k.url))
  OBVIOUS
<1>5. PICK url : url = Book!Column(e.url, k.read.url, k.url)
  OBVIOUS
<1>6. PICK by, looked, stored :
        /\ by = IF k.url # k.read.url THEN r ELSE e.by
        /\ looked = IF k.url # k.read.url THEN k.looked ELSE e.looked
        /\ stored = IF k.url # k.read.url THEN clock + 1 ELSE e.stored
  OBVIOUS
<1>7. PICK o : o = Book!Disturbed(r)
  OBVIOUS
<1>8. PICK c : c = clock + 1
  OBVIOUS
<1>9. PICK y : y = [e EXCEPT !.url = url, !.class = class, !.by = by, !.looked = looked,
                            !.stored = stored, !.own = FALSE, !.patched = FALSE, !.crossed = o]
  OBVIOUS
<1>10. PICK t : t = [y EXCEPT !.changed = c]
  OBVIOUS
<1>11. Book!Change(r, y) /\ k.op = "edit" /\ k.at = "store" /\ i \in DOMAIN rows
  BY <1>1, <1>2, <1>3, <1>4, <1>5, <1>6, <1>7, <1>8, <1>9 DEF Book!StoreEdit
<1>12. /\ rows' = [rows EXCEPT ![i] = t] /\ clock' = clock + 1 /\ Book!End(r)
       /\ UNCHANGED <<checks, ids, tried>>
  BY <1>1, <1>2, <1>8, <1>10, <1>11 DEF Book!Change
<1>13. clock \in Nat /\ IsRow(e) /\ Classed(e) /\ e.changed \in Nat
  BY <1>3, <1>11 DEF BookInv, RowsHold
<1>14. t = [url |-> url, class |-> class, by |-> by, looked |-> looked, stored |-> stored,
            changed |-> c, own |-> FALSE, patched |-> FALSE, crossed |-> o]
  <2>1. y = [url |-> url, class |-> class, by |-> by, looked |-> looked, stored |-> stored,
             changed |-> e.changed, own |-> FALSE, patched |-> FALSE, crossed |-> o]
    BY <1>9, <1>13, Zenon DEF IsRow
  <2> QED BY <1>10, <2>1, Zenon
<1>15. EditHolds(k)
  BY <1>1, <1>11 DEF BookInv, RequestHolds
<1>16. IsClass(class)
  BY <1>4, <1>13, ColumnsAreClass DEF IsRow
<1>17. k.url # k.read.url =>
          k.looked \in Nat /\ k.looked <= clock /\ FreeSince(k.url, k.looked, {i})
  BY <1>2, <1>11, <1>15 DEF EditHolds
<1>18. looked \in Nat
  BY <1>6, <1>13, <1>17 DEF IsRow
<1>19. class = Book!ClassifyTarget(url) \/ o
  <2>1. CASE o
    BY <2>1
  <2>2. CASE ~o
    <3>1. k.since \in Nat /\ ~(e.changed > k.since)
      BY <1>1, <1>2, <1>3, <1>7, <1>15, <2>2 DEF Book!Disturbed, EditHolds
    <3>2. e.url = k.read.url /\ e.class = k.read.class
      BY <1>2, <1>3, <1>11, <1>13, <1>15, <3>1 DEF EditHolds
    <3>3. url = k.url
      BY <1>5, <3>2 DEF Book!Column
    <3>4. IsClass(Book!ClassifyTarget(k.url))
      BY DEF Book!ClassifyTarget, IsClass
    <3>5. PICK a, b : a = k.read.class /\ b = Book!ClassifyTarget(k.url)
      OBVIOUS
    <3>6. class = b
      BY <1>4, <1>13, <3>2, <3>4, <3>5, ColumnsAreClass DEF IsRow
    <3> QED BY <3>3, <3>5, <3>6
  <2> QED BY <2>1, <2>2
<1>20. IsRow(t) /\ Classed(t) /\ t.changed = clock + 1
  BY <1>8, <1>14, <1>16, <1>18, <1>19 DEF IsRow, Classed
<1>21. \/ /\ t.url = e.url /\ t.by = e.by /\ t.looked = e.looked /\ t.stored = e.stored
       \/ /\ t.by = r /\ t.stored = clock + 1 /\ t.looked <= clock
          /\ FreeSince(t.url, t.looked, {i})
  BY <1>5, <1>6, <1>14, <1>17 DEF Book!Column
<1>22. req[r].at # "done"
  BY <1>1, <1>11
<1> QED BY <1>3, <1>11, <1>12, <1>20, <1>21, <1>22, ChangeKeeps

LEMMA StorePatchKeeps ==
  ASSUME BookInv, NEW r \in Users, Book!StorePatch(r)
  PROVE  BookInv'
<1>1. PICK k : k = req[r]
  OBVIOUS
<1>2. PICK i : i = k.id
  OBVIOUS
<1>3. PICK e : e = rows[i]
  OBVIOUS
<1>4. PICK tier : tier = Book!Column(e.class.tier, k.read.class.tier, k.looked)
  OBVIOUS
<1>5. PICK class : class = [e.class EXCEPT !.tier = tier]
  OBVIOUS
<1>6. PICK c : c = clock + 1
  OBVIOUS
<1>7. PICK y : y = [e EXCEPT !.class = class, !.patched = TRUE]
  OBVIOUS
<1>8. PICK t : t = [y EXCEPT !.changed = c]
  OBVIOUS
<1>9. Book!Change(r, y) /\ k.op = "patch" /\ i \in DOMAIN rows
  BY <1>1, <1>2, <1>3, <1>4, <1>5, <1>7 DEF Book!StorePatch
<1>10. /\ rows' = [rows EXCEPT ![i] = t] /\ clock' = clock + 1 /\ Book!End(r)
       /\ UNCHANGED <<checks, ids, tried>>
  BY <1>1, <1>2, <1>6, <1>8, <1>9 DEF Book!Change
<1>11. IsRow(e)
  BY <1>3, <1>9 DEF BookInv, RowsHold
<1>12. class = [vendor |-> e.class.vendor, token |-> e.class.token, tier |-> tier,
                kind |-> e.class.kind]
  BY <1>5, <1>11, Zenon DEF IsRow, IsClass
<1>13. t = [url |-> e.url, class |-> class, by |-> e.by, looked |-> e.looked,
            stored |-> e.stored, changed |-> c, own |-> e.own, patched |-> TRUE,
            crossed |-> e.crossed]
  <2>1. y = [url |-> e.url, class |-> class, by |-> e.by, looked |-> e.looked,
             stored |-> e.stored, changed |-> e.changed, own |-> e.own, patched |-> TRUE,
             crossed |-> e.crossed]
    BY <1>7, <1>11, Zenon DEF IsRow
  <2> QED BY <1>8, <2>1, Zenon
<1>14. IsClass(class)
  BY <1>12 DEF IsClass
<1>15. IsRow(t) /\ Classed(t) /\ t.changed = clock + 1
  BY <1>6, <1>11, <1>13, <1>14 DEF IsRow, Classed
<1>16. req[r].at # "done"
  <2>1. k.at # "done"
    BY <1>1, <1>9 DEF BookInv, RequestHolds
  <2> QED BY <1>1, <2>1
<1> QED BY <1>3, <1>9, <1>10, <1>13, <1>15, <1>16, ChangeKeeps

LEMMA StoreDeleteKeeps ==
  ASSUME BookInv, NEW r \in Users, Book!StoreDelete(r)
  PROVE  BookInv'
<1>1. PICK i : i = req[r].id
  OBVIOUS
<1>2. /\ rows' = [j \in DOMAIN rows \ {i} |-> rows[j]] /\ clock' = clock + 1 /\ Book!End(r)
      /\ UNCHANGED <<checks, ids, tried>> /\ (~checks \/ i \notin tried)
  BY <1>1 DEF Book!StoreDelete
<1>3. DOMAIN rows' = DOMAIN rows \ {i} /\ \A j \in DOMAIN rows' : rows'[j] = rows[j]
  BY <1>2
<1>4. clock \in Nat /\ ids \in Nat /\ DOMAIN rows \subseteq 1..ids
  BY DEF BookInv, RowsHold
<1>5. \A j \in DOMAIN rows : /\ IsRow(rows[j]) /\ Classed(rows[j]) /\ rows[j].looked \in Nat
                             /\ rows[j].stored \in Nat /\ rows[j].changed \in Nat
                             /\ rows[j].looked <= clock /\ rows[j].stored <= clock
                             /\ rows[j].changed <= clock
  BY DEF BookInv, RowsHold, IsRow
<1>6. \A n \in Nat : n <= clock => n <= clock + 1
  BY <1>4
<1>7. RowsGoOn
  <2>1. clock + 1 \in Nat /\ clock <= clock + 1 /\ ids <= ids
    BY <1>4
  <2> QED BY <1>2, <1>3, <1>4, <1>5, <2>1 DEF RowsGoOn
<1>8. Book!DoublesExplained'
  BY <1>3 DEF BookInv, TargetsExplained, Book!TargetsExplained, Book!DoublesExplained,
              Book!Overlap
<1>9. (checks => tried \subseteq DOMAIN rows)'
  BY <1>2, <1>3 DEF BookInv, TargetsExplained, Book!TargetsExplained
<1>10. DOMAIN rows' \subseteq 1..ids'
  BY <1>2, <1>3, <1>4
<1> QED BY <1>2, <1>3, <1>5, <1>6, <1>7, <1>8, <1>9, <1>10, CommitKeeps

LEMMA BookStart == Book!BookInit => BookInv
<1> SUFFICES ASSUME Book!BookInit PROVE BookInv
  OBVIOUS
<1>1. PICK page \in Book!Pages :
        rows = <<[Book!NoRow EXCEPT !.url = Book!Url(page),
                                    !.class = Book!ClassifyTarget(Book!Url(page))]>>
  BY DEF Book!BookInit
<1>2. PICK url, class : url = Book!Url(page) /\ class = Book!ClassifyTarget(Book!Url(page))
  OBVIOUS
<1>3. PICK n : n = Book!NoRow
  OBVIOUS
<1>4. PICK t : t = [n EXCEPT !.url = url, !.class = class]
  OBVIOUS
<1>5. /\ n = [url |-> n.url, class |-> n.class, by |-> n.by, looked |-> n.looked,
              stored |-> n.stored, changed |-> n.changed, own |-> n.own,
              patched |-> n.patched, crossed |-> n.crossed]
      /\ n.looked = 0 /\ n.stored = 0 /\ n.changed = 0
  BY <1>3, Zenon DEF Book!NoRow
<1>6. t = [url |-> url, class |-> class, by |-> n.by, looked |-> n.looked, stored |-> n.stored,
           changed |-> n.changed, own |-> n.own, patched |-> n.patched, crossed |-> n.crossed]
  BY <1>4, <1>5, Zenon
<1>7. IsClass(class)
  BY <1>2 DEF Book!ClassifyTarget, IsClass
<1>8. IsRow(t) /\ Classed(t) /\ t.stored = 0 /\ t.changed = 0 /\ t.looked = 0
  BY <1>2, <1>5, <1>6, <1>7 DEF IsRow, Classed
<1>9. rows = <<t>> /\ ids = 1 /\ clock = 0 /\ tried = {} /\ req = [r \in Users |-> Book!Idle]
  BY <1>1, <1>2, <1>3, <1>4 DEF Book!BookInit
<1>10. DOMAIN rows = {1} /\ rows[1] = t
  BY <1>9
<1>11. RowsHold
  BY <1>8, <1>9, <1>10 DEF RowsHold
<1>12. PICK k : k = Book!Idle
  OBVIOUS
<1>13. ASSUME NEW r \in Users PROVE RequestHolds(req[r], r)
  <2>1. RequestHolds(k, r)
    BY <1>12, RestHolds
  <2> QED BY <1>9, <1>12, <2>1
<1>14. TargetsExplained
  BY <1>8, <1>9, <1>10 DEF TargetsExplained, Book!TargetsExplained, Book!DoublesExplained,
                          Book!ClassesExplained, Classed
<1> QED BY <1>9, <1>11, <1>13, <1>14 DEF BookInv

LEMMA BookStep == BookInv /\ [Book!BookNext]_(Book!bookVars) => BookInv'
<1> SUFFICES ASSUME BookInv, [Book!BookNext]_(Book!bookVars) PROVE BookInv'
  OBVIOUS
<1>1. ASSUME NEW r \in Users,
             \/ \E list : Book!BeginImport(r, list)
             \/ \E page \in Book!Pages, spelled \in BOOLEAN :
                  Book!BeginCreate(r, [page |-> page, spelled |-> spelled])
      PROVE  BookInv'
  BY <1>1, EntryKeeps
<1>2. ASSUME NEW r \in Users, NEW i \in DOMAIN rows,
             \/ \E page \in Book!Pages : Book!BeginEdit(r, i, Book!Url(page))
             \/ Book!BeginRename(r, i) \/ Book!BeginDelete(r, i)
             \/ \E tier : Book!BeginPatch(r, i, tier)
      PROVE  BookInv'
  BY <1>2, LoadKeeps
<1>3. ASSUME NEW i \in DOMAIN rows, Book!AddAttempt(i) PROVE BookInv'
  <2>1. UNCHANGED <<checks, rows, ids, clock, req>> /\ tried' = tried \cup {i}
    BY <1>3 DEF Book!AddAttempt
  <2>2. RowsHold' /\ \A r \in Users : RequestHolds(req[r], r)'
    BY <2>1 DEF BookInv, RowsHold, RequestHolds, AddHolds, EditHolds, FreeSince
  <2>3. TargetsExplained'
    BY <2>1 DEF BookInv, TargetsExplained, Book!TargetsExplained, Book!DoublesExplained,
                Book!ClassesExplained, Book!Overlap
  <2> QED BY <2>1, <2>2, <2>3 DEF BookInv
<1>4. CASE UNCHANGED Book!bookVars
  <2>1. UNCHANGED <<checks, rows, ids, clock, req, tried>>
    BY <1>4 DEF Book!bookVars
  <2> QED BY <2>1 DEF BookInv, RowsHold, RequestHolds, AddHolds, EditHolds, FreeSince,
                      TargetsExplained, Book!TargetsExplained, Book!DoublesExplained,
                      Book!ClassesExplained, Book!Overlap
<1>5. CASE Book!BookNext
  BY <1>1, <1>2, <1>3, <1>5, LookItemKeeps, LookKeeps, StoreNewKeeps, StoreEditKeeps,
     StorePatchKeeps, StoreDeleteKeeps DEF Book!BookNext
<1> QED BY <1>4, <1>5

\* Of career_pages.py and targets.py: a page is a target twice only by requests of which each
\* had looked before the other stored, a target is classed the way its URL asks for unless an
\* import, a patch or an overlapping edit said otherwise, and attempts keep their target
\* where the database checks it.
THEOREM TargetsAreExplained == Book!BookSpec => []TargetsExplained
<1>1. BookInv => TargetsExplained
  BY DEF BookInv
<1> QED BY BookStart, BookStep, <1>1, PTL DEF Book!BookSpec

LEMMA TargetPartsRun == MCSpec => Spec /\ GateSpec /\ Book!BookSpec
<1>1. MCInit => Init /\ GateInit /\ Book!BookInit
  BY DEF MCInit
<1>2. ASSUME [MCNext]_<<vars, gateVars, bookVars, part>>
      PROVE  [Next]_vars /\ [GateNext]_gateVars /\ [Book!BookNext]_(Book!bookVars)
  <2>1. CASE UNCHANGED <<vars, gateVars, bookVars, part>>
    BY <2>1 DEF bookVars, Book!bookVars
  <2>2. CASE Next /\ UNCHANGED <<gateVars, bookVars>>
    BY <2>2 DEF bookVars, Book!bookVars
  <2>3. CASE GateNext /\ UNCHANGED <<vars, bookVars>>
    BY <2>3 DEF bookVars, Book!bookVars
  <2>4. CASE Book!BookNext /\ UNCHANGED <<vars, gateVars>>
    BY <2>4
  <2> QED BY <1>2, <2>1, <2>2, <2>3, <2>4 DEF MCNext
<1> QED BY <1>1, <1>2, PTL DEF MCSpec, Spec, GateSpec, Book!BookSpec

\* All three of scraping/: batches of targets, the gate before the sources, and the list of
\* targets hold what the run checks, for any targets, runs, rates, users and lists.
THEOREM TargetsHold ==
  MCSpec => [](CountersNeverOverstate /\ BatchIsAtomic /\ SchedulesAreEarned /\ TargetsExplained)
            /\ GateHolds
BY TargetPartsRun, CountersAreHonest, BatchesAreAtomic, SchedulesStayEarned, GateAlwaysHolds,
   TargetsAreExplained, PTL
=============================================================================

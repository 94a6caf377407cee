--------------------------- MODULE AutoApplyProofs ---------------------------
(***************************************************************************)
(* Proofs about AutoApply, for any jobs, actors, limits and losses, and     *)
(* about Forms and Wizard, for any pages, profiles and patterns.            *)
(*                                                                         *)
(* TypeCorrect is by cases on the actions.  The other theorems on runs      *)
(* share one lemma, ActorMoves: a step touches one actor, whose pc goes one *)
(* place on, to a new run, or back to rest.  Each then treats the two or    *)
(* three actions that matter to it, and the rest by ActorMoves.             *)
(*                                                                         *)
(* What a record says rests on an account of every field while the run      *)
(* goes on (WizardInv, FormsInv): it is dealt with, or still to come; and   *)
(* what is claimed has a source that later fills leave alone.               *)
(***************************************************************************)
EXTENDS MCAutoApply, FiniteSetTheorems, SequenceTheorems, TLAPS

AtRest == {"idle", "next"}

TypeInv ==
  /\ TypeOK
  /\ \A a \in Actors : pc[a] \notin AtRest => job[a] \in Jobs

\* LEMMA: the variables keep their types, and a run has a job.
LEMMA TypeStep == TypeInv /\ [Next]_vars => TypeInv'
<1> SUFFICES ASSUME TypeInv, [Next]_vars PROVE TypeInv'
  OBVIOUS
<1> USE NoJobAssumption DEF TypeInv, TypeOK, AtRest, Steps, Checks, dbVars, ghostVars, runVars,
        Goto, EndRun
<1>1. ASSUME NEW a \in Actors, NEW j \in Jobs, BeginRun(a, j) PROVE TypeInv'
  BY <1>1 DEF BeginRun
<1>2. ASSUME NEW a \in Actors, Finish(a) \/ Refuse(a) \/ Proceed(a) PROVE TypeInv'
  BY <1>2 DEF Finish, Refuse, Proceed
<1>3. ASSUME NEW a \in Actors, CheckKnown(a) PROVE TypeInv'
  <2>1. confirmed' \subseteq Providers
    BY <1>3 DEF CheckKnown, Providers
  <2> QED
    BY <1>3, <2>1 DEF CheckKnown, Check
<1>4. ASSUME NEW a \in Actors, CheckDuplicate(a) PROVE TypeInv'
  BY <1>4 DEF CheckDuplicate, Check
<1>5. ASSUME NEW a \in Actors, CheckDailyLimit(a) PROVE TypeInv'
  BY <1>5 DEF CheckDailyLimit, Check
<1>6. ASSUME NEW a \in Actors, CheckHourlyLimit(a) PROVE TypeInv'
  BY <1>6 DEF CheckHourlyLimit, Check
<1>7. ASSUME NEW a \in Actors, CheckCooldown(a) PROVE TypeInv'
  BY <1>7 DEF CheckCooldown, Check
<1>8. ASSUME NEW a \in Actors, PostAccepted(a) \/ PostUnanswered(a) \/ PostRejected(a)
      PROVE  TypeInv'
  <2>1. posted' \in [Jobs -> Nat] /\ lost' \in [Jobs -> Nat] /\ losses' \in Nat
    <3>1. job[a] \in Jobs
      BY <1>8 DEF PostAccepted, PostUnanswered, PostRejected
    <3>2. CASE PostAccepted(a)
      BY <3>1, <3>2 DEF PostAccepted, Accept
    <3>3. CASE PostUnanswered(a)
      BY <3>1, <3>3 DEF PostUnanswered, Accept, Forget
    <3>4. CASE PostRejected(a)
      BY <3>4 DEF PostRejected
    <3> QED
      BY <1>8, <3>2, <3>3, <3>4
  <2>2. pc' \in [Actors -> Steps] /\ job' \in [Actors -> Jobs \cup {NoJob}]
        /\ \A b \in Actors : pc'[b] \notin AtRest => job'[b] \in Jobs
    BY <1>8 DEF PostAccepted, PostUnanswered, PostRejected
  <2>3. failedChecks' \in [Actors -> SUBSET Checks] /\ existing' \subseteq Actors
    BY <1>8 DEF PostAccepted, PostUnanswered, PostRejected
  <2>4. UNCHANGED <<applications, submitted, filled, todo, confirmed>>
    BY <1>8 DEF PostAccepted, PostUnanswered, PostRejected
  <2> QED
    BY <2>1, <2>2, <2>3, <2>4
<1>9. ASSUME NEW a \in Actors, LookUp(a) PROVE TypeInv'
  BY <1>9 DEF LookUp
<1>10. ASSUME NEW a \in Actors, CommitSuccess(a) \/ FillSucceeds(a) \/ FillFails(a)
       PROVE  TypeInv'
  <2>1. job[a] \in Jobs
    BY <1>10 DEF CommitSuccess, FillSucceeds, FillFails
  <2>2. applications' \in [Jobs -> Nat] /\ submitted' \in [Jobs -> Nat]
    <3>1. CASE CommitSuccess(a)
      <4>1. CASE a \in existing
        BY <2>1, <3>1, <4>1 DEF CommitSuccess
      <4>2. CASE a \notin existing
        BY <2>1, <3>1, <4>2 DEF CommitSuccess
      <4> QED
        BY <4>1, <4>2
    <3> QED
      BY <1>10, <3>1 DEF FillSucceeds, FillFails
  <2>3. filled' \in Seq(Jobs)
    <3>1. filled' = filled \/ filled' = Append(filled, job[a])
      BY <1>10 DEF CommitSuccess, FillSucceeds, FillFails
    <3>2. filled \in Seq(Jobs)
      OBVIOUS
    <3> QED
      BY ONLY <2>1, <3>1, <3>2, AppendProperties
  <2>4. pc' \in [Actors -> Steps] /\ job' \in [Actors -> Jobs \cup {NoJob}]
        /\ \A b \in Actors : pc'[b] \notin AtRest => job'[b] \in Jobs
    BY <1>10 DEF CommitSuccess, FillSucceeds, FillFails
  <2>5. failedChecks' \in [Actors -> SUBSET Checks] /\ existing' \subseteq Actors
    BY <1>10 DEF CommitSuccess, FillSucceeds, FillFails
  <2>6. UNCHANGED <<todo, ghostVars>>
    BY <1>10 DEF CommitSuccess, FillSucceeds, FillFails
  <2> QED
    BY <2>2, <2>3, <2>4, <2>5, <2>6
<1>11. ASSUME NEW a \in Actors, StartBatch(a) PROVE TypeInv'
  <2>1. todo' \in [Actors -> SUBSET Jobs]
    <3>1. PICK S \in SUBSET Candidates : todo' = [todo EXCEPT ![a] = S]
      BY <1>11 DEF StartBatch
    <3>2. S \subseteq Jobs
      BY DEF Candidates
    <3> QED
      BY <3>1, <3>2
  <2>2. pc' = [pc EXCEPT ![a] = "next"]
        /\ UNCHANGED <<job, failedChecks, existing, dbVars, ghostVars>>
    BY <1>11 DEF StartBatch
  <2> QED
    BY <2>1, <2>2
<1>12. ASSUME NEW a \in Actors, NEW j \in Jobs, StartSingle(a, j) PROVE TypeInv'
  BY <1>12 DEF StartSingle
<1>13. ASSUME NEW a \in Actors, Abort(a) \/ AbortPosting(a) PROVE TypeInv'
  <2>1. job[a] \in Jobs \/ pc[a] \in AtRest
    OBVIOUS
  <2>2. posted' \in [Jobs -> Nat]
    <3>1. CASE AbortPosting(a)
      BY <2>1, <3>1 DEF AbortPosting, Accept
    <3> QED
      BY <1>13, <3>1 DEF Abort
  <2>3. lost' \in [Jobs -> Nat] /\ losses' \in Nat
    <3>1. CASE job[a] \in Jobs /\ Forget(job[a])
      BY <3>1 DEF Forget
    <3>2. CASE UNCHANGED <<lost, losses>>
      BY <3>2
    <3>3. CASE Abort(a)
      <4>1. CASE pc[a] \in {"lookup", "commit"}
        BY <2>1, <3>1, <3>3, <4>1 DEF Abort
      <4>2. CASE pc[a] \notin {"lookup", "commit"}
        BY <3>2, <3>3, <4>2 DEF Abort
      <4> QED
        BY <4>1, <4>2
    <3> QED
      BY <1>13, <2>1, <3>1, <3>3 DEF AbortPosting
  <2>4. Stop(a) /\ UNCHANGED confirmed
    BY <1>13 DEF Abort, AbortPosting
  <2> QED
    BY <2>2, <2>3, <2>4 DEF Stop
<1>14. ASSUME NEW j \in Jobs, SaveApplication(j) PROVE TypeInv'
  BY <1>14 DEF SaveApplication
<1>15. CASE UNCHANGED vars
  BY <1>15 DEF vars
<1> QED
  BY <1>1, <1>2, <1>3, <1>4, <1>5, <1>6, <1>7, <1>8, <1>9, <1>10, <1>11, <1>12, <1>13,
     <1>14, <1>15 DEF Next, Actor

\* LEMMA: the types hold at the start.
LEMMA TypeInit == Init => TypeInv
BY DEF Init, TypeInv, TypeOK, Steps, AtRest

(***************************************************************************)
(* The variables keep their types in every behaviour.                       *)
(***************************************************************************)
THEOREM TypeCorrect == Spec => []TypeOK
<1>1. TypeInv => TypeOK
  BY DEF TypeInv
<1> QED
  BY TypeInit, TypeStep, <1>1, PTL DEF Spec

-----------------------------------------------------------------------------
(***************************************************************************)
(* What a step does to the actors, whichever action it is.                  *)
(***************************************************************************)
SameActor(b) ==
  pc'[b] = pc[b] /\ job'[b] = job[b] /\ failedChecks'[b] = failedChecks[b]

CheckStep(a, from, to) ==
  /\ pc[a] = from
  /\ pc'[a] = to
  /\ job'[a] = job[a]
  /\ failedChecks[a] \subseteq failedChecks'[a]

Moves(a) ==
  \/ pc'[a] \in {"idle", "next", "known"}
  \/ /\ CheckStep(a, "known", "duplicate")
     /\ \/ "first_time_ats" \in failedChecks'[a]
        \/ a \in Singles /\ UrlAts[job[a]] \in confirmed'
        \/ UrlAts[job[a]] \in Known \cup {NoAts}
  \/ /\ CheckStep(a, "duplicate", "daily")
     /\ "duplicate" \in failedChecks'[a] \/ applications[job[a]] = 0
  \/ /\ CheckStep(a, "daily", "hourly")
     /\ "daily_limit" \in failedChecks'[a] \/ Len(filled) + 1 < DailyLimit
  \/ CheckStep(a, "hourly", "cooldown")
  \/ CheckStep(a, "cooldown", "verdict")
  \/ CheckStep(a, "verdict", "post") /\ failedChecks[a] = {}
  \/ CheckStep(a, "verdict", "fill") /\ failedChecks[a] = {}
  \/ CheckStep(a, "post", "lookup")
  \/ CheckStep(a, "lookup", "commit")

\* LEMMA: a step of an actor moves it one place and leaves the others alone.
LEMMA ActorMoves ==
  ASSUME TypeInv, Next, ~ \E j \in Jobs : SaveApplication(j)
  PROVE  \E a \in Actors :
           /\ Moves(a)
           /\ \A b \in Actors \ {a} : SameActor(b)
           /\ confirmed \subseteq confirmed'
           /\ CommitSuccess(a) \/ UNCHANGED <<applications, submitted>>
           /\ FillSucceeds(a) \/ UNCHANGED filled
<1> USE DEF TypeInv, TypeOK, SameActor, Goto, EndRun, dbVars, ghostVars
<1> DEFINE Result(a) ==
      /\ Moves(a)
      /\ \A b \in Actors \ {a} : SameActor(b)
      /\ confirmed \subseteq confirmed'
      /\ CommitSuccess(a) \/ UNCHANGED <<applications, submitted>>
      /\ FillSucceeds(a) \/ UNCHANGED filled
<1>1. ASSUME NEW a \in Actors, NEW j \in Jobs, BeginRun(a, j) \/ StartSingle(a, j)
      PROVE  Result(a)
  BY <1>1 DEF BeginRun, StartSingle, Moves
<1>2. ASSUME NEW a \in Actors, StartBatch(a) \/ Finish(a) \/ Refuse(a) PROVE Result(a)
  BY <1>2 DEF StartBatch, Finish, Refuse, Moves
<1>3. ASSUME NEW a \in Actors, CheckKnown(a) PROVE Result(a)
  BY <1>3 DEF CheckKnown, Check, Moves, CheckStep
<1>4. ASSUME NEW a \in Actors, CheckDuplicate(a) PROVE Result(a)
  BY <1>4 DEF CheckDuplicate, Check, Moves, CheckStep
<1>5. ASSUME NEW a \in Actors, CheckDailyLimit(a) PROVE Result(a)
  BY <1>5 DEF CheckDailyLimit, RunsToday, Check, Moves, CheckStep
<1>6. ASSUME NEW a \in Actors, CheckHourlyLimit(a) PROVE Result(a)
  BY <1>6 DEF CheckHourlyLimit, Check, Moves, CheckStep
<1>7. ASSUME NEW a \in Actors, CheckCooldown(a) PROVE Result(a)
  BY <1>7 DEF CheckCooldown, Check, Moves, CheckStep
<1>8. ASSUME NEW a \in Actors, Proceed(a) PROVE Result(a)
  BY <1>8 DEF Proceed, Safe, Moves, CheckStep
<1>9. ASSUME NEW a \in Actors, PostAccepted(a) \/ LookUp(a) PROVE Result(a)
  BY <1>9 DEF PostAccepted, LookUp, Moves, CheckStep
<1>10. ASSUME NEW a \in Actors, PostUnanswered(a) \/ PostRejected(a) \/ FillFails(a)
       PROVE  Result(a)
  BY <1>10 DEF PostUnanswered, PostRejected, FillFails, Moves
<1>11. ASSUME NEW a \in Actors, CommitSuccess(a) PROVE Result(a)
  BY <1>11 DEF CommitSuccess, Moves
<1>12. ASSUME NEW a \in Actors, FillSucceeds(a) PROVE Result(a)
  BY <1>12 DEF FillSucceeds, Moves
<1>13. ASSUME NEW a \in Actors, Abort(a) \/ AbortPosting(a) PROVE Result(a)
  <2>1. Stop(a) /\ UNCHANGED confirmed
    BY <1>13 DEF Abort, AbortPosting
  <2> QED
    BY <2>1 DEF Stop, Moves
<1>14. PICK a \in Actors : Result(a)
  <2> HIDE DEF Result
  <2> QED
    BY <1>1, <1>2, <1>3, <1>4, <1>5, <1>6, <1>7, <1>8, <1>9, <1>10, <1>11, <1>12, <1>13
       DEF Next, Actor
<1> QED
  BY <1>14

Frozen == UNCHANGED <<pc, job, failedChecks, submitted, filled, confirmed>>

\* LEMMA: the rest of the steps leave the actors where they are.
LEMMA NoActorMoves ==
  ASSUME [Next]_vars, ~ Next \/ \E j \in Jobs : SaveApplication(j)
  PROVE  Frozen
BY DEF Frozen, vars, SaveApplication, runVars, ghostVars

-----------------------------------------------------------------------------
(***************************************************************************)
(* The daily limit.  An actor that passed the check and has yet to fill its *)
(* form is a slot taken in advance.                                         *)
(***************************************************************************)
Filling ==
  {a \in Actors : \/ pc[a] = "fill"
                  \/ /\ pc[a] \in {"hourly", "cooldown", "verdict"}
                     /\ "daily_limit" \notin failedChecks[a]}

DailyInv ==
  /\ DailyLimit >= 2 => Len(filled) + Cardinality(Filling) + 2 <= DailyLimit + Cardinality(Actors)
  /\ DailyLimit < 2 => filled = <<>> /\ Filling = {}

\* LEMMA: a set of actors is finite, and no larger than all of them.
LEMMA ActorSets ==
  ASSUME NEW S \in SUBSET Actors
  PROVE  /\ IsFiniteSet(S)
         /\ Cardinality(S) \in Nat
         /\ Cardinality(S) <= Cardinality(Actors)
         /\ Cardinality(Actors) \in Nat
         /\ \A T \in SUBSET S : Cardinality(T) \in Nat /\ Cardinality(T) <= Cardinality(S)
BY FS_Subset, FS_CardinalityType, ActorsAssumption

\* LEMMA: the slots taken never exceed what the limit leaves.
LEMMA DailyStep == TypeInv /\ DailyInv /\ [Next]_vars => DailyInv'
<1> SUFFICES ASSUME TypeInv, DailyInv, [Next]_vars PROVE DailyInv'
  OBVIOUS
<1>0. /\ Len(filled) \in Nat /\ DailyLimit \in Nat
      /\ Cardinality(Filling) \in Nat /\ Cardinality(Filling') \in Nat
      /\ Cardinality(Filling') <= Cardinality(Actors) /\ Cardinality(Actors) \in Nat
  <2>1. Filling \in SUBSET Actors /\ Filling' \in SUBSET Actors
    BY DEF Filling
  <2> QED
    BY <2>1, ActorSets, DailyLimitAssumption, LenProperties DEF TypeInv, TypeOK
<1>1. CASE ~ Next \/ \E j \in Jobs : SaveApplication(j)
  <2>1. Frozen
    BY <1>1, NoActorMoves
  <2> QED
    BY <2>1 DEF Frozen, DailyInv, Filling
<1>2. CASE Next /\ ~ \E j \in Jobs : SaveApplication(j)
  <2>1. PICK a \in Actors :
           /\ Moves(a)
           /\ \A b \in Actors \ {a} : SameActor(b)
           /\ FillSucceeds(a) \/ UNCHANGED filled
    BY <1>2, ActorMoves
  <2>2. Filling' \ {a} \subseteq Filling \ {a}
    BY <2>1 DEF Filling, SameActor
  <2>3. CASE FillSucceeds(a)
    <3>1. a \in Filling /\ a \notin Filling'
      BY <2>3 DEF FillSucceeds, EndRun, Goto, Filling, TypeInv, TypeOK
    <3>2. Filling' \subseteq Filling \ {a}
      BY <2>2, <3>1
    <3>3. Cardinality(Filling') + 1 <= Cardinality(Filling)
      <4>1. Cardinality(Filling \ {a}) = Cardinality(Filling) - 1 /\ IsFiniteSet(Filling \ {a})
        BY <3>1, FS_RemoveElement, ActorSets DEF Filling
      <4>2. Cardinality(Filling') <= Cardinality(Filling \ {a})
        BY <3>2, <4>1, FS_Subset
      <4>3. Cardinality(Filling \ {a}) \in Nat
        BY <4>1, FS_CardinalityType
      <4> QED
        BY <1>0, <4>1, <4>2, <4>3
    <3>4. Len(filled') = Len(filled) + 1
      <4>1. job[a] \in Jobs /\ filled \in Seq(Jobs) /\ filled' = Append(filled, job[a])
        BY <2>3 DEF FillSucceeds, TypeInv, TypeOK, AtRest
      <4> QED
        BY <4>1, AppendProperties
    <3>5. DailyLimit >= 2
      BY <1>0, <3>1 DEF DailyInv
    <3> QED
      BY <1>0, <3>3, <3>4, <3>5 DEF DailyInv
  <2>4. CASE UNCHANGED filled
    <3>1. CASE a \in Filling' /\ a \notin Filling
      <4>1. Len(filled) + 1 < DailyLimit
        BY <2>1, <3>1 DEF Moves, CheckStep, Filling
      <4> QED
        BY <1>0, <2>4, <4>1 DEF DailyInv
    <3>2. CASE ~ (a \in Filling' /\ a \notin Filling)
      <4>1. Filling' \subseteq Filling
        BY <2>2, <3>2
      <4>2. Cardinality(Filling') <= Cardinality(Filling)
        BY <4>1, ActorSets DEF Filling
      <4> QED
        BY <1>0, <2>4, <4>1, <4>2 DEF DailyInv
    <3> QED
      BY <3>1, <3>2
  <2> QED
    BY <2>1, <2>3, <2>4
<1> QED
  BY <1>1, <1>2

\* LEMMA: at the start no slot is taken.
LEMMA DailyInit == Init => DailyInv
<1> SUFFICES ASSUME Init PROVE DailyInv
  OBVIOUS
<1>1. Filling = {} /\ filled = <<>>
  BY DEF Init, Filling
<1>2. Cardinality({}) = 0 /\ Len(<<>>) = 0 /\ Cardinality(Actors) \in Nat
  BY FS_EmptySet, ActorSets
<1> QED
  BY <1>1, <1>2, DailyLimitAssumption DEF DailyInv

(***************************************************************************)
(* However many actors run at once, the filled forms of a day exceed the    *)
(* limit by at most the number of actors less two.                          *)
(***************************************************************************)
THEOREM DailyLimitIsHeld == Spec => []DailyLimitHeld
<1>1. TypeInv /\ DailyInv => DailyLimitHeld
  <2> SUFFICES ASSUME TypeInv, DailyInv PROVE DailyLimitHeld
    OBVIOUS
  <2>1. Cardinality(Filling) \in Nat /\ Len(filled) \in Nat /\ Cardinality(Actors) \in Nat
    BY ActorSets, LenProperties DEF Filling, TypeInv, TypeOK
  <2> QED
    BY <2>1, DailyLimitAssumption DEF DailyInv, DailyLimitHeld
<1> QED
  BY TypeInit, TypeStep, DailyInit, DailyStep, <1>1, PTL DEF Spec

-----------------------------------------------------------------------------
(***************************************************************************)
(* Applications and success runs.                                           *)
(***************************************************************************)
RecordInv ==
  /\ SubmittedIsRecorded
  /\ \A a \in existing : pc[a] = "commit" /\ applications[job[a]] > 0

\* LEMMA: an Application never disappears.
LEMMA ApplicationsGrow ==
  ASSUME TypeInv, [Next]_vars
  PROVE  \A j \in Jobs : applications[j] > 0 => applications'[j] > 0
<1>1. ASSUME NEW a \in Actors, CommitSuccess(a)
      PROVE  \A j \in Jobs : applications[j] > 0 => applications'[j] > 0
  <2>1. applications' = applications \/ applications' = [applications EXCEPT ![job[a]] = @ + 1]
    BY <1>1 DEF CommitSuccess
  <2>2. ASSUME NEW j \in Jobs, applications[j] > 0 PROVE applications'[j] > 0
    <3>1. applications[j] \in Nat /\ applications \in [Jobs -> Nat]
      BY DEF TypeInv, TypeOK
    <3>2. applications'[j] \in {applications[j], applications[j] + 1}
      BY ONLY <2>1, <3>1, j \in Jobs
    <3> QED
      BY ONLY <2>2, <3>1, <3>2
  <2> QED
    BY <2>2
<1>2. ASSUME NEW i \in Jobs, SaveApplication(i)
      PROVE  \A j \in Jobs : applications[j] > 0 => applications'[j] > 0
  BY <1>2 DEF SaveApplication, TypeInv, TypeOK
<1>3. (\E a \in Actors : CommitSuccess(a)) \/ (\E i \in Jobs : SaveApplication(i))
      \/ UNCHANGED applications
  BY ActorMoves DEF vars
<1> QED
  BY <1>1, <1>2, <1>3

\* LEMMA: a query that found an Application belongs to a run about to commit.
LEMMA RecordStep == TypeInv /\ RecordInv /\ [Next]_vars => RecordInv'
<1> SUFFICES ASSUME TypeInv, RecordInv, [Next]_vars PROVE RecordInv'
  OBVIOUS
<1> USE DEF TypeInv, TypeOK, RecordInv, SubmittedIsRecorded
<1>1. \A j \in Jobs : applications[j] > 0 => applications'[j] > 0
  BY ApplicationsGrow
<1>2. SubmittedIsRecorded'
  <2>1. ASSUME NEW a \in Actors, CommitSuccess(a) PROVE SubmittedIsRecorded'
    <3>1. job[a] \in Jobs
      BY <2>1 DEF CommitSuccess, AtRest
    <3>2. applications'[job[a]] > 0
      <4>1. CASE a \in existing
        BY <1>1, <3>1, <4>1
      <4>2. CASE a \notin existing
        BY <2>1, <3>1, <4>2 DEF CommitSuccess
      <4> QED
        BY <4>1, <4>2
    <3>3. \A j \in Jobs \ {job[a]} : submitted'[j] = submitted[j]
      BY <2>1 DEF CommitSuccess
    <3> QED
      BY <1>1, <3>2, <3>3
  <2>2. CASE UNCHANGED submitted
    BY <1>1, <2>2
  <2>3. (\E a \in Actors : CommitSuccess(a)) \/ UNCHANGED submitted
    BY ActorMoves, NoActorMoves DEF Frozen
  <2> QED
    BY <2>1, <2>2, <2>3
<1>3. ASSUME NEW b \in existing'
      PROVE  pc'[b] = "commit" /\ applications'[job'[b]] > 0
  <2> USE DEF Goto, EndRun, AtRest
  <2>1. ASSUME NEW a \in Actors, LookUp(a)
        PROVE  pc'[b] = "commit" /\ applications'[job'[b]] > 0
    <3>1. CASE b = a
      BY <2>1, <3>1 DEF LookUp, dbVars
    <3>2. CASE b # a
      BY <2>1, <3>2 DEF LookUp, dbVars
    <3> QED
      BY <3>1, <3>2
  <2>2. CASE b \in existing /\ pc'[b] = pc[b] /\ job'[b] = job[b]
    BY <1>1, <2>2
  <2>3. CASE \E j \in Jobs : SaveApplication(j)
    <3>1. existing' = existing /\ pc' = pc /\ job' = job
      BY <2>3 DEF SaveApplication, runVars
    <3> QED
      BY <2>2, <3>1
  <2>4. CASE UNCHANGED vars
    BY <2>2, <2>4 DEF vars
  <2>5. ASSUME NEW a \in Actors, NEW j \in Jobs, BeginRun(a, j) \/ StartSingle(a, j)
        PROVE  pc'[b] = "commit" /\ applications'[job'[b]] > 0
    BY <2>2, <2>5 DEF BeginRun, StartSingle
  <2>6. ASSUME NEW a \in Actors,
               StartBatch(a) \/ Finish(a) \/ Proceed(a) \/ PostAccepted(a)
        PROVE  pc'[b] = "commit" /\ applications'[job'[b]] > 0
    BY <2>2, <2>6 DEF StartBatch, Finish, Proceed, PostAccepted
  <2>7. ASSUME NEW a \in Actors,
               CheckKnown(a) \/ CheckDuplicate(a) \/ CheckDailyLimit(a)
               \/ CheckHourlyLimit(a) \/ CheckCooldown(a)
        PROVE  pc'[b] = "commit" /\ applications'[job'[b]] > 0
    BY <2>2, <2>7 DEF CheckKnown, CheckDuplicate, CheckDailyLimit, CheckHourlyLimit, CheckCooldown
  <2>8. ASSUME NEW a \in Actors,
               Refuse(a) \/ PostUnanswered(a) \/ PostRejected(a) \/ CommitSuccess(a)
               \/ FillSucceeds(a) \/ FillFails(a) \/ Abort(a) \/ AbortPosting(a)
        PROVE  pc'[b] = "commit" /\ applications'[job'[b]] > 0
    <3>1. EndRun(a, "next") \/ EndRun(a, "idle")
      BY <2>8 DEF Refuse, PostUnanswered, PostRejected, CommitSuccess, FillSucceeds,
                  FillFails, Abort, AbortPosting, Stop
    <3>2. b \in existing /\ b # a
      BY <3>1
    <3>3. pc'[b] = pc[b] /\ job'[b] = job[b]
      BY <3>1, <3>2
    <3> QED
      BY <2>2, <3>2, <3>3
  <2> QED
    BY <2>1, <2>3, <2>4, <2>5, <2>6, <2>7, <2>8 DEF Next, Actor
<1> QED
  BY <1>2, <1>3

(***************************************************************************)
(* A "success" run has its Application, in every behaviour.                 *)
(***************************************************************************)
THEOREM SuccessIsRecorded == Spec => []SubmittedIsRecorded
<1>1. Init => RecordInv
  BY DEF Init, RecordInv, SubmittedIsRecorded
<1>2. RecordInv => SubmittedIsRecorded
  BY DEF RecordInv
<1> QED
  BY TypeInit, TypeStep, RecordStep, <1>1, <1>2, PTL DEF Spec

-----------------------------------------------------------------------------
(***************************************************************************)
(* Accepted submissions.                                                    *)
(***************************************************************************)
\* LEMMA: how the runs in flight of a job change when actor a alone moves.
LEMMA InFlightMoves ==
  ASSUME TypeInv, NEW a \in Actors, \A b \in Actors \ {a} : SameActor(b), NEW j \in Jobs
  PROVE  /\ Cardinality(InFlight(j)) \in Nat /\ Cardinality(InFlight(j)') \in Nat
         /\ (a \in InFlight(j)' <=> a \in InFlight(j))
              => Cardinality(InFlight(j)') = Cardinality(InFlight(j))
         /\ a \in InFlight(j)' /\ a \notin InFlight(j)
              => Cardinality(InFlight(j)') = Cardinality(InFlight(j)) + 1
         /\ a \notin InFlight(j)' /\ a \in InFlight(j)
              => Cardinality(InFlight(j)') + 1 = Cardinality(InFlight(j))
<1>1. InFlight(j) \in SUBSET Actors /\ InFlight(j)' \in SUBSET Actors
  BY DEF InFlight
<1>2. /\ IsFiniteSet(InFlight(j)) /\ Cardinality(InFlight(j)) \in Nat
      /\ IsFiniteSet(InFlight(j)') /\ Cardinality(InFlight(j)') \in Nat
  BY <1>1, ActorSets
<1>3. InFlight(j)' \ {a} = InFlight(j) \ {a}
  BY DEF InFlight, SameActor
<1>4. CASE a \in InFlight(j)' <=> a \in InFlight(j)
  <2>1. InFlight(j)' = InFlight(j)
    BY <1>3, <1>4
  <2> QED
    BY <1>2, <1>4, <2>1
<1>5. CASE a \in InFlight(j)' /\ a \notin InFlight(j)
  <2>1. InFlight(j)' = InFlight(j) \cup {a}
    BY <1>3, <1>5
  <2>2. Cardinality(InFlight(j) \cup {a}) = Cardinality(InFlight(j)) + 1
    BY <1>2, <1>5, FS_AddElement
  <2> QED
    BY <1>2, <1>5, <2>1, <2>2
<1>6. CASE a \notin InFlight(j)' /\ a \in InFlight(j)
  <2>1. InFlight(j) = InFlight(j)' \cup {a}
    BY <1>3, <1>6
  <2>2. Cardinality(InFlight(j)' \cup {a}) = Cardinality(InFlight(j)') + 1
    BY <1>2, <1>6, FS_AddElement
  <2> QED
    BY <1>2, <1>6, <2>1, <2>2
<1> QED
  BY <1>4, <1>5, <1>6

Accounted(j) == posted[j] = submitted[j] + lost[j] + Cardinality(InFlight(j))

\* LEMMA: a step that changes none of a job's counts, nor who is in flight for it.
LEMMA NothingPosted ==
  ASSUME TypeInv, PostsAccounted, NEW a \in Actors, \A b \in Actors \ {a} : SameActor(b),
         UNCHANGED <<posted, submitted, lost>>, NEW j \in Jobs,
         a \in InFlight(j)' <=> a \in InFlight(j)
  PROVE  Accounted(j)'
BY InFlightMoves DEF PostsAccounted, Accounted, TypeInv, TypeOK

\* LEMMA: the books balance after every step.
LEMMA PostsStep == TypeInv /\ PostsAccounted /\ [Next]_vars => PostsAccounted'
<1> SUFFICES ASSUME TypeInv, PostsAccounted, [Next]_vars, NEW j \in Jobs
             PROVE  Accounted(j)'
  BY DEF PostsAccounted, Accounted
<1> USE DEF Goto, EndRun, dbVars, ghostVars, AtRest
<1>0. /\ posted \in [Jobs -> Nat] /\ submitted \in [Jobs -> Nat] /\ lost \in [Jobs -> Nat]
      /\ pc \in [Actors -> Steps] /\ job \in [Actors -> Jobs \cup {NoJob}]
      /\ \A a \in Actors : pc[a] \notin AtRest => job[a] \in Jobs
      /\ failedChecks \in [Actors -> SUBSET Checks]
  BY DEF TypeInv, TypeOK
<1>1. posted[j] = submitted[j] + lost[j] + Cardinality(InFlight(j))
  BY DEF PostsAccounted
<1>2. ASSUME NEW a \in Actors, PostAccepted(a) PROVE Accounted(j)'
  <2>1. \A b \in Actors \ {a} : SameActor(b)
    BY <1>0, <1>2 DEF PostAccepted, SameActor
  <2>2. UNCHANGED <<submitted, lost>> /\ posted' = [posted EXCEPT ![job[a]] = @ + 1]
    BY <1>2 DEF PostAccepted, Accept
  <2>3. /\ a \in InFlight(j)' <=> job[a] = j
        /\ a \notin InFlight(j)
    BY <1>0, <1>2 DEF PostAccepted, InFlight
  <2>4. CASE job[a] = j
    <3>1. Cardinality(InFlight(j)') = Cardinality(InFlight(j)) + 1
          /\ Cardinality(InFlight(j)) \in Nat
      BY <2>1, <2>3, <2>4, InFlightMoves
    <3>2. posted'[j] = posted[j] + 1
      BY <1>0, <2>2, <2>4
    <3> QED
      BY <1>0, <1>1, <2>2, <3>1, <3>2 DEF Accounted
  <2>5. CASE job[a] # j
    <3>1. Cardinality(InFlight(j)') = Cardinality(InFlight(j))
      BY <2>1, <2>3, <2>5, InFlightMoves
    <3>2. posted'[j] = posted[j]
      BY <1>0, <2>2, <2>5
    <3> QED
      BY <1>0, <1>1, <2>2, <3>1, <3>2 DEF Accounted
  <2> QED
    BY <2>4, <2>5
<1>3. ASSUME NEW a \in Actors, PostUnanswered(a) \/ AbortPosting(a) PROVE Accounted(j)'
  <2>1. \A b \in Actors \ {a} : SameActor(b)
    BY <1>0, <1>3 DEF PostUnanswered, AbortPosting, Stop, SameActor
  <2>2. /\ submitted' = submitted
        /\ posted' = [posted EXCEPT ![job[a]] = @ + 1]
        /\ lost' = [lost EXCEPT ![job[a]] = @ + 1]
    BY <1>3 DEF PostUnanswered, AbortPosting, Stop, Accept, Forget
  <2>3. a \notin InFlight(j)' /\ a \notin InFlight(j)
    BY <1>0, <1>3 DEF PostUnanswered, AbortPosting, Stop, InFlight
  <2>4. Cardinality(InFlight(j)') = Cardinality(InFlight(j)) /\ Cardinality(InFlight(j)) \in Nat
    BY <2>1, <2>3, InFlightMoves
  <2>5. \/ posted'[j] = posted[j] + 1 /\ lost'[j] = lost[j] + 1
        \/ posted'[j] = posted[j] /\ lost'[j] = lost[j]
    <3>1. CASE job[a] = j
      BY <1>0, <2>2, <3>1
    <3>2. CASE job[a] # j
      BY <1>0, <2>2, <3>2
    <3> QED
      BY <3>1, <3>2
  <2> QED
    BY <1>0, <1>1, <2>2, <2>4, <2>5 DEF Accounted
<1>4. ASSUME NEW a \in Actors,
             CommitSuccess(a) \/ (Abort(a) /\ pc[a] \in {"lookup", "commit"})
      PROVE  Accounted(j)'
  <2>1. \A b \in Actors \ {a} : SameActor(b)
    BY <1>0, <1>4 DEF CommitSuccess, Abort, Stop, SameActor
  <2>2. /\ posted' = posted
        /\ \/ submitted' = [submitted EXCEPT ![job[a]] = @ + 1] /\ lost' = lost
           \/ lost' = [lost EXCEPT ![job[a]] = @ + 1] /\ submitted' = submitted
    BY <1>4 DEF CommitSuccess, Abort, Stop, Forget
  <2>3. /\ a \notin InFlight(j)'
        /\ a \in InFlight(j) <=> job[a] = j
    BY <1>0, <1>4 DEF CommitSuccess, Abort, Stop, InFlight
  <2>4. CASE job[a] = j
    <3>1. Cardinality(InFlight(j)') + 1 = Cardinality(InFlight(j))
          /\ Cardinality(InFlight(j)') \in Nat
      BY <2>1, <2>3, <2>4, InFlightMoves
    <3>2. \/ submitted'[j] = submitted[j] + 1 /\ lost'[j] = lost[j]
          \/ lost'[j] = lost[j] + 1 /\ submitted'[j] = submitted[j]
      BY <1>0, <2>2, <2>4
    <3> QED
      BY <1>0, <1>1, <2>2, <3>1, <3>2 DEF Accounted
  <2>5. CASE job[a] # j
    <3>1. Cardinality(InFlight(j)') = Cardinality(InFlight(j))
      BY <2>1, <2>3, <2>5, InFlightMoves
    <3>2. submitted'[j] = submitted[j] /\ lost'[j] = lost[j]
      BY <1>0, <2>2, <2>5
    <3> QED
      BY <1>0, <1>1, <2>2, <3>1, <3>2 DEF Accounted
  <2> QED
    BY <2>4, <2>5
<1> DEFINE Idle(a) ==
      /\ \A b \in Actors \ {a} : SameActor(b)
      /\ UNCHANGED <<posted, submitted, lost>>
      /\ a \in InFlight(j)' <=> a \in InFlight(j)
<1>5. ASSUME NEW a \in Actors, NEW i \in Jobs, BeginRun(a, i) \/ StartSingle(a, i) PROVE Idle(a)
  BY <1>0, <1>5 DEF BeginRun, StartSingle, SameActor, InFlight
<1>6. ASSUME NEW a \in Actors,
             StartBatch(a) \/ Finish(a) \/ Refuse(a) \/ Proceed(a) \/ PostRejected(a)
      PROVE  Idle(a)
  BY <1>0, <1>6 DEF StartBatch, Finish, Refuse, Proceed, PostRejected, SameActor, InFlight
<1>7. ASSUME NEW a \in Actors,
             CheckKnown(a) \/ CheckDuplicate(a) \/ CheckDailyLimit(a)
             \/ CheckHourlyLimit(a) \/ CheckCooldown(a)
      PROVE  Idle(a)
  BY <1>0, <1>7 DEF CheckKnown, CheckDuplicate, CheckDailyLimit, CheckHourlyLimit,
                    CheckCooldown, Check, SameActor, InFlight
<1>8. ASSUME NEW a \in Actors, LookUp(a) PROVE Idle(a)
  BY <1>0, <1>8 DEF LookUp, SameActor, InFlight
<1>9. ASSUME NEW a \in Actors,
             FillSucceeds(a) \/ FillFails(a) \/ (Abort(a) /\ pc[a] \notin {"lookup", "commit"})
      PROVE  Idle(a)
  BY <1>0, <1>9 DEF FillSucceeds, FillFails, Abort, Stop, SameActor, InFlight
<1>10. ASSUME NEW a \in Actors, Idle(a) PROVE Accounted(j)'
  BY <1>10, NothingPosted
<1>11. ASSUME UNCHANGED <<posted, submitted, lost, pc, job>> PROVE Accounted(j)'
  BY <1>1, <1>11 DEF Accounted, InFlight
<1>12. ASSUME NEW i \in Jobs, SaveApplication(i) PROVE Accounted(j)'
  BY <1>11, <1>12 DEF SaveApplication, runVars
<1>13. CASE UNCHANGED vars
  BY <1>11, <1>13 DEF vars
<1> HIDE DEF Idle
<1>14. ASSUME NEW a \in Actors, Actor(a) \/ StartBatch(a) \/ Abort(a) \/ AbortPosting(a)
       PROVE  Accounted(j)'
  BY <1>2, <1>3, <1>4, <1>5, <1>6, <1>7, <1>8, <1>9, <1>10, <1>14 DEF Actor
<1> QED
  BY <1>5, <1>10, <1>12, <1>13, <1>14 DEF Next

(***************************************************************************)
(* Each accepted submission is recorded, in flight or lost, whatever the    *)
(* actors, the aborts and the answers.                                      *)
(***************************************************************************)
THEOREM PostsAreAccounted == Spec => []PostsAccounted
<1>1. Init => PostsAccounted
  <2> SUFFICES ASSUME Init, NEW j \in Jobs PROVE Accounted(j)
    BY DEF PostsAccounted, Accounted
  <2>1. InFlight(j) = {}
    BY DEF Init, InFlight
  <2> QED
    BY <2>1, FS_EmptySet DEF Init, Accounted
<1> QED
  BY TypeInit, TypeStep, PostsStep, <1>1, PTL DEF Spec

-----------------------------------------------------------------------------
(***************************************************************************)
(* Double submissions.  An actor the duplicate check let pass may still     *)
(* submit, whatever is recorded meanwhile.                                  *)
(***************************************************************************)
Armed(j) ==
  {a \in Actors : /\ job[a] = j
                  /\ \/ pc[a] \in {"post", "fill", "lookup", "commit"}
                     \/ /\ pc[a] \in {"daily", "hourly", "cooldown", "verdict"}
                        /\ "duplicate" \notin failedChecks[a]}

Disarmed(j) == submitted[j] > 0 => submitted[j] + Cardinality(Armed(j)) <= Cardinality(Actors)
DupInv == \A j \in Jobs : Disarmed(j)

\* LEMMA: once a job is submitted, only the actors already armed may follow.
LEMMA DupStep == TypeInv /\ RecordInv /\ DupInv /\ [Next]_vars => DupInv'
<1> SUFFICES ASSUME TypeInv, RecordInv, DupInv, [Next]_vars, NEW j \in Jobs
             PROVE  Disarmed(j)'
  BY DEF DupInv
<1>0. /\ submitted \in [Jobs -> Nat]
      /\ Armed(j) \in SUBSET Actors /\ Armed(j)' \in SUBSET Actors
      /\ Cardinality(Armed(j)) \in Nat /\ Cardinality(Armed(j)') \in Nat
      /\ Cardinality(Armed(j)') <= Cardinality(Actors) /\ Cardinality(Actors) \in Nat
  <2>1. Armed(j) \in SUBSET Actors /\ Armed(j)' \in SUBSET Actors
    BY DEF Armed
  <2> QED
    BY <2>1, ActorSets DEF TypeInv, TypeOK
<1>1. CASE ~ Next \/ \E i \in Jobs : SaveApplication(i)
  <2>1. Frozen
    BY <1>1, NoActorMoves
  <2>2. Armed(j)' = Armed(j)
    BY <2>1 DEF Frozen, Armed
  <2> QED
    BY <2>1, <2>2 DEF Frozen, Disarmed, DupInv
<1>2. CASE Next /\ ~ \E i \in Jobs : SaveApplication(i)
  <2>1. PICK a \in Actors :
           /\ Moves(a)
           /\ \A b \in Actors \ {a} : SameActor(b)
           /\ CommitSuccess(a) \/ UNCHANGED <<applications, submitted>>
    BY <1>2, ActorMoves
  <2>2. Armed(j)' \ {a} = Armed(j) \ {a}
    BY <2>1 DEF Armed, SameActor
  <2>3. CASE CommitSuccess(a)
    <3>1. a \notin Armed(j)'
      BY <2>3 DEF CommitSuccess, EndRun, Goto, Armed, TypeInv, TypeOK
    <3>2. submitted' = [submitted EXCEPT ![job[a]] = @ + 1] /\ pc[a] = "commit"
      BY <2>3 DEF CommitSuccess
    <3>3. CASE job[a] = j
      <4>1. a \in Armed(j)
        BY <3>2, <3>3 DEF Armed
      <4>2. Armed(j)' = Armed(j) \ {a}
        BY <2>2, <3>1
      <4>3. Cardinality(Armed(j) \ {a}) = Cardinality(Armed(j)) - 1
        BY <1>0, <4>1, ActorSets, FS_RemoveElement
      <4>4. Cardinality(Armed(j)) <= Cardinality(Actors)
        BY <1>0, ActorSets
      <4>5. submitted'[j] = submitted[j] + 1 /\ submitted[j] \in Nat
        BY <1>0, <3>2, <3>3
      <4>6. Cardinality(Armed(j)') = Cardinality(Armed(j)) - 1
        BY <4>2, <4>3
      <4>7. submitted[j] > 0 => submitted[j] + Cardinality(Armed(j)) <= Cardinality(Actors)
        BY DEF DupInv, Disarmed
      <4> QED
        BY <1>0, <4>4, <4>5, <4>6, <4>7 DEF Disarmed
    <3>4. CASE job[a] # j
      <4>1. a \notin Armed(j)
        BY <3>4 DEF Armed
      <4>2. Armed(j)' = Armed(j) /\ submitted'[j] = submitted[j]
        BY <1>0, <2>2, <3>1, <3>2, <3>4, <4>1
      <4> QED
        BY <4>2 DEF DupInv, Disarmed
    <3> QED
      BY <3>3, <3>4
  <2>4. CASE UNCHANGED <<applications, submitted>>
    <3>1. CASE a \in Armed(j)' /\ a \notin Armed(j)
      <4>1. applications[j] = 0
        BY <2>1, <3>1 DEF Moves, CheckStep, Armed
      <4>2. ~ (submitted[j] > 0)
        BY <4>1 DEF RecordInv, SubmittedIsRecorded
      <4> QED
        BY <2>4, <4>2 DEF Disarmed
    <3>2. CASE ~ (a \in Armed(j)' /\ a \notin Armed(j))
      <4>1. Armed(j)' \subseteq Armed(j)
        BY <2>2, <3>2
      <4>2. Cardinality(Armed(j)') <= Cardinality(Armed(j))
        BY <1>0, <4>1, ActorSets
      <4>3. submitted[j] > 0 => submitted[j] + Cardinality(Armed(j)) <= Cardinality(Actors)
        BY DEF DupInv, Disarmed
      <4> QED
        BY <1>0, <2>4, <4>2, <4>3 DEF Disarmed
    <3> QED
      BY <3>1, <3>2
  <2> QED
    BY <2>1, <2>3, <2>4
<1> QED
  BY <1>1, <1>2

(***************************************************************************)
(* Lost answers apart, an employer gets at most one application from each   *)
(* concurrent actor: exactly-once when the actors run one at a time.        *)
(***************************************************************************)
THEOREM DoublePostsAreBounded == Spec => []DoublePostsBounded
<1>1. Init => RecordInv /\ DupInv
  BY DEF Init, RecordInv, SubmittedIsRecorded, DupInv, Disarmed
<1>2. TypeInv /\ PostsAccounted /\ DupInv => DoublePostsBounded
  <2> SUFFICES ASSUME TypeInv, PostsAccounted, DupInv, NEW j \in Jobs
               PROVE  posted[j] <= Cardinality(Actors) + lost[j]
    BY DEF DoublePostsBounded
  <2>1. Armed(j) \in SUBSET Actors /\ InFlight(j) \in SUBSET Armed(j)
    BY DEF Armed, InFlight
  <2>2. /\ Cardinality(InFlight(j)) \in Nat /\ Cardinality(Armed(j)) \in Nat
        /\ Cardinality(Actors) \in Nat
        /\ Cardinality(InFlight(j)) <= Cardinality(Armed(j))
        /\ Cardinality(Armed(j)) <= Cardinality(Actors)
    BY <2>1, ActorSets
  <2>3. submitted[j] \in Nat /\ lost[j] \in Nat
    BY DEF TypeInv, TypeOK
  <2>4. posted[j] = submitted[j] + lost[j] + Cardinality(InFlight(j))
    BY DEF PostsAccounted
  <2>5. submitted[j] > 0 => submitted[j] + Cardinality(Armed(j)) <= Cardinality(Actors)
    BY DEF DupInv, Disarmed
  <2> QED
    BY ONLY <2>2, <2>3, <2>4, <2>5
<1>3. Spec => []PostsAccounted
  BY PostsAreAccounted
<1> QED
  BY TypeInit, TypeStep, RecordStep, DupStep, <1>1, <1>2, <1>3, PTL DEF Spec

-----------------------------------------------------------------------------
(***************************************************************************)
(* First-time providers.                                                    *)
(***************************************************************************)
Vouched == KnownBefore \cup confirmed \cup SeenOnPage \cup {NoAts}

ProviderInv ==
  /\ ProvidersConfirmed
  /\ \A a \in Actors :
       \/ pc[a] \in {"idle", "next", "known"}
       \/ "first_time_ats" \in failedChecks[a] /\ pc[a] \notin {"post", "fill", "lookup", "commit"}
       \/ UrlAts[job[a]] \in Vouched

\* LEMMA: a run past the check has a provider that was vouched for.
LEMMA ProviderStep == TypeInv /\ ProviderInv /\ [Next]_vars => ProviderInv'
<1> SUFFICES ASSUME TypeInv, ProviderInv, [Next]_vars PROVE ProviderInv'
  OBVIOUS
<1>1. CASE ~ Next \/ \E i \in Jobs : SaveApplication(i)
  <2>1. Frozen
    BY <1>1, NoActorMoves
  <2> QED
    BY <2>1 DEF Frozen, ProviderInv, ProvidersConfirmed, FilledJobs, Vouched
<1>2. CASE Next /\ ~ \E i \in Jobs : SaveApplication(i)
  <2>1. PICK a \in Actors :
           /\ Moves(a)
           /\ \A b \in Actors \ {a} : SameActor(b)
           /\ confirmed \subseteq confirmed'
           /\ CommitSuccess(a) \/ UNCHANGED <<applications, submitted>>
           /\ FillSucceeds(a) \/ UNCHANGED filled
    BY <1>2, ActorMoves
  <2>2. Vouched \subseteq Vouched'
    BY <2>1 DEF Vouched
  <2>3. Known \subseteq Vouched
    <3>1. ASSUME NEW j \in Jobs, j \in FilledJobs \/ submitted[j] > 0 PROVE UrlAts[j] \in Vouched
      BY <3>1 DEF ProviderInv, ProvidersConfirmed, Vouched
    <3>2. ASSUME NEW j \in FilledJobs PROVE j \in Jobs
      BY <3>2 DEF FilledJobs, TypeInv, TypeOK
    <3>3. ASSUME NEW j \in FilledJobs PROVE PageAts[j] \in Vouched
      <4>1. CASE PageAts[j] = UrlAts[j]
        BY <3>1, <3>2, <4>1
      <4>2. CASE PageAts[j] # UrlAts[j]
        BY <3>2, <4>2 DEF Vouched, SeenOnPage
      <4> QED
        BY <4>1, <4>2
    <3> QED
      BY <3>1, <3>3 DEF Known, Vouched
  <2>4. \A b \in Actors :
          \/ pc'[b] \in {"idle", "next", "known"}
          \/ "first_time_ats" \in failedChecks'[b] /\ pc'[b] \notin {"post", "fill", "lookup", "commit"}
          \/ UrlAts[job'[b]] \in Vouched'
    <3> SUFFICES ASSUME NEW b \in Actors
                 PROVE  \/ pc'[b] \in {"idle", "next", "known"}
                        \/ /\ "first_time_ats" \in failedChecks'[b]
                           /\ pc'[b] \notin {"post", "fill", "lookup", "commit"}
                        \/ UrlAts[job'[b]] \in Vouched'
      OBVIOUS
    <3>1. CASE b # a
      BY <2>1, <2>2, <3>1 DEF SameActor, ProviderInv
    <3>2. CASE b = a
      <4>1. NoAts \in Vouched' /\ confirmed' \subseteq Vouched'
        BY DEF Vouched
      <4>2. CASE CheckStep(a, "known", "duplicate")
        BY <2>1, <2>2, <2>3, <3>2, <4>1, <4>2 DEF Moves, CheckStep
      <4> QED
        BY <2>1, <2>2, <3>2, <4>2 DEF Moves, CheckStep, ProviderInv
    <3> QED
      BY <3>1, <3>2
  <2>5. ProvidersConfirmed'
    <3> SUFFICES ASSUME NEW j \in Jobs, submitted'[j] > 0 \/ j \in FilledJobs'
                 PROVE  UrlAts[j] \in Vouched'
      BY DEF ProvidersConfirmed, Vouched
    <3>1. CASE submitted[j] > 0 \/ j \in FilledJobs
      BY <2>2, <3>1 DEF ProviderInv, ProvidersConfirmed, Vouched
    <3>2. CASE job[a] = j /\ (CommitSuccess(a) \/ FillSucceeds(a))
      BY <2>2, <3>2 DEF CommitSuccess, FillSucceeds, ProviderInv
    <3>3. \/ submitted[j] > 0 \/ j \in FilledJobs
          \/ CommitSuccess(a) /\ job[a] = j
          \/ FillSucceeds(a) /\ job[a] = j
      <4>1. CASE submitted'[j] > 0
        <5>1. CASE CommitSuccess(a)
          BY <4>1, <5>1 DEF CommitSuccess, TypeInv, TypeOK
        <5> QED
          BY <2>1, <4>1, <5>1
      <4>2. CASE j \in FilledJobs'
        <5>1. CASE FillSucceeds(a)
          <6>1. filled' = Append(filled, job[a]) /\ filled \in Seq(Jobs) /\ job[a] \in Jobs
            BY <5>1 DEF FillSucceeds, TypeInv, TypeOK, AtRest
          <6>2. PICK i \in DOMAIN filled' : filled'[i] = j
            BY <4>2 DEF FilledJobs
          <6>3. (i \in DOMAIN filled /\ filled'[i] = filled[i]) \/ filled'[i] = job[a]
            BY <6>1, <6>2, AppendProperties
          <6> QED
            BY <5>1, <6>2, <6>3 DEF FilledJobs
        <5> QED
          BY <2>1, <4>2, <5>1 DEF FilledJobs
      <4> QED
        BY <4>1, <4>2
    <3> QED
      BY <3>1, <3>2, <3>3
  <2> QED
    BY <2>4, <2>5 DEF ProviderInv
<1> QED
  BY <1>1, <1>2

(***************************************************************************)
(* No job is applied to through a provider its URL names for the first time *)
(* unless a user asked for it or another page had shown the provider.       *)
(***************************************************************************)
THEOREM ProvidersAreConfirmed == Spec => []ProvidersConfirmed
<1>1. Init => ProviderInv
  BY DEF Init, ProviderInv, ProvidersConfirmed, FilledJobs
<1>2. ProviderInv => ProvidersConfirmed
  BY DEF ProviderInv
<1> QED
  BY TypeInit, TypeStep, ProviderStep, <1>1, <1>2, PTL DEF Spec

(***************************************************************************)
(* The three together: runs and Applications record what employers          *)
(* accepted, through providers that had been agreed to.                     *)
(***************************************************************************)
THEOREM RecordsAlwaysHold == Spec => []RecordsHold
  BY PostsAreAccounted, SuccessIsRecorded, ProvidersAreConfirmed, PTL DEF RecordsHold

(***************************************************************************)
(* Concurrency costs at most one submission of a job per actor and one      *)
(* filled form per further actor, whatever the limit.                       *)
(***************************************************************************)
THEOREM LimitsAlwaysHold == Spec => []LimitsHold
  BY DoublePostsAreBounded, DailyLimitIsHeld, PTL DEF LimitsHold

-----------------------------------------------------------------------------
(* The wizard *)

\* A page that was dealt with: each key it asked for is there or missing.
Dealt(n) == n \in hurried \/ Workday!Asked(n) \subseteq entered[n] \cup missing
ToTry(k) == \E i \in 1..Len(pending) : pending[i] = k

WizardTypes ==
  /\ pages \in Seq({pages[n] : n \in DOMAIN pages}) /\ DOMAIN entered = DOMAIN pages
  /\ stage # "idle" => at \in DOMAIN pages
  /\ pending \in Seq(DOMAIN Workday!Selector)

\* The pages before the one that is shown, and what is known of that one.
PagesDealt ==
  /\ \A n \in DOMAIN pages : n < at => Dealt(n)
  /\ stage \in {"press", "click"} => Dealt(at) /\ pending = <<>>
  /\ stage = "fill" => at \in hurried \/
         \A k \in Workday!Asked(at) : k \in entered[at] \cup missing \/ ToTry(k)
  /\ turning => Dealt(at) /\ ~pages[at].submits /\ at < Len(pages)

\* A button that submits is pressed only when its page has come up after the fields.
Presses ==
  /\ stage = "click" => ~pages[at].submits \/ at \in hurried

  /\ handedIn => at \in hurried /\ pages[at].submits /\ stage # "click"
  /\ stage = "done" => items = missing

WizardInv ==
  IF stage = "idle" THEN pages = <<>> /\ entered = <<>> /\ ~handedIn /\ ~turning /\ at = 1 /\ pending = <<>>
                         /\ hurried = {} /\ missing = {}
  ELSE WizardTypes /\ PagesDealt /\ Presses

\* LEMMA: the five keys are gone through, each once.
LEMMA KeysCover ==
  /\ Workday!Keys \in Seq(DOMAIN Workday!Selector) /\ Workday!Keys # <<>>
  /\ \A k \in DOMAIN Workday!Selector : \E i \in 1..Len(Workday!Keys) : Workday!Keys[i] = k
<1> USE DEF Workday!Keys, Workday!Selector
<1>1. /\ Len(Workday!Keys) = 5 /\ Workday!Keys[1] = "first_name" /\ Workday!Keys[2] = "last_name"
      /\ Workday!Keys[3] = "email" /\ Workday!Keys[4] = "phone" /\ Workday!Keys[5] = "linkedin_url"
  OBVIOUS
<1>2. DOMAIN Workday!Selector = {"first_name", "last_name", "email", "phone", "linkedin_url"}
  OBVIOUS
<1>3. Workday!Keys \in Seq(DOMAIN Workday!Selector) /\ Workday!Keys # <<>>
  BY <1>2
<1> QED BY <1>1, <1>2, <1>3

\* LEMMA: what is not the head of a sequence is in its tail.
LEMMA TailKeepsTheRest ==
  ASSUME NEW S, NEW q \in Seq(S), q # <<>>
  PROVE  /\ Head(q) \in S /\ Tail(q) \in Seq(S)
         /\ \A x : x # Head(q) /\ (\E i \in 1..Len(q) : q[i] = x) =>
                \E i \in 1..Len(Tail(q)) : Tail(q)[i] = x
<1>1. Len(q) \in Nat /\ Len(q) > 0 /\ Head(q) = q[1] /\ Head(q) \in S /\ Tail(q) \in Seq(S)
  OBVIOUS
<1>2. Len(Tail(q)) = Len(q) - 1 /\ \A i \in 1..(Len(q) - 1) : Tail(q)[i] = q[i + 1]
  OBVIOUS
<1>3. ASSUME NEW x, x # Head(q), NEW i \in 1..Len(q), q[i] = x
      PROVE  \E j \in 1..Len(Tail(q)) : Tail(q)[j] = x
  <2>1. i # 1
    BY <1>1, <1>3
  <2>2. i - 1 \in 1..(Len(q) - 1) /\ q[(i - 1) + 1] = x
    BY <1>1, <1>3, <2>1
  <2>3. i - 1 \in 1..Len(Tail(q)) /\ Tail(q)[i - 1] = x
    BY <1>1, <1>2, <2>2
  <2> QED BY <2>3
<1> QED BY <1>1, <1>3

LEMMA WizardStart == Workday!WizardInit => WizardInv
BY DEF Workday!WizardInit, WizardInv

\* LEMMA: the wizard's steps keep what is known of its pages.
LEMMA WizardStep == WizardInv /\ [Workday!WizardNext]_wizardVars => WizardInv'
<1> SUFFICES ASSUME WizardInv, [Workday!WizardNext]_wizardVars PROVE WizardInv'
  OBVIOUS
<1> USE WizardsAreWizards DEF Workday!WizardAssumption
<1>1. CASE UNCHANGED wizardVars
  <2>1. UNCHANGED <<pages, stage, at, turning, pending, entered, missing, items, hurried, handedIn>>
    BY <1>1 DEF wizardVars
  <2> QED BY <2>1 DEF WizardInv, WizardTypes, PagesDealt, Presses, Dealt, ToTry, Workday!Asked
<1>2. ASSUME NEW w \in Wizards, NEW p \in WizardProfiles, Workday!Open(w, p) PROVE WizardInv'
  <2>1. /\ stage = "idle" /\ stage' = "detect" /\ pages' = w /\ entered' = [n \in DOMAIN w |-> {}]
        /\ UNCHANGED <<at, turning, pending, missing, items, hurried, handedIn>>
    BY <1>2 DEF Workday!Open
  <2>2. w # <<>> /\ w \in Seq({w[n] : n \in DOMAIN w})
    OBVIOUS
  <2>3. Len(w) \in Nat /\ Len(w) > 0 /\ DOMAIN w = 1..Len(w)
    BY <2>2
  <2>4. /\ at' = 1 /\ ~turning' /\ pending' = <<>> /\ hurried' = {} /\ ~handedIn'
    BY <2>1 DEF WizardInv
  <2>5. WizardTypes'
    BY <2>1, <2>2, <2>3, <2>4 DEF WizardTypes
  <2>6. PagesDealt' /\ Presses'
    BY <2>1, <2>3, <2>4 DEF PagesDealt, Presses
  <2> QED BY <2>1, <2>5, <2>6 DEF WizardInv
<1>3. CASE Workday!CloseWizard
  BY <1>3 DEF Workday!CloseWizard, WizardInv
<1>4. ASSUME stage # "idle",
             \/ Workday!DetectStep \/ Workday!FillKey \/ Workday!PageFilled \/ Workday!ReadButton
             \/ Workday!Click \/ Workday!PageTurns \/ Workday!WizardFails
      PROVE  WizardInv'
  <2>1. WizardTypes /\ PagesDealt /\ Presses
    BY <1>4 DEF WizardInv
  <2>2. pages' = pages /\ at \in DOMAIN pages /\ Len(pages) \in Nat /\ DOMAIN pages = 1..Len(pages)
    BY <1>4, <2>1 DEF WizardTypes, Workday!DetectStep, Workday!FillKey, Workday!PageFilled,
         Workday!ReadButton, Workday!Click, Workday!PageTurns, Workday!WizardFails
  <2> SUFFICES WizardTypes' /\ PagesDealt' /\ Presses' /\ stage' # "idle"
    BY DEF WizardInv
  <2>3. CASE Workday!DetectStep
    <3>1. /\ stage = "detect"
          /\ \/ stage' = "done" /\ items' = missing /\ pending' = pending
             \/ stage' = "fill" /\ pending' = Workday!Keys /\ items' = items
          /\ UNCHANGED <<at, turning, entered, missing, hurried, handedIn>>
      BY <2>3 DEF Workday!DetectStep, Workday!Report
    <3>2. WizardTypes'
      BY <2>1, <2>2, <3>1, KeysCover DEF WizardTypes
    <3>3. PagesDealt'
      <4>1. stage' = "fill" => \A k \in Workday!Asked(at) : ToTry(k)'
        BY <3>1, KeysCover DEF ToTry, Workday!Asked
      <4>2. \A n : Dealt(n)' <=> Dealt(n)
        BY <2>2, <3>1 DEF Dealt, Workday!Asked
      <4>3. Workday!Asked(at)' = Workday!Asked(at)
        BY <2>2, <3>1 DEF Workday!Asked
      <4> QED BY <2>1, <2>2, <3>1, <4>1, <4>2, <4>3 DEF PagesDealt
    <3> QED BY <2>1, <2>2, <3>1, <3>2, <3>3 DEF Presses
  <2>4. CASE Workday!FillKey
    <3> DEFINE k == Head(pending)
    <3>1. /\ stage = "fill" /\ stage' = "fill" /\ pending # <<>> /\ pending' = Tail(pending)
          /\ UNCHANGED <<at, turning, items, hurried, handedIn>>
          /\ \/ missing' = missing \cup {k} /\ entered' = entered
             \/ entered' = [entered EXCEPT ![at] = entered[at] \cup {k}] /\ missing' = missing
      BY <2>4 DEF Workday!FillKey, Workday!MissKey
    <3>2. pending \in Seq(DOMAIN Workday!Selector) /\ DOMAIN entered = DOMAIN pages
      BY <2>1 DEF WizardTypes
    <3>3. /\ pending' \in Seq(DOMAIN Workday!Selector)
          /\ \A x : x # k /\ ToTry(x) => ToTry(x)'
      <4>1. /\ Tail(pending) \in Seq(DOMAIN Workday!Selector)
            /\ \A x : x # k /\ (\E i \in 1..Len(pending) : pending[i] = x) =>
                   \E i \in 1..Len(Tail(pending)) : Tail(pending)[i] = x
        BY <3>1, <3>2, TailKeepsTheRest, Zenon
      <4> QED BY <3>1, <4>1 DEF ToTry
    <3>4. /\ \A n \in DOMAIN pages : entered[n] \cup missing \subseteq entered'[n] \cup missing'
          /\ k \in entered'[at] \cup missing' /\ DOMAIN entered' = DOMAIN pages
      BY <2>2, <3>1, <3>2
    <3>5. \A n \in DOMAIN pages : Dealt(n) => Dealt(n)'
      BY <2>2, <3>1, <3>4 DEF Dealt, Workday!Asked
    <3>6. Workday!Asked(at)' = Workday!Asked(at)
      BY <2>2, <3>1 DEF Workday!Asked
    <3>7. WizardTypes'
      BY <2>1, <2>2, <3>1, <3>3, <3>4 DEF WizardTypes
    <3>8. PagesDealt'
      BY <2>1, <2>2, <3>1, <3>3, <3>4, <3>5, <3>6 DEF PagesDealt
    <3> QED BY <2>1, <2>2, <3>1, <3>7, <3>8 DEF Presses
  <2>5. CASE Workday!PageFilled
    <3>1. /\ stage = "fill" /\ stage' = "press" /\ pending = <<>>
          /\ UNCHANGED <<at, turning, pending, entered, missing, items, hurried, handedIn>>
      BY <2>5 DEF Workday!PageFilled
    <3>2. \A n : Dealt(n)' <=> Dealt(n)
      BY <2>2, <3>1 DEF Dealt, Workday!Asked
    <3>3. Dealt(at)
      BY <2>1, <3>1 DEF PagesDealt, Dealt, ToTry
    <3>4. PagesDealt'
      BY <2>1, <2>2, <3>1, <3>2, <3>3 DEF PagesDealt
    <3> QED BY <2>1, <2>2, <3>1, <3>4 DEF WizardTypes, Presses
  <2>6. CASE Workday!ReadButton
    <3>1. /\ stage = "press"
          /\ \/ ~pages[at].submits /\ stage' = "click" /\ items' = items
             \/ stage' = "done" /\ items' = missing
          /\ UNCHANGED <<at, turning, pending, entered, missing, hurried, handedIn>>
      BY <2>6 DEF Workday!ReadButton, Workday!Report
    <3>2. \A n : Dealt(n)' <=> Dealt(n)
      BY <2>2, <3>1 DEF Dealt, Workday!Asked
    <3>3. PagesDealt'
      BY <2>1, <2>2, <3>1, <3>2 DEF PagesDealt
    <3> QED BY <2>1, <2>2, <3>1, <3>3 DEF WizardTypes, Presses
  <2>7. CASE Workday!Click
    <3>1. /\ stage = "click"
          /\ \/ pages[at].submits /\ handedIn' /\ at' = at /\ turning' = turning
             \/ /\ ~pages[at].submits /\ handedIn' = handedIn
                /\ \/ at < Len(pages) /\ at' = at + 1 /\ turning' = FALSE
                   \/ at' = at /\ turning' \in {turning, at < Len(pages)}
          /\ \/ stage' = "detect" /\ items' = items
             \/ stage' = "done" /\ items' = missing
          /\ UNCHANGED <<pending, entered, missing, hurried>>
      BY <2>7 DEF Workday!Click, Workday!NextTurn, Workday!Report
    <3>2. \A n : Dealt(n)' <=> Dealt(n)
      BY <2>2, <3>1 DEF Dealt, Workday!Asked
    <3>3. Dealt(at) /\ (turning => at < Len(pages) /\ ~pages[at].submits)
      BY <2>1, <3>1 DEF PagesDealt
    <3>4. turning' => at' = at /\ at < Len(pages) /\ ~pages[at].submits
      BY <3>1, <3>3
    <3>5. at' \in DOMAIN pages /\ at' \in {at, at + 1}
      BY <2>2, <3>1
    <3>6. PagesDealt'
      BY <2>1, <2>2, <3>1, <3>2, <3>3, <3>4, <3>5 DEF PagesDealt
    <3>7. handedIn' => at' \in hurried /\ pages[at'].submits
      BY <2>1, <3>1 DEF Presses
    <3> QED BY <2>1, <2>2, <3>1, <3>5, <3>6, <3>7 DEF WizardTypes, Presses
  <2>8. CASE Workday!PageTurns
    <3>1. /\ turning /\ ~turning' /\ at' = at + 1 /\ stage' = stage
          /\ stage \in {"detect", "fill", "press", "click"}
          /\ hurried' = IF stage = "detect" \/ pending = Workday!Keys THEN hurried
                        ELSE hurried \cup {at + 1}
          /\ UNCHANGED <<pending, entered, missing, items, handedIn>>
      BY <2>8 DEF Workday!PageTurns
    <3>2. Dealt(at) /\ at < Len(pages) /\ ~pages[at].submits
      BY <2>1, <3>1 DEF PagesDealt
    <3>3. \A n \in DOMAIN pages : Dealt(n) => Dealt(n)'
      BY <2>2, <3>1 DEF Dealt, Workday!Asked
    <3>4. stage \in {"press", "click"} => pending = <<>> /\ at' \in hurried'
      BY <2>1, <3>1, KeysCover DEF PagesDealt
    <3>5. stage = "fill" => at' \in hurried' \/ \A k \in Workday!Asked(at') : ToTry(k)'
      BY <3>1, KeysCover DEF ToTry, Workday!Asked
    <3>6. /\ at' \in DOMAIN pages /\ \A n \in DOMAIN pages : n < at' => n < at \/ n = at
      BY <2>2, <3>1, <3>2
    <3>7. Workday!Asked(at)' = Workday!Asked(at')
      BY <2>2, <3>1 DEF Workday!Asked
    <3>8. PagesDealt'
      <4>1. \A n \in DOMAIN pages' : n < at' => Dealt(n)'
        BY <2>1, <2>2, <3>2, <3>3, <3>6 DEF PagesDealt
      <4>2. stage' \in {"press", "click"} => Dealt(at)' /\ pending' = <<>>
        BY <3>1, <3>4 DEF Dealt
      <4>3. stage' = "fill" => at' \in hurried' \/ \A k \in Workday!Asked(at)' : ToTry(k)'
        BY <3>1, <3>5, <3>7
      <4> QED BY <3>1, <4>1, <4>2, <4>3 DEF PagesDealt
    <3>9. ~handedIn
      BY <2>1, <3>2 DEF Presses
    <3> QED BY <2>1, <2>2, <3>1, <3>4, <3>6, <3>8, <3>9 DEF WizardTypes, Presses
  <2>9. CASE Workday!WizardFails
    <3>1. /\ stage' = "failed"
          /\ UNCHANGED <<at, turning, pending, entered, missing, items, hurried, handedIn>>
      BY <2>9 DEF Workday!WizardFails
    <3>2. \A n : Dealt(n)' <=> Dealt(n)
      BY <2>2, <3>1 DEF Dealt, Workday!Asked
    <3>3. PagesDealt'
      BY <2>1, <2>2, <3>1, <3>2 DEF PagesDealt
    <3> QED BY <2>1, <2>2, <3>1, <3>3 DEF WizardTypes, Presses
  <2> QED BY <1>4, <2>3, <2>4, <2>5, <2>6, <2>7, <2>8, <2>9
<1>5. Workday!WizardNext =>
        \/ \E w \in Wizards, p \in WizardProfiles : Workday!Open(w, p)
        \/ Workday!CloseWizard
        \/ /\ stage # "idle"
           /\ \/ Workday!DetectStep \/ Workday!FillKey \/ Workday!PageFilled \/ Workday!ReadButton
              \/ Workday!Click \/ Workday!PageTurns \/ Workday!WizardFails
  BY DEF Workday!WizardNext, Workday!DetectStep, Workday!FillKey, Workday!PageFilled,
       Workday!ReadButton, Workday!Click, Workday!PageTurns, Workday!WizardFails
<1> QED BY <1>1, <1>2, <1>3, <1>4, <1>5

\* Of WorkdayBrowserAdapter.apply: it never submits unless the page turned after its fields
\* were dealt with, and of the pages the user does not see any more, each key that was asked
\* for is there or on the review list.
THEOREM WizardsAreTold == Workday!WizardInit /\ [][Workday!WizardNext]_wizardVars => []Workday!WizardIsTold
<1>1. WizardInv => Workday!WizardIsTold
  BY DEF WizardInv, WizardTypes, PagesDealt, Presses, Dealt, Workday!WizardIsTold
<1> QED BY WizardStart, WizardStep, <1>1, PTL

-----------------------------------------------------------------------------
(* Orders of finite sets *)

\* LEMMA: a finite set in a strict total order is a sequence of all its elements.
LEMMA Ranking ==
  ASSUME NEW S, IsFiniteSet(S), NEW R,
         \A i \in S : <<i, i>> \notin R,
         \A i, j, k \in S : <<i, j>> \in R /\ <<j, k>> \in R => <<i, k>> \in R,
         \A i, j \in S : i # j => <<i, j>> \in R \/ <<j, i>> \in R
  PROVE  /\ Form!InOrder(S, R) \in Seq(S)
         /\ \A i \in S : \E n \in 1..Len(Form!InOrder(S, R)) : Form!InOrder(S, R)[n] = i
         /\ S # {} => \E i \in S : \A k \in S : <<k, i>> \notin R
<1> DEFINE c == Cardinality(S)
           Below(i) == {k \in S : <<k, i>> \in R}
<1>1. c \in Nat
  BY FS_CardinalityType
<1>2. PICK below : below = [i \in S |-> Below(i)]
  OBVIOUS
<1>3. \A i \in S : below[i] = {k \in S : <<k, i>> \in R}
  BY <1>2
<1>4. ASSUME NEW i \in S
      PROVE  IsFiniteSet(below[i]) /\ Cardinality(below[i]) \in Nat /\ Cardinality(below[i]) < c
  <2>1. IsFiniteSet(S \ {i}) /\ Cardinality(S \ {i}) = c - 1
    BY FS_RemoveElement
  <2>2. below[i] \in SUBSET (S \ {i})
    BY <1>3
  <2>3. IsFiniteSet(below[i]) /\ Cardinality(below[i]) <= Cardinality(S \ {i})
    BY <2>1, <2>2, FS_Subset, Zenon
  <2>4. Cardinality(below[i]) \in Nat
    BY <2>3, FS_CardinalityType
  <2> QED BY <1>1, <2>1, <2>3, <2>4
<1>5. ASSUME NEW i \in S, NEW j \in S, <<i, j>> \in R
      PROVE  Cardinality(below[i]) < Cardinality(below[j])
  <2>1. i \in below[j]
    BY <1>3, <1>5
  <2>2. IsFiniteSet(below[j] \ {i}) /\ Cardinality(below[j] \ {i}) = Cardinality(below[j]) - 1
    BY <1>4, <2>1, FS_RemoveElement
  <2>3. below[i] \in SUBSET (below[j] \ {i})
    BY <1>3, <1>5
  <2>4. Cardinality(below[i]) <= Cardinality(below[j] \ {i})
    BY <2>2, <2>3, FS_Subset, Zenon
  <2> QED BY <1>4, <2>2, <2>4
<1>6. PICK rank : rank = [i \in S |-> Cardinality(below[i])]
  OBVIOUS
<1>7. \A i \in S : rank[i] = Cardinality(below[i]) /\ rank[i] \in Nat /\ rank[i] < c
  BY <1>4, <1>6
<1>8. \A i, j \in S : i # j => rank[i] # rank[j]
  <2> SUFFICES ASSUME NEW i \in S, NEW j \in S, i # j PROVE rank[i] # rank[j]
    OBVIOUS
  <2>1. CASE <<i, j>> \in R
    BY <1>5, <1>7, <2>1
  <2>2. CASE <<j, i>> \in R
    BY <1>5, <1>7, <2>2
  <2> QED BY <2>1, <2>2
<1> DEFINE ranks == 0..(c - 1)
<1>9. IsFiniteSet(ranks) /\ Cardinality(ranks) = c
  <2>1. 0 \in Int /\ c - 1 \in Int
    BY <1>1
  <2>2. /\ IsFiniteSet(0..(c - 1))
        /\ Cardinality(0..(c - 1)) = IF 0 > c - 1 THEN 0 ELSE (c - 1) - 0 + 1
    BY <2>1, FS_Interval, Zenon
  <2> QED BY <1>1, <2>2
<1>10. \A m \in ranks : \E i \in S : rank[i] = m
  <2>1. rank \in [S -> ranks]
    BY <1>1, <1>6, <1>7
  <2> HIDE DEF ranks, c
  <2>2. rank \in Injection(S, ranks)
    BY <1>8, <2>1 DEF Injection, IsInjective
  <2>3. Cardinality(S) = Cardinality(ranks)
    BY <1>9 DEF c
  <2>4. rank \in Surjection(S, ranks)
    BY <1>9, <2>2, <2>3, FS_Injection
  <2> QED BY <2>4 DEF Surjection
<1>11. PICK f : f = Form!InOrder(S, R)
  OBVIOUS
<1>12. f = [n \in 1..c |-> CHOOSE i \in S : Cardinality({k \in S : <<k, i>> \in R}) = n - 1]
  BY <1>11 DEF Form!InOrder, Form!Cardinality, Cardinality
<1> HIDE DEF c, Below
<1>13. \A n \in 1..c : f[n] \in S /\ rank[f[n]] = n - 1
  <2> SUFFICES ASSUME NEW n \in 1..c PROVE f[n] \in S /\ rank[f[n]] = n - 1
    OBVIOUS
  <2>1. n - 1 \in ranks
    BY <1>1
  <2>2. PICK i \in S : rank[i] = n - 1
    BY <1>10, <2>1
  <2>3. Cardinality({k \in S : <<k, i>> \in R}) = n - 1
    BY <1>3, <1>7, <2>2
  <2>4. f[n] = CHOOSE j \in S : Cardinality({k \in S : <<k, j>> \in R}) = n - 1
    BY <1>12
  <2>5. f[n] \in S /\ Cardinality({k \in S : <<k, f[n]>> \in R}) = n - 1
    BY <2>3, <2>4, Zenon
  <2> QED BY <1>3, <1>7, <2>5
<1>14. ASSUME NEW i \in S PROVE \E n \in 1..c : f[n] = i
  <2>1. rank[i] + 1 \in 1..c /\ (rank[i] + 1) - 1 = rank[i]
    BY <1>1, <1>7
  <2>2. f[rank[i] + 1] \in S /\ rank[f[rank[i] + 1]] = rank[i]
    BY <1>13, <2>1
  <2> QED BY <1>8, <2>1, <2>2
<1>15. f \in Seq(S) /\ Len(f) = c
  <2>1. \A n \in 1..c : (CHOOSE i \in S : Cardinality({k \in S : <<k, i>> \in R}) = n - 1) \in S
    BY <1>12, <1>13
  <2>2. f \in [1..c -> S]
    BY <1>12, <2>1
  <2> QED BY <1>1, <2>2
<1>16. ASSUME S # {} PROVE \E i \in S : \A k \in S : <<k, i>> \notin R
  <2>1. c # 0
    BY <1>16, FS_EmptySet DEF c
  <2>2. 0 \in ranks
    BY <1>1, <2>1
  <2>3. PICK i \in S : rank[i] = 0
    BY <1>10, <2>2
  <2>4. below[i] = {}
    BY <1>4, <1>7, <2>3, FS_EmptySet
  <2> QED BY <1>3, <2>4
<1> QED BY <1>11, <1>14, <1>15, <1>16

\* LEMMA: a finite set of numbers has a least one.
LEMMA LeastOf ==
  ASSUME NEW S \in SUBSET Nat, IsFiniteSet(S), S # {}
  PROVE  Form!Least(S) \in S /\ \A k \in S : Form!Least(S) <= k
<1> DEFINE R == {p \in S \X S : p[1] < p[2]}
<1>1. \A i, j \in S : <<i, j>> \in R <=> i < j
  OBVIOUS
<1>2. /\ \A i \in S : <<i, i>> \notin R
      /\ \A i, j, k \in S : <<i, j>> \in R /\ <<j, k>> \in R => <<i, k>> \in R
      /\ \A i, j \in S : i # j => <<i, j>> \in R \/ <<j, i>> \in R
  BY <1>1
<1> HIDE DEF R
<1>3. PICK i \in S : \A k \in S : <<k, i>> \notin R
  BY <1>2, Ranking
<1>4. \A k \in S : i <= k
  <2> SUFFICES ASSUME NEW k \in S PROVE i <= k
    OBVIOUS
  <2>1. ~(k < i)
    BY <1>1, <1>3
  <2>2. i \in Nat /\ k \in Nat
    OBVIOUS
  <2> QED BY <2>1, <2>2
<1> QED BY <1>4, Zenon DEF Form!Least

-----------------------------------------------------------------------------
(* Forms *)

\* LEMMA: the least of some places of a form is one of them.
LEMMA FirstPlace ==
  ASSUME NEW len \in Nat, NEW S \in SUBSET (1..len), S # {}
  PROVE  Form!Least(S) \in S
<1>1. IsFiniteSet(1..len)
  BY FS_Interval
<1>2. IsFiniteSet(S)
  BY <1>1, FS_Subset
<1>3. S \in SUBSET Nat
  OBVIOUS
<1> QED BY <1>2, <1>3, LeastOf

\* LEMMA: the order of the extractor ranks every field that it may read.
LEMMA RankTypes ==
  ASSUME NEW e, e.kind \in Form!Kinds, e.frame \in Form!Places, e.frame # "foreign"
  PROVE  Form!Rank(e)[1] \in Nat /\ Form!Rank(e)[2] \in Nat /\ Form!Rank(e) = <<Form!Rank(e)[1], Form!Rank(e)[2]>>
<1> DEFINE r1 == CHOOSE n \in DOMAIN Form!Frames : Form!Frames[n] = e.frame
           r2 == CHOOSE n \in DOMAIN Form!Sweeps : e.kind \in Form!Sweeps[n]
<1>1. /\ DOMAIN Form!Frames = 1..3
      /\ Form!Frames[1] = "page" /\ Form!Frames[2] = "named" /\ Form!Frames[3] = "unnamed"
  BY DEF Form!Frames
<1>2. /\ DOMAIN Form!Sweeps = 1..6
      /\ Form!Sweeps[1] = {"text"} /\ Form!Sweeps[2] = {"number"} /\ Form!Sweeps[3] = {"select", "combo"}
      /\ Form!Sweeps[4] = {"checkbox"} /\ Form!Sweeps[5] = {"radio"} /\ Form!Sweeps[6] = {"file"}
  BY DEF Form!Sweeps
<1>3. PICK a \in 1..3 : Form!Frames[a] = e.frame
  BY <1>1 DEF Form!Places
<1>4. PICK b \in 1..6 : e.kind \in Form!Sweeps[b]
  BY <1>2 DEF Form!Kinds
<1>5. r1 \in DOMAIN Form!Frames
  <2>1. \E n \in DOMAIN Form!Frames : Form!Frames[n] = e.frame
    BY <1>1, <1>3
  <2> QED BY <2>1, Zenon
<1>6. r2 \in DOMAIN Form!Sweeps
  <2>1. \E n \in DOMAIN Form!Sweeps : e.kind \in Form!Sweeps[n]
    BY <1>2, <1>4
  <2> QED BY <2>1, Zenon
<1>7. Form!Rank(e) = <<r1, r2>>
  BY DEF Form!Rank
<1> HIDE DEF r1, r2
<1>8. r1 \in Nat /\ r2 \in Nat
  BY <1>1, <1>2, <1>5, <1>6
<1> QED BY <1>7, <1>8

\* LEMMA: a sequence of members of a set is one of members of a wider set.
LEMMA WiderSeq ==
  ASSUME NEW S, NEW T, S \subseteq T, NEW q \in Seq(S)
  PROVE  q \in Seq(T)
<1>1. Len(q) \in Nat /\ q \in [1..Len(q) -> T]
  OBVIOUS
<1> QED BY <1>1

FormTyped ==
  /\ site.form \in Seq({site.form[i] : i \in DOMAIN site.form})
  /\ \A i \in DOMAIN site.form : site.form[i].kind \in Form!Kinds /\ site.form[i].frame \in Form!Places

\* LEMMA: the places of a form that is shown are finitely many numbers.
LEMMA PagePlaces ==
  ASSUME FormTyped
  PROVE  /\ Form!OnPage \in SUBSET (1..Len(site.form)) /\ Len(site.form) \in Nat
         /\ DOMAIN site.form = 1..Len(site.form) /\ IsFiniteSet(Form!OnPage)
<1>1. Form!OnPage \in SUBSET (1..Len(site.form)) /\ Len(site.form) \in Nat /\ DOMAIN site.form = 1..Len(site.form)
  BY DEF FormTyped, Form!OnPage
<1>2. IsFiniteSet(1..Len(site.form))
  BY <1>1, FS_Interval
<1> QED BY <1>1, <1>2, FS_Subset

\* LEMMA: a selector finds the first element it matches.
LEMMA TargetHit ==
  ASSUME FormTyped, NEW s, Form!Hits(s) # {}
  PROVE  Form!Target(s) \in Form!Hits(s)
<1>1. Form!Hits(s) \in SUBSET (1..Len(site.form)) /\ Len(site.form) \in Nat
  BY PagePlaces DEF Form!Hits
<1> QED BY <1>1, FirstPlace DEF Form!Target

\* LEMMA: the extractor reads fields of the page, each that is legible and has its selector
\* to itself.
LEMMA ExtractorReads ==
  ASSUME FormTyped, NEW contexts \in SUBSET {"page", "named", "unnamed"}
  PROVE  /\ Form!Extracted(contexts) \in Seq({i \in Form!OnPage : Form!Element(i).frame \in contexts})
         /\ \A i \in Form!OnPage :
              Form!Legible(i, contexts) /\ (\A k \in Form!OnPage \ {i} : ~Form!SameField(i, k)) =>
                \E n \in 1..Len(Form!Extracted(contexts)) : Form!Extracted(contexts)[n] = i
<1> DEFINE legible == {i \in Form!OnPage : Form!Legible(i, contexts)}
           fields == {i \in legible : ~\E k \in legible : Form!SameField(i, k) /\ Form!Before(k, i)}
           R == {p \in fields \X fields : Form!Before(p[1], p[2])}
<1>1. /\ fields \in SUBSET {i \in Form!OnPage : Form!Element(i).frame \in contexts}
      /\ fields \in SUBSET Nat /\ IsFiniteSet(fields)
  <2>1. fields \in SUBSET {i \in Form!OnPage : Form!Element(i).frame \in contexts}
    BY DEF Form!Legible
  <2> QED BY <2>1, PagePlaces, FS_Subset
<1>2. ASSUME NEW i \in legible
      PROVE  LET r == Form!Rank(Form!Element(i))
             IN i \in Nat /\ r[1] \in Nat /\ r[2] \in Nat /\ r = <<r[1], r[2]>>
  <2>1. Form!Element(i).kind \in Form!Kinds /\ Form!Element(i).frame \in Form!Places
    BY PagePlaces DEF FormTyped, Form!Element
  <2>2. Form!Element(i).frame # "foreign"
    BY DEF Form!Legible
  <2> QED BY <2>1, <2>2, RankTypes, PagePlaces
<1>3. \A i, j \in fields : <<i, j>> \in R <=> Form!Before(i, j)
  OBVIOUS
<1>4. \A i \in legible : ~Form!Before(i, i)
  BY <1>2 DEF Form!Before
<1>5. \A i, j, k \in fields : Form!Before(i, j) /\ Form!Before(j, k) => Form!Before(i, k)
  BY <1>2 DEF Form!Before
<1>6. \A i, j \in fields : i # j => Form!Before(i, j) \/ Form!Before(j, i)
  BY <1>2 DEF Form!Before
<1>7. /\ Form!InOrder(fields, R) \in Seq(fields)
      /\ \A i \in fields : \E n \in 1..Len(Form!InOrder(fields, R)) : Form!InOrder(fields, R)[n] = i
  <2> HIDE DEF R, fields, legible
  <2>1. /\ \A i \in fields : <<i, i>> \notin R
        /\ \A i, j, k \in fields : <<i, j>> \in R /\ <<j, k>> \in R => <<i, k>> \in R
        /\ \A i, j \in fields : i # j => <<i, j>> \in R \/ <<j, i>> \in R
    BY <1>3, <1>4, <1>5, <1>6 DEF fields
  <2> QED BY <1>1, <2>1, Ranking
<1>8. Form!Extracted(contexts) = Form!InOrder(fields, R)
  BY DEF Form!Extracted
<1>9. \A i \in Form!OnPage :
        Form!Legible(i, contexts) /\ (\A k \in Form!OnPage \ {i} : ~Form!SameField(i, k)) => i \in fields
  BY <1>4
<1> HIDE DEF R, fields, legible
<1>10. Form!InOrder(fields, R) \in Seq({i \in Form!OnPage : Form!Element(i).frame \in contexts})
  BY <1>1, <1>7, WiderSeq, Zenon
<1> QED BY <1>7, <1>8, <1>9, <1>10

\* LEMMA: the generic filler detects fields of the page, each it has a hand for.
LEMMA FillerDetects ==
  ASSUME FormTyped
  PROVE  /\ Form!Detected \in Seq(Form!OnPage)
         /\ \A i \in Form!OnPage :
              Form!Element(i).frame = "page" /\ Form!Element(i).visible /\ Form!Element(i).kind # "combo" =>
                \E n \in 1..Len(Form!Detected) : Form!Detected[n] = i
<1> DEFINE fields == {i \in Form!OnPage : /\ Form!Element(i).frame = "page" /\ Form!Element(i).visible
                                          /\ Form!Element(i).kind # "combo"}
           R == {p \in fields \X fields : p[1] < p[2]}
<1>1. fields \in SUBSET Form!OnPage /\ fields \in SUBSET Nat /\ IsFiniteSet(fields)
  <2>1. fields \in SUBSET Form!OnPage
    OBVIOUS
  <2> QED BY <2>1, PagePlaces, FS_Subset
<1>2. \A i, j \in fields : <<i, j>> \in R <=> i < j
  OBVIOUS
<1>3. \A i \in fields : i \in Nat
  BY <1>1
<1>4. /\ Form!InOrder(fields, R) \in Seq(fields)
      /\ \A i \in fields : \E n \in 1..Len(Form!InOrder(fields, R)) : Form!InOrder(fields, R)[n] = i
  <2> HIDE DEF R, fields
  <2>1. /\ \A i \in fields : <<i, i>> \notin R
        /\ \A i, j, k \in fields : <<i, j>> \in R /\ <<j, k>> \in R => <<i, k>> \in R
        /\ \A i, j \in fields : i # j => <<i, j>> \in R \/ <<j, i>> \in R
    BY <1>2, <1>3
  <2> QED BY <1>1, <2>1, Ranking
<1>5. Form!Detected = Form!InOrder(fields, R)
  BY DEF Form!Detected
<1>6. \A i \in Form!OnPage :
        Form!Element(i).frame = "page" /\ Form!Element(i).visible /\ Form!Element(i).kind # "combo" => i \in fields
  OBVIOUS
<1> HIDE DEF R, fields
<1>7. Form!InOrder(fields, R) \in Seq(Form!OnPage)
  BY <1>1, <1>4, WiderSeq, Zenon
<1> QED BY <1>4, <1>5, <1>6, <1>7

-----------------------------------------------------------------------------
(* What the record of a form says *)

SourceId(i) == Form!Element(i).attr.id
IsLetter(i) == \E n \in DOMAIN LetterIds : SourceId(i) \in LetterIds[n]
Stands(i, claim) == content[i] = claim[2] \/ Form!Contested(i)
Waiting(i) == \E n \in 1..Len(answering) : answering[n] = i

\* Where a value the Greenhouse record claims went: a fixed field, the cover letter, a question.
FixedSource(i, claim) ==
  /\ Form!Element(i).frame = "page" /\ Form!Element(i).kind \in {"text", "number"}
  /\ SourceId(i) \in DOMAIN Form!FieldMap /\ claim[1] = Form!FieldMap[SourceId(i)]
  /\ Stands(i, claim)
LetterSource(i, claim) ==
  IsLetter(i) /\ claim[1] = "cover_letter" /\ (Stands(i, claim) \/ Form!Rewritten(i))
QuestionSource(i, claim) ==
  claim[1] = Form!Label(Form!Element(i)) /\ Stands(i, claim)
BoxSource(i, claim) ==
  /\ claim[1] = Form!GenericLabel(Form!Element(i))
  /\ content[i] = claim[2] \/ Form!Element(i).kind \in {"checkbox", "radio"}

\* The fixed fields of the page are filled in or missed.
FixedDealt ==
  \A id \in DOMAIN Form!FieldMap :
    \/ Form!FieldMap[id] \in missed
    \/ Form!Hits(Form!StandardId(id)) # {} /\ content[Form!Target(Form!StandardId(id))] # ""
\* Every other field is dealt with or still to be asked.
QuestionsDealt ==
  \A i \in Form!OnPage :
    \/ content[i] # "" \/ Form!Overlooked(i) \/ Form!Reserved(Form!Element(i))
    \/ Form!Label(Form!Element(i)) \in missed
    \/ <<"Review custom question", Form!Label(Form!Element(i))>> \in review
    \/ Waiting(i)
FieldsDealt ==
  \A i \in Form!OnPage :
    content[i] # "" \/ Form!Overlooked(i) \/ Form!GenericLabel(Form!Element(i)) \in missed \/ Waiting(i)

NothingYet == entries = {} /\ missed = {} /\ review = {}
\* A form that went off with the first click leaves an empty record.
SentBlank ==
  sent => shown = "thanks" /\ ~site.greenhouse /\ entries = {} /\ missed = {} /\ answering = <<>>

BoardRun ==
  /\ site.greenhouse
  /\ phase = "standard" => NothingYet
  /\ phase # "standard" => FixedDealt
  /\ phase = "letter" => \A claim \in entries : \E i \in Form!OnPage : FixedSource(i, claim)
  /\ phase \in {"extract", "ask"} => \A claim \in entries : \E i \in Form!OnPage :
        FixedSource(i, claim) \/ LetterSource(i, claim) \/ QuestionSource(i, claim)
  /\ phase = "ask" => /\ QuestionsDealt /\ read \subseteq {"page", "named", "unnamed"}
                      /\ answering \in Seq({i \in Form!OnPage : Form!Element(i).frame \in read})
OtherRun ==
  /\ ~site.greenhouse
  /\ phase = "detect" => NothingYet /\ answering = <<>>
  /\ phase = "fill" => /\ answering \in Seq(Form!OnPage) /\ FieldsDealt
                       /\ \A claim \in entries : \E i \in Form!OnPage : BoxSource(i, claim)

FormsInv ==
  /\ FormTyped /\ DOMAIN content = DOMAIN site.form /\ SentBlank
  /\ phase \in {"idle", "visit", "standard", "letter", "extract", "ask", "detect", "fill", "filled", "failed"}
  /\ phase \in {"idle", "visit"} => NothingYet /\ answering = <<>> /\ ~sent
  /\ phase \in {"standard", "letter", "extract", "ask"} => BoardRun
  /\ phase \in {"detect", "fill"} => OtherRun
  /\ phase = "filled" => Form!RecordTellsThePage

\* LEMMA: while the page and the frames read stay, so does every word about a field that does
\* not depend on its value.
LEMMA PageStays ==
  ASSUME UNCHANGED <<site, shown>>
  PROVE  /\ Form!OnPage' = Form!OnPage
         /\ \A i : /\ Form!Element(i)' = Form!Element(i) /\ Form!Names(i)' = Form!Names(i)
                   /\ Form!Contested(i)' <=> Form!Contested(i)
                   /\ Form!Rewritten(i)' <=> Form!Rewritten(i)
                   /\ SourceId(i)' = SourceId(i)
                   /\ IsLetter(i)' <=> IsLetter(i)
                   /\ (read' = read) => (Form!Overlooked(i)' <=> Form!Overlooked(i))
         /\ \A s : Form!Hits(s)' = Form!Hits(s) /\ Form!Target(s)' = Form!Target(s)
<1>1. Form!OnPage' = Form!OnPage
  BY DEF Form!OnPage
<1>2. \A i : Form!Element(i)' = Form!Element(i)
  BY DEF Form!Element
<1>3. \A s : Form!Hits(s)' = Form!Hits(s)
  BY <1>1, <1>2 DEF Form!Hits
<1>4. \A s : Form!Target(s)' = Form!Target(s)
  BY <1>3 DEF Form!Target
<1>5. \A i : Form!Names(i)' = Form!Names(i)
  BY <1>2 DEF Form!Names
<1>6. \A i : Form!Contested(i)' <=> Form!Contested(i)
  BY <1>1, <1>2, <1>3, <1>4 DEF Form!Contested
<1>7. \A i : Form!Rewritten(i)' <=> Form!Rewritten(i)
  BY <1>2 DEF Form!Rewritten
<1>8. \A i : SourceId(i)' = SourceId(i) /\ (IsLetter(i)' <=> IsLetter(i))
  BY <1>2 DEF SourceId, IsLetter
<1>9. \A i : (read' = read) => (Form!Overlooked(i)' <=> Form!Overlooked(i))
  BY <1>1, <1>2, <1>6 DEF Form!Overlooked, Form!SameField
<1> QED BY <1>1, <1>2, <1>3, <1>4, <1>5, <1>6, <1>7, <1>8, <1>9

\* LEMMA: a selector by id finds an element of that id.
LEMMA StandardHit ==
  ASSUME FormTyped, NEW x, Form!Hits(Form!StandardId(x)) # {}
  PROVE  LET t == Form!Target(Form!StandardId(x))
         IN t \in Form!OnPage /\ Form!Element(t).frame = "page" /\ SourceId(t) = x
<1>1. Form!Target(Form!StandardId(x)) \in Form!Hits(Form!StandardId(x))
  BY TargetHit
<1> QED BY <1>1 DEF Form!Hits, Form!StandardId, SourceId

\* LEMMA: an element that has an id is selected by it, unless it is a radio button; and what is
\* selected by an id has it.
LEMMA SelectedById ==
  ASSUME NEW e
  PROVE  /\ e.kind # "radio" /\ e.attr.id # "" => Form!Selector(e) = Form!StandardId(e.attr.id)
         /\ \A x : Form!Selector(e) = Form!StandardId(x) => e.attr.id = x /\ e.kind # "radio"
<1> DEFINE k == Form!First(Form!AttrOrder, e.attr)
<1>1. DOMAIN Form!AttrOrder = 1..5 /\ Form!AttrOrder[1] = "id"
  BY DEF Form!AttrOrder
<1>2. PICK S : S = {n \in DOMAIN Form!AttrOrder : e.attr[Form!AttrOrder[n]] # ""}
  OBVIOUS
<1>a. k = IF S = {} THEN "none" ELSE Form!AttrOrder[Form!Least(S)]
  BY <1>2 DEF Form!First
<1>3. ASSUME e.attr.id # "" PROVE k = "id"
  <2>1. e.attr["id"] # ""
    BY <1>3
  <2>2. 1 \in DOMAIN Form!AttrOrder /\ e.attr[Form!AttrOrder[1]] # ""
    <3>1. 1 \in DOMAIN Form!AttrOrder
      BY <1>1
    <3>2. e.attr[Form!AttrOrder[1]] # ""
      BY <1>1, <2>1
    <3> QED BY <3>1, <3>2
  <2>3. 1 \in S /\ S \subseteq 1..5
    BY <1>1, <1>2, <2>2
  <2>4. PICK n \in Nat : n = 5
    OBVIOUS
  <2>5. IsFiniteSet(1..n)
    BY FS_Interval
  <2>6. S \in SUBSET (1..n) /\ S \in SUBSET Nat
    BY <2>3, <2>4
  <2>7. IsFiniteSet(S)
    BY <2>5, <2>6, FS_Subset
  <2>8. Form!Least(S) \in S /\ \A m \in S : Form!Least(S) <= m
    BY <2>3, <2>6, <2>7, LeastOf
  <2>9. PICK m : m = Form!Least(S)
    OBVIOUS
  <2>10. m = 1
    <3>1. m \in S /\ m <= 1
      BY <2>3, <2>8, <2>9
    <3>2. m \in 1..5
      BY <2>3, <3>1
    <3> QED BY <3>1, <3>2
  <2> QED BY <1>1, <1>a, <2>3, <2>9, <2>10
<1> HIDE DEF k
<1>4. e.kind # "radio" => Form!Selector(e) = <<k, e.attr[k]>>
  BY DEF Form!Selector, k
<1>5. e.kind = "radio" => Form!Selector(e)[1] = "name"
  BY DEF Form!Selector, Form!RadioGroup
<1>6. \A x : Form!StandardId(x) = <<"id", x>>
  BY DEF Form!StandardId
<1>7. ASSUME NEW x, Form!Selector(e) = Form!StandardId(x) PROVE e.attr.id = x /\ e.kind # "radio"
  BY <1>4, <1>5, <1>6, <1>7
<1> QED BY <1>3, <1>4, <1>6, <1>7

\* LEMMA: what stands behind a claim does so as long as its field keeps its value, or is not the
\* only one that its selector finds.
LEMMA SourcesStay ==
  ASSUME UNCHANGED <<site, shown>>, NEW i, NEW claim, content'[i] = content[i] \/ Form!Contested(i)
  PROVE  /\ FixedSource(i, claim) => FixedSource(i, claim)'
         /\ LetterSource(i, claim) => LetterSource(i, claim)'
         /\ QuestionSource(i, claim) => QuestionSource(i, claim)'
<1>1. Stands(i, claim) => Stands(i, claim)'
  BY PageStays DEF Stands
<1>2. FixedSource(i, claim) => FixedSource(i, claim)'
  BY <1>1, PageStays DEF FixedSource
<1>3. LetterSource(i, claim) => LetterSource(i, claim)'
  BY <1>1, PageStays DEF LetterSource
<1>4. QuestionSource(i, claim) => QuestionSource(i, claim)'
  BY <1>1, PageStays DEF QuestionSource
<1> QED BY <1>2, <1>3, <1>4

\* LEMMA: fields that were filled in or missed stay so.
LEMMA FixedStays ==
  ASSUME UNCHANGED <<site, shown>>, FixedDealt, missed \subseteq missed',
         \A i \in Form!OnPage : content'[i] = content[i] \/ content'[i] # "", FormTyped
  PROVE  FixedDealt'
<1> SUFFICES ASSUME NEW id \in DOMAIN Form!FieldMap
             PROVE  \/ Form!FieldMap[id] \in missed'
                    \/ Form!Hits(Form!StandardId(id))' # {} /\ content'[Form!Target(Form!StandardId(id))'] # ""
  BY DEF FixedDealt
<1>1. Form!Hits(Form!StandardId(id))' = Form!Hits(Form!StandardId(id))
      /\ Form!Target(Form!StandardId(id))' = Form!Target(Form!StandardId(id))
  BY PageStays
<1>2. CASE Form!FieldMap[id] \in missed
  BY <1>2
<1>3. CASE Form!Hits(Form!StandardId(id)) # {} /\ content[Form!Target(Form!StandardId(id))] # ""
  <2>1. Form!Target(Form!StandardId(id)) \in Form!OnPage
    BY <1>3, StandardHit
  <2> QED BY <1>1, <1>3, <2>1
<1> QED BY <1>2, <1>3 DEF FixedDealt

LEMMA VisitForm ==
  ASSUME FormsInv, NEW s \in Sites, NEW p \in Profiles, Form!Visit(s, p)
  PROVE  FormsInv'
<1>1. /\ phase = "idle" /\ phase' = "visit" /\ site' = s /\ answering' = answering /\ entries' = entries
      /\ missed' = missed /\ review' = review /\ sent' = sent /\ DOMAIN content' = DOMAIN s.form
  BY DEF Form!Visit
<1>2. FormTyped'
  BY <1>1, FormsAreForms DEF FormTyped, Form!FormsAssumption
<1>3. NothingYet /\ answering = <<>> /\ ~sent
  BY <1>1 DEF FormsInv
<1> QED BY <1>1, <1>2, <1>3 DEF FormsInv, NothingYet, SentBlank

LEMMA OpenForm ==
  ASSUME FormsInv, Form!ClickApply \/ Form!StayOnPage
  PROVE  FormsInv'
<1>1. /\ phase = "visit" /\ site' = site /\ answering' = answering /\ entries' = entries
      /\ missed' = missed /\ review' = review /\ content' = content
      /\ phase' = IF site.greenhouse THEN "standard" ELSE "detect"
      /\ sent' = sent \/ (sent' = TRUE /\ shown' = "thanks" /\ ~site.greenhouse)
  <2>1. CASE Form!ClickApply
    BY <2>1 DEF Form!ClickApply, Form!Adapter
  <2>2. CASE Form!StayOnPage
    BY <2>2 DEF Form!StayOnPage, Form!Adapter
  <2> QED BY <2>1, <2>2
<1>2. NothingYet /\ answering = <<>> /\ ~sent /\ FormTyped /\ DOMAIN content = DOMAIN site.form
  BY <1>1 DEF FormsInv
<1>3. FormTyped' /\ NothingYet' /\ SentBlank'
  BY <1>1, <1>2 DEF FormTyped, NothingYet, SentBlank
<1>4. CASE site.greenhouse
  BY <1>1, <1>2, <1>3, <1>4 DEF FormsInv, BoardRun
<1>5. CASE ~site.greenhouse
  BY <1>1, <1>2, <1>3, <1>5 DEF FormsInv, OtherRun
<1> QED BY <1>4, <1>5

LEMMA FailForm ==
  ASSUME FormsInv, Form!RunFails
  PROVE  FormsInv'
<1>1. /\ phase' = "failed" /\ site' = site /\ answering' = answering /\ entries' = {}
      /\ missed' = {} /\ review' = {} /\ content' = content /\ sent' = sent /\ shown' = shown
  BY DEF Form!RunFails
<1>2. FormTyped' /\ SentBlank' /\ DOMAIN content' = DOMAIN site'.form
  BY <1>1 DEF FormsInv, FormTyped, SentBlank
<1> QED BY <1>1, <1>2 DEF FormsInv

\* LEMMA: without a posting there is nothing on the page.
LEMMA BlankForm ==
  ASSUME site = Form!NoSite, content = <<>>, phase = "idle", entries = {}, missed = {}, review = {},
         answering = <<>>, sent = FALSE
  PROVE  FormsInv
<1>1. site.form = <<>> /\ DOMAIN site.form = {}
  BY DEF Form!NoSite
<1>2. FormTyped
  BY <1>1 DEF FormTyped
<1> QED BY <1>1, <1>2 DEF FormsInv, NothingYet, SentBlank

LEMMA CloseForm ==
  ASSUME Form!CloseBrowser
  PROVE  FormsInv'
<1>1. /\ site' = Form!NoSite /\ content' = <<>> /\ phase' = "idle" /\ entries' = {} /\ missed' = {}
      /\ review' = {} /\ answering' = <<>> /\ sent' = FALSE
  BY DEF Form!CloseBrowser
<1>2. site'.form = <<>> /\ DOMAIN site'.form = {}
  BY <1>1 DEF Form!NoSite
<1>3. FormTyped'
  BY <1>2 DEF FormTyped
<1> QED BY <1>1, <1>2, <1>3 DEF FormsInv, NothingYet, SentBlank

LEMMA FillFixed ==
  ASSUME FormsInv, Form!FillStandard
  PROVE  FormsInv'
<1> DEFINE known == {id \in DOMAIN Form!FieldMap :
                       Form!Lookup(Form!FieldMap[id]) # "" /\ Form!Hits(Form!StandardId(id)) # {}}
           goal(i) == LET ids == {id \in known : Form!Target(Form!StandardId(id)) = i}
                      IN IF ids = {} THEN "" ELSE Form!Lookup(Form!FieldMap[CHOOSE id \in ids : TRUE])
<1>1. /\ phase = "standard" /\ phase' = "letter" /\ UNCHANGED <<site, profile, shown, read, answering, review, sent>>
      /\ \A id \in known : Form!Fillable(Form!Target(Form!StandardId(id)))
      /\ content' = [i \in DOMAIN content |-> goal(i)]
      /\ entries' = {<<Form!FieldMap[id], Form!Lookup(Form!FieldMap[id])>> : id \in known}
      /\ missed' = {Form!FieldMap[id] : id \in DOMAIN Form!FieldMap \ known}
  BY DEF Form!FillStandard
<1>2. FormTyped /\ SentBlank /\ DOMAIN content = DOMAIN site.form /\ BoardRun
  BY <1>1 DEF FormsInv
<1>3. ASSUME NEW id \in known
      PROVE  LET t == Form!Target(Form!StandardId(id))
             IN /\ t \in Form!OnPage /\ t \in DOMAIN content /\ Form!Element(t).frame = "page" /\ SourceId(t) = id
                /\ Form!Element(t).kind \in {"text", "number"} /\ content'[t] = Form!Lookup(Form!FieldMap[id])
  <2> DEFINE t == Form!Target(Form!StandardId(id))
             ids == {k \in known : Form!Target(Form!StandardId(k)) = t}
  <2>1. t \in Form!OnPage /\ Form!Element(t).frame = "page" /\ SourceId(t) = id
    BY <1>2, StandardHit
  <2>2. t \in DOMAIN content
    BY <1>2, <2>1 DEF Form!OnPage
  <2>3. Form!Element(t).kind \in {"text", "number"}
    BY <1>1 DEF Form!Fillable
  <2>4. \A k \in ids : k = id
    BY <1>2, <2>1, StandardHit
  <2>5. ids = {id}
    BY <2>4
  <2>6. (CHOOSE k \in ids : TRUE) = id
    BY <2>5
  <2>7. content'[t] = goal(t)
    BY <1>1, <2>2
  <2>8. goal(t) = Form!Lookup(Form!FieldMap[id])
    BY <2>5, <2>6
  <2> QED BY <2>1, <2>2, <2>3, <2>7, <2>8
<1> HIDE DEF goal
<1>4. \A s : Form!Hits(s)' = Form!Hits(s) /\ Form!Target(s)' = Form!Target(s)
  BY <1>1, PageStays
<1>5. FixedDealt'
  <2> SUFFICES ASSUME NEW id \in DOMAIN Form!FieldMap
               PROVE  \/ Form!FieldMap[id] \in missed'
                      \/ Form!Hits(Form!StandardId(id))' # {} /\ content'[Form!Target(Form!StandardId(id))'] # ""
    BY DEF FixedDealt
  <2>1. CASE id \in known
    <3>1. Form!Lookup(Form!FieldMap[id]) # "" /\ Form!Hits(Form!StandardId(id)) # {}
      BY <2>1
    <3> QED BY <1>3, <1>4, <2>1, <3>1
  <2>2. CASE id \notin known
    BY <1>1, <2>2
  <2> QED BY <2>1, <2>2
<1>6. ASSUME NEW claim \in entries' PROVE \E i \in Form!OnPage' : FixedSource(i, claim)'
  <2>1. PICK id \in known : claim = <<Form!FieldMap[id], Form!Lookup(Form!FieldMap[id])>>
    BY <1>1
  <2>a. PICK t : t = Form!Target(Form!StandardId(id))
    OBVIOUS
  <2>2. /\ t \in Form!OnPage /\ Form!Element(t).frame = "page" /\ SourceId(t) = id
        /\ Form!Element(t).kind \in {"text", "number"} /\ content'[t] = claim[2]
    BY <1>3, <2>1, <2>a
  <2>3. claim[1] = Form!FieldMap[SourceId(t)] /\ SourceId(t) \in DOMAIN Form!FieldMap
    BY <2>1, <2>2
  <2>4. t \in Form!OnPage' /\ FixedSource(t, claim)'
    BY <1>1, <2>2, <2>3, PageStays DEF FixedSource, Stands
  <2> QED BY <2>4
<1>7. FormTyped' /\ SentBlank' /\ DOMAIN content' = DOMAIN site'.form
  <2>1. DOMAIN content' = DOMAIN content
    BY <1>1
  <2>2. ~sent
    BY <1>2 DEF SentBlank, BoardRun
  <2> QED BY <1>1, <1>2, <2>1, <2>2 DEF FormTyped, SentBlank
<1>8. BoardRun'
  BY <1>1, <1>2, <1>5, <1>6 DEF BoardRun
<1> QED BY <1>1, <1>7, <1>8 DEF FormsInv

LEMMA FillLetter ==
  ASSUME FormsInv, Form!WriteLetter
  PROVE  FormsInv'
<1>1. phase = "letter" /\ phase' = "extract" /\ UNCHANGED <<site, profile, shown, read, answering, sent>>
  BY DEF Form!WriteLetter
<1>2. /\ FormTyped /\ DOMAIN content = DOMAIN site.form /\ BoardRun /\ FixedDealt
      /\ \A claim \in entries : \E i \in Form!OnPage : FixedSource(i, claim)
  BY <1>1 DEF FormsInv, BoardRun
<1>3. ~sent
  BY <1>2 DEF FormsInv, SentBlank, BoardRun
<1>4. ASSUME DOMAIN content' = DOMAIN content, missed \subseteq missed',
             \A i \in Form!OnPage : content'[i] = content[i] \/ content'[i] # "",
             \A claim \in entries' : \E i \in Form!OnPage : FixedSource(i, claim)' \/ LetterSource(i, claim)'
      PROVE  FormsInv'
  <2>1. FormTyped' /\ SentBlank' /\ DOMAIN content' = DOMAIN site'.form
    BY <1>1, <1>2, <1>3, <1>4 DEF FormTyped, SentBlank
  <2>2. FixedDealt'
    BY <1>1, <1>2, <1>4, FixedStays
  <2>3. \A claim \in entries' : \E i \in Form!OnPage' : FixedSource(i, claim)' \/ LetterSource(i, claim)'
    BY <1>1, <1>4, PageStays
  <2>4. BoardRun'
    BY <1>1, <1>2, <2>2, <2>3 DEF BoardRun
  <2> QED BY <1>1, <2>1, <2>4 DEF FormsInv
<1>5. CASE content' = content /\ entries' = entries /\ missed \subseteq missed'
  <2>1. \A claim \in entries' : \E i \in Form!OnPage : FixedSource(i, claim)'
    BY <1>1, <1>2, <1>5, SourcesStay
  <2> QED BY <1>4, <1>5, <2>1
<1>6. ASSUME NEW n \in DOMAIN LetterIds, NEW j \in Form!LetterHits(n),
             Form!Fill(j, "cover_letter"), Form!Claim("cover_letter", "cover_letter"), missed' = missed
      PROVE  FormsInv'
  <2>1. j \in Form!OnPage /\ j \in DOMAIN content /\ SourceId(j) \in LetterIds[n]
    BY <1>2 DEF Form!LetterHits, SourceId, Form!OnPage
  <2>2. /\ DOMAIN content' = DOMAIN content /\ content'[j] = "cover_letter"
        /\ \A i \in DOMAIN content : i # j => content'[i] = content[i]
    BY <1>6, <2>1 DEF Form!Fill
  <2>3. SourceId(j) \notin DOMAIN Form!FieldMap
    BY <2>1, FormsAreForms DEF Form!FormsAssumption
  <2>4. ASSUME NEW claim \in entries'
        PROVE  \E i \in Form!OnPage : FixedSource(i, claim)' \/ LetterSource(i, claim)'
    <3>1. CASE claim \in entries
      <4>1. PICK i \in Form!OnPage : FixedSource(i, claim)
        BY <1>2, <3>1
      <4>2. i # j /\ i \in DOMAIN content
        BY <1>2, <2>3, <4>1 DEF FixedSource, Form!OnPage
      <4>3. FixedSource(i, claim)'
        BY <1>1, <2>2, <4>1, <4>2, SourcesStay
      <4> QED BY <4>3
    <3>2. CASE claim = <<"cover_letter", "cover_letter">>
      <4>1. claim[1] = "cover_letter" /\ claim[2] = "cover_letter"
        BY <3>2
      <4>2. IsLetter(j)
        BY <1>6, <2>1 DEF IsLetter
      <4>3. LetterSource(j, claim)'
        BY <1>1, <2>2, <4>1, <4>2, PageStays DEF LetterSource, Stands
      <4> QED BY <2>1, <4>3
    <3> QED BY <1>6, <3>1, <3>2 DEF Form!Claim
  <2>5. \A i \in Form!OnPage : content'[i] = content[i] \/ content'[i] # ""
    BY <1>2, <2>2 DEF Form!OnPage
  <2> QED BY <1>4, <1>6, <2>2, <2>4, <2>5
<1>7. \/ content' = content /\ entries' = entries /\ missed \subseteq missed'
      \/ \E n \in DOMAIN LetterIds : \E j \in Form!LetterHits(n) :
           Form!Fill(j, "cover_letter") /\ Form!Claim("cover_letter", "cover_letter") /\ missed' = missed
  <2> DEFINE found == {n \in DOMAIN LetterIds : Form!LetterHits(n) # {}}
  <2>1. CASE "cover_letter" \notin profile \/ found = {}
    BY <2>1 DEF Form!WriteLetter, Form!Miss
  <2>2. CASE "cover_letter" \in profile /\ found # {}
    <3>1. PICK n : n = Form!Least(found)
      OBVIOUS
    <3>2. DOMAIN LetterIds = 1..3
      BY FormsAreForms DEF Form!FormsAssumption
    <3>3. PICK m \in Nat : m = 3
      OBVIOUS
    <3>4. found \in SUBSET (1..m)
      BY <3>2, <3>3
    <3>5. n \in found
      BY <2>2, <3>1, <3>3, <3>4, FirstPlace
    <3>6. PICK j : j = Form!Least(Form!LetterHits(n))
      OBVIOUS
    <3>7. Form!LetterHits(n) \in SUBSET (1..Len(site.form)) /\ Len(site.form) \in Nat
      BY <1>2, PagePlaces DEF Form!LetterHits
    <3>8. j \in Form!LetterHits(n)
      BY <3>5, <3>6, <3>7, FirstPlace
    <3>9. Form!Fill(j, "cover_letter") /\ Form!Claim("cover_letter", "cover_letter") /\ missed' = missed
      BY <2>2, <3>1, <3>6 DEF Form!WriteLetter
    <3> QED BY <3>5, <3>8, <3>9
  <2> QED BY <2>1, <2>2
<1> QED BY <1>5, <1>6, <1>7

LEMMA ExtractFields ==
  ASSUME FormsInv, Form!Extract
  PROVE  FormsInv'
<1>1. /\ phase = "extract" /\ phase' = "ask"
      /\ UNCHANGED <<site, profile, shown, content, entries, missed, review, sent>>
  BY DEF Form!Extract
<1>2. PICK contexts \in SUBSET {"page", "named", "unnamed"} :
        read' = contexts /\ answering' = Form!Extracted(contexts)
  BY DEF Form!Extract
<1>3. FormTyped /\ BoardRun /\ FixedDealt /\ ~sent /\ DOMAIN content = DOMAIN site.form
  BY <1>1 DEF FormsInv, BoardRun, SentBlank
<1>4. FixedDealt'
  BY <1>1, <1>3, FixedStays
<1>5. ASSUME NEW claim \in entries'
      PROVE  \E i \in Form!OnPage' : FixedSource(i, claim)' \/ LetterSource(i, claim)' \/ QuestionSource(i, claim)'
  <2>1. PICK i \in Form!OnPage : FixedSource(i, claim) \/ LetterSource(i, claim) \/ QuestionSource(i, claim)
    BY <1>1, <1>3 DEF BoardRun
  <2>2. FixedSource(i, claim)' \/ LetterSource(i, claim)' \/ QuestionSource(i, claim)'
    BY <1>1, <2>1, SourcesStay
  <2>3. i \in Form!OnPage'
    BY <1>1, <2>1, PageStays
  <2> QED BY <2>2, <2>3
<1>6. answering' \in Seq({i \in Form!OnPage' : Form!Element(i)'.frame \in read'})
  <2>1. Form!Extracted(contexts) \in Seq({i \in Form!OnPage : Form!Element(i).frame \in contexts})
    BY <1>3, ExtractorReads
  <2>2. \A i : Form!Element(i)' = Form!Element(i)
    BY <1>1, PageStays
  <2>3. {i \in Form!OnPage' : Form!Element(i)'.frame \in read'} = {i \in Form!OnPage : Form!Element(i).frame \in contexts}
    BY <1>1, <1>2, <2>2, PageStays
  <2> QED BY <1>2, <2>1, <2>3
<1>7. QuestionsDealt'
  <2> SUFFICES ASSUME NEW i \in Form!OnPage', ~Form!Overlooked(i)', ~Form!Reserved(Form!Element(i))'
               PROVE  Waiting(i)'
    BY DEF QuestionsDealt
  <2>1. i \in Form!OnPage /\ Form!Element(i)' = Form!Element(i)
    BY <1>1, PageStays
  <2>2. Form!Element(i).visible /\ Form!Element(i).frame \in contexts
        /\ \A k \in Form!OnPage \ {i} : ~Form!SameField(i, k)
    <3>1. site'.greenhouse
      BY <1>1, <1>3 DEF BoardRun
    <3>2. Form!Element(i)'.visible /\ Form!Element(i)'.frame \in read'
      BY <3>1 DEF Form!Overlooked
    <3>3. \A k \in Form!OnPage' \ {i} : ~Form!SameField(i, k)'
      BY <3>1 DEF Form!Overlooked
    <3>4. \A k : Form!SameField(i, k)' <=> Form!SameField(i, k)
      BY <1>1, PageStays DEF Form!SameField
    <3> QED BY <1>1, <1>2, <2>1, <3>2, <3>3, <3>4, PageStays
  <2>3. \E n \in 1..Len(Form!Extracted(contexts)) : Form!Extracted(contexts)[n] = i
    BY <1>3, <2>1, <2>2, ExtractorReads DEF Form!Legible
  <2> QED BY <1>2, <2>3 DEF Waiting
<1>8. BoardRun'
  BY <1>1, <1>2, <1>3, <1>4, <1>5, <1>6, <1>7 DEF BoardRun
<1> QED BY <1>1, <1>3, <1>8 DEF FormsInv, FormTyped, SentBlank

LEMMA AskField ==
  ASSUME FormsInv, Form!AnswerQuestion
  PROVE  FormsInv'
<1>1. /\ phase = "ask" /\ answering # <<>> /\ answering' = Tail(answering)
      /\ UNCHANGED <<site, profile, phase, shown, read, sent>>
      /\ Form!Question(Form!Element(Head(answering)))
  BY DEF Form!AnswerQuestion
<1> DEFINE fields == {i \in Form!OnPage : Form!Element(i).frame \in read}
           Told(claim) == \E i \in Form!OnPage :
             FixedSource(i, claim) \/ LetterSource(i, claim) \/ QuestionSource(i, claim)
           NowTold(claim) == \E i \in Form!OnPage :
             FixedSource(i, claim)' \/ LetterSource(i, claim)' \/ QuestionSource(i, claim)'
<1>2. /\ FormTyped /\ DOMAIN content = DOMAIN site.form /\ BoardRun /\ FixedDealt /\ site.greenhouse
      /\ \A claim \in entries : Told(claim)
      /\ QuestionsDealt /\ read \subseteq {"page", "named", "unnamed"} /\ answering \in Seq(fields)
  BY <1>1 DEF FormsInv, BoardRun
<1>3. ~sent
  BY <1>2 DEF FormsInv, SentBlank
<1>4. PICK h : h = Head(answering)
  OBVIOUS
<1>5. /\ h \in fields /\ answering' \in Seq(fields)
      /\ \A x : x # h /\ Waiting(x) => \E n \in 1..Len(answering') : answering'[n] = x
  BY <1>1, <1>2, <1>4, TailKeepsTheRest DEF Waiting
<1>6. PICK e : e = Form!Element(h)
  OBVIOUS
<1>7. h \in Form!OnPage /\ e.frame \in {"page", "named", "unnamed"} /\ Form!Question(e)
  BY <1>1, <1>2, <1>4, <1>5, <1>6
<1> HIDE DEF fields
<1>8. ASSUME DOMAIN content' = DOMAIN content, missed \subseteq missed', review \subseteq review',
             \A i \in Form!OnPage : content'[i] = content[i] \/ content'[i] # "",
             \A claim \in entries' : NowTold(claim),
             \/ content'[h] # "" \/ Form!Overlooked(h) \/ Form!Reserved(e) \/ Form!Label(e) \in missed'
             \/ <<"Review custom question", Form!Label(e)>> \in review'
      PROVE  FormsInv'
  <2>1. FormTyped' /\ SentBlank' /\ DOMAIN content' = DOMAIN site'.form
    BY <1>1, <1>2, <1>3, <1>8 DEF FormTyped, SentBlank
  <2>2. FixedDealt'
    BY <1>1, <1>2, <1>8, FixedStays
  <2>3. \A claim \in entries' : \E i \in Form!OnPage' :
          FixedSource(i, claim)' \/ LetterSource(i, claim)' \/ QuestionSource(i, claim)'
    BY <1>1, <1>8, PageStays
  <2>4. answering' \in Seq({i \in Form!OnPage' : Form!Element(i)'.frame \in read'})
    <3>1. \A i : Form!Element(i)' = Form!Element(i)
      BY <1>1, PageStays
    <3>2. {i \in Form!OnPage' : Form!Element(i)'.frame \in read'} = fields
      BY <1>1, <3>1, PageStays DEF fields
    <3> QED BY <1>5, <3>2
  <2>5. QuestionsDealt'
    <3> SUFFICES ASSUME NEW i \in Form!OnPage'
                 PROVE  \/ content'[i] # "" \/ Form!Overlooked(i)' \/ Form!Reserved(Form!Element(i))'
                        \/ Form!Label(Form!Element(i))' \in missed'
                        \/ <<"Review custom question", Form!Label(Form!Element(i))'>> \in review'
                        \/ Waiting(i)'
      BY DEF QuestionsDealt
    <3>1. /\ i \in Form!OnPage /\ Form!Element(i)' = Form!Element(i)
          /\ Form!Overlooked(i)' <=> Form!Overlooked(i)
      BY <1>1, PageStays
    <3>2. CASE i = h
      BY <1>6, <1>8, <3>1, <3>2
    <3>3. CASE i # h
      <4>1. \/ content[i] # "" \/ Form!Overlooked(i) \/ Form!Reserved(Form!Element(i))
            \/ Form!Label(Form!Element(i)) \in missed
            \/ <<"Review custom question", Form!Label(Form!Element(i))>> \in review
            \/ Waiting(i)
        BY <1>2, <3>1 DEF QuestionsDealt
      <4>2. Waiting(i) => Waiting(i)'
        BY <1>5, <3>3 DEF Waiting
      <4>3. content[i] # "" => content'[i] # ""
        BY <1>8, <3>1
      <4> QED BY <1>8, <3>1, <4>1, <4>2, <4>3
    <3> QED BY <3>2, <3>3
  <2>6. BoardRun'
    BY <1>1, <1>2, <2>2, <2>3, <2>4, <2>5 DEF BoardRun
  <2> QED BY <1>1, <2>1, <2>6 DEF FormsInv
<1>9. ASSUME content' = content, entries' = entries
      PROVE  \A claim \in entries' : NowTold(claim)
  BY <1>1, <1>2, <1>9, SourcesStay
<1>10. CASE (Form!Reserved(e) \/ e.kind = "file") /\ UNCHANGED <<content, entries, missed, review>>
  <2>1. e.kind = "file" => Form!Overlooked(h)
    BY <1>2, <1>6 DEF Form!Overlooked
  <2> QED BY <1>8, <1>9, <1>10, <2>1
<1>11. CASE Form!Ask(Form!Label(e)) \/ Form!Miss(Form!Label(e))
  BY <1>8, <1>9, <1>11 DEF Form!Ask, Form!Miss
<1>12. ASSUME NEW value, value # "", Form!FillDynamic(e, value), ~Form!Reserved(e), e.frame = "page",
              Form!Hits(Form!Selector(e)) # {}
       PROVE  FormsInv'
  <2>1. PICK j : j = Form!Target(Form!Selector(e))
    OBVIOUS
  <2>2. j \in Form!Hits(Form!Selector(e))
    BY <1>2, <1>12, <2>1, TargetHit
  <2>3. j \in Form!OnPage /\ Form!Element(j).frame = "page" /\ j \in DOMAIN content
    BY <1>2, <2>2 DEF Form!Hits, Form!OnPage
  <2>4. Form!Fill(j, value) /\ Form!Claim(Form!Label(e), value) /\ UNCHANGED <<missed, review>>
    BY <1>12, <2>1 DEF Form!FillDynamic
  <2>5. /\ DOMAIN content' = DOMAIN content /\ content'[j] = value
        /\ \A i \in DOMAIN content : i # j => content'[i] = content[i]
    BY <2>3, <2>4 DEF Form!Fill
  <2>6. j # h => Form!Contested(h) /\ Form!Contested(j)
    <3>1. j # h => Form!Contested(h)
      BY <1>2, <1>6, <1>12, <2>1 DEF Form!Contested
    <3>2. j # h => Form!Contested(j)
      BY <1>2, <1>6, <1>7, <2>2, <2>3 DEF Form!Contested
    <3> QED BY <3>1, <3>2
  <2>7. ASSUME NEW claim \in entries' PROVE NowTold(claim)
    <3>1. CASE claim = <<Form!Label(e), value>>
      <4>1. claim[1] = Form!Label(Form!Element(h)) /\ claim[2] = value
        BY <1>6, <3>1
      <4>2. QuestionSource(h, claim)'
        <5>1. Form!Label(Form!Element(h))' = Form!Label(Form!Element(h))
          BY <1>1, PageStays
        <5>2. Stands(h, claim)'
          BY <1>1, <2>5, <2>6, <4>1, PageStays DEF Stands
        <5> QED BY <4>1, <5>1, <5>2 DEF QuestionSource
      <4> QED BY <1>7, <4>2
    <3>2. CASE claim \in entries /\ claim[1] # Form!Label(e)
      <4>1. PICK i \in Form!OnPage :
              FixedSource(i, claim) \/ LetterSource(i, claim) \/ QuestionSource(i, claim)
        BY <1>2, <3>2
      <4>2. i \in DOMAIN content
        BY <1>2, <4>1 DEF Form!OnPage
      <4>3. CASE i # j \/ j # h
        <5>1. content'[i] = content[i] \/ Form!Contested(i)
          BY <2>5, <2>6, <4>2, <4>3
        <5>2. FixedSource(i, claim)' \/ LetterSource(i, claim)' \/ QuestionSource(i, claim)'
          BY <1>1, <4>1, <5>1, SourcesStay
        <5> QED BY <4>1, <5>2
      <4>4. CASE i = h
        <5>1. ~QuestionSource(i, claim)
          BY <1>6, <3>2, <4>4 DEF QuestionSource
        <5>2. ~FixedSource(i, claim)
          <6> SUFFICES ASSUME FixedSource(i, claim) PROVE FALSE
            OBVIOUS
          <6>1. e.kind # "radio" /\ e.attr.id \in DOMAIN Form!FieldMap
            BY <1>6, <4>4 DEF FixedSource, SourceId
          <6>2. e.attr.id # ""
            BY <6>1 DEF Form!FieldMap
          <6>3. Form!Selector(e) = Form!StandardId(e.attr.id)
            BY <6>1, <6>2, SelectedById
          <6> QED BY <1>12, <6>1, <6>3 DEF Form!Reserved
        <5>3. LetterSource(i, claim)'
          <6>1. IsLetter(i) /\ claim[1] = "cover_letter"
            BY <4>1, <5>1, <5>2 DEF LetterSource
          <6>2. Form!Rewritten(i)
            BY <1>2, <1>6, <1>12, <4>4, <6>1 DEF Form!Rewritten, IsLetter, SourceId
          <6> QED BY <1>1, <6>1, <6>2, PageStays DEF LetterSource
        <5> QED BY <4>1, <5>3
      <4> QED BY <4>3, <4>4
    <3> QED BY <2>4, <3>1, <3>2 DEF Form!Claim
  <2>8. \A i \in Form!OnPage : content'[i] = content[i] \/ content'[i] # ""
    BY <1>2, <1>12, <2>5 DEF Form!OnPage
  <2>9. content'[h] # "" \/ Form!Overlooked(h)
    BY <1>2, <1>12, <2>5, <2>6 DEF Form!Overlooked
  <2> QED BY <1>8, <2>4, <2>5, <2>7, <2>8, <2>9
<1>13. \/ (Form!Reserved(e) \/ e.kind = "file") /\ UNCHANGED <<content, entries, missed, review>>
       \/ Form!Ask(Form!Label(e)) \/ Form!Miss(Form!Label(e))
       \/ \E value : value # "" /\ Form!FillDynamic(e, value) /\ ~Form!Reserved(e) /\ e.frame = "page"
                     /\ Form!Hits(Form!Selector(e)) # {}
  BY <1>7 DEF Form!Question
<1> QED BY <1>10, <1>11, <1>12, <1>13

LEMMA DetectForm ==
  ASSUME FormsInv, Form!DetectFields
  PROVE  FormsInv'
<1>1. /\ phase = "detect" /\ phase' = "fill" /\ answering' = Form!Detected
      /\ UNCHANGED <<site, profile, shown, read, content, entries, missed, review, sent>>
  BY DEF Form!DetectFields
<1>2. FormTyped /\ SentBlank /\ DOMAIN content = DOMAIN site.form /\ OtherRun /\ NothingYet
  BY <1>1 DEF FormsInv, OtherRun
<1>3. answering' \in Seq(Form!OnPage')
  BY <1>1, <1>2, FillerDetects, PageStays
<1>4. FieldsDealt'
  <2> SUFFICES ASSUME NEW i \in Form!OnPage', ~Form!Overlooked(i)' PROVE Waiting(i)'
    BY DEF FieldsDealt
  <2>1. i \in Form!OnPage /\ ~Form!Overlooked(i)
    BY <1>1, PageStays
  <2>2. Form!Element(i).frame \in Form!Places
    BY <1>2, <2>1 DEF FormTyped, Form!OnPage, Form!Element
  <2>3. Form!Element(i).frame = "page" /\ Form!Element(i).visible /\ Form!Element(i).kind # "combo"
    BY <1>2, <2>1, <2>2 DEF OtherRun, Form!Overlooked, Form!Places
  <2>4. \E n \in 1..Len(Form!Detected) : Form!Detected[n] = i
    BY <1>2, <2>1, <2>3, FillerDetects
  <2> QED BY <1>1, <2>4 DEF Waiting
<1>5. SentBlank'
  <2>1. CASE ~sent
    BY <1>1, <2>1 DEF SentBlank
  <2>2. CASE sent
    <3>1. Form!OnPage = {} /\ Form!Detected \in Seq(Form!OnPage)
      BY <1>2, <2>2, FillerDetects DEF SentBlank, Form!OnPage
    <3>2. Form!Detected = <<>>
      BY <3>1
    <3> QED BY <1>1, <1>2, <3>2 DEF SentBlank
  <2> QED BY <2>1, <2>2
<1>6. OtherRun'
  BY <1>1, <1>2, <1>3, <1>4 DEF OtherRun, NothingYet
<1> QED BY <1>1, <1>2, <1>5, <1>6 DEF FormsInv, FormTyped

LEMMA FillOther ==
  ASSUME FormsInv, Form!FillGeneric
  PROVE  FormsInv'
<1>1. PICK h : h = Head(answering)
  OBVIOUS
<1>2. PICK e : e = Form!Element(h)
  OBVIOUS
<1>3. /\ phase = "fill" /\ answering # <<>> /\ answering' = Tail(answering)
      /\ UNCHANGED <<site, profile, phase, shown, read, sent>>
  BY DEF Form!FillGeneric
<1>4. /\ FormTyped /\ DOMAIN content = DOMAIN site.form /\ OtherRun /\ ~site.greenhouse
      /\ answering \in Seq(Form!OnPage) /\ FieldsDealt
      /\ \A claim \in entries : \E i \in Form!OnPage : BoxSource(i, claim)
  BY <1>3 DEF FormsInv, OtherRun
<1>5. ~sent
  BY <1>3, <1>4 DEF FormsInv, SentBlank
<1>6. /\ h \in Form!OnPage /\ answering' \in Seq(Form!OnPage) /\ h \in DOMAIN content
      /\ \A x : x # h /\ Waiting(x) => \E n \in 1..Len(answering') : answering'[n] = x
  <2>1. /\ h \in Form!OnPage /\ answering' \in Seq(Form!OnPage)
        /\ \A x : x # h /\ Waiting(x) => \E n \in 1..Len(answering') : answering'[n] = x
    BY <1>1, <1>3, <1>4, TailKeepsTheRest DEF Waiting
  <2>2. h \in DOMAIN content
    BY <1>4, <2>1 DEF Form!OnPage
  <2> QED BY <2>1, <2>2
<1>7. ASSUME DOMAIN content' = DOMAIN content, missed \subseteq missed',
             \A i \in DOMAIN content : i # h => content'[i] = content[i],
             content'[h] # "" \/ Form!Overlooked(h) \/ Form!GenericLabel(e) \in missed',
             \A claim \in entries' : \E i \in Form!OnPage : BoxSource(i, claim)'
      PROVE  FormsInv'
  <2>1. FormTyped' /\ SentBlank' /\ DOMAIN content' = DOMAIN site'.form
    BY <1>3, <1>4, <1>5, <1>7 DEF FormTyped, SentBlank
  <2>2. FieldsDealt'
    <3> SUFFICES ASSUME NEW i \in Form!OnPage'
                 PROVE  \/ content'[i] # "" \/ Form!Overlooked(i)'
                        \/ Form!GenericLabel(Form!Element(i))' \in missed' \/ Waiting(i)'
      BY DEF FieldsDealt
    <3>1. /\ i \in Form!OnPage /\ Form!Element(i)' = Form!Element(i)
          /\ Form!Overlooked(i)' <=> Form!Overlooked(i)
      BY <1>3, PageStays
    <3>2. CASE i = h
      BY <1>2, <1>7, <3>1, <3>2
    <3>3. CASE i # h
      <4>1. \/ content[i] # "" \/ Form!Overlooked(i)
            \/ Form!GenericLabel(Form!Element(i)) \in missed \/ Waiting(i)
        BY <1>4, <3>1 DEF FieldsDealt
      <4>2. Waiting(i) => Waiting(i)'
        BY <1>6, <3>3 DEF Waiting
      <4>3. content'[i] = content[i]
        BY <1>4, <1>7, <3>1, <3>3 DEF Form!OnPage
      <4> QED BY <1>7, <3>1, <4>1, <4>2, <4>3
    <3> QED BY <3>2, <3>3
  <2>3. OtherRun'
    BY <1>3, <1>4, <1>6, <1>7, <2>2, PageStays DEF OtherRun
  <2> QED BY <1>3, <2>1, <2>3 DEF FormsInv
<1>8. ASSUME Form!Miss(Form!GenericLabel(e))
      PROVE  FormsInv'
  <2>1. entries' = entries /\ content' = content /\ missed' = missed \cup {Form!GenericLabel(e)}
    BY <1>8 DEF Form!Miss
  <2>2. ASSUME NEW claim \in entries' PROVE \E i \in Form!OnPage : BoxSource(i, claim)'
    <3>1. PICK i \in Form!OnPage : BoxSource(i, claim)
      BY <1>4, <2>1
    <3>2. BoxSource(i, claim)'
      BY <1>3, <2>1, <3>1, PageStays DEF BoxSource
    <3> QED BY <3>2
  <2> QED BY <1>7, <2>1, <2>2
<1>9. ASSUME NEW value, value # "", Form!FillField(h, value), missed' = missed
      PROVE  FormsInv'
  <2>1. /\ Form!Claim(Form!GenericLabel(e), value)
        /\ \/ e.kind \in {"checkbox", "radio"} /\ content' = content
           \/ Form!Fill(h, value)
    BY <1>2, <1>9 DEF Form!FillField
  <2>2. /\ DOMAIN content' = DOMAIN content
        /\ \A i \in DOMAIN content : i # h => content'[i] = content[i]
        /\ e.kind \in {"checkbox", "radio"} \/ content'[h] = value
    BY <1>6, <2>1 DEF Form!Fill
  <2>3. content'[h] # "" \/ Form!Overlooked(h)
    BY <1>2, <1>4, <1>9, <2>2 DEF Form!Overlooked
  <2>4. ASSUME NEW claim \in entries' PROVE \E i \in Form!OnPage : BoxSource(i, claim)'
    <3>1. CASE claim = <<Form!GenericLabel(e), value>>
      <4>1. claim[1] = Form!GenericLabel(e) /\ claim[2] = value
        BY <3>1
      <4>2. BoxSource(h, claim)'
        BY <1>2, <1>3, <2>2, <4>1, PageStays DEF BoxSource
      <4> QED BY <1>6, <4>2
    <3>2. CASE claim \in entries /\ claim[1] # Form!GenericLabel(e)
      <4>1. PICK i \in Form!OnPage : BoxSource(i, claim)
        BY <1>4, <3>2
      <4>2. i # h /\ i \in DOMAIN content
        BY <1>2, <1>4, <3>2, <4>1 DEF BoxSource, Form!OnPage
      <4>3. BoxSource(i, claim)'
        BY <1>3, <2>2, <4>1, <4>2, PageStays DEF BoxSource
      <4> QED BY <4>3
    <3> QED BY <2>1, <3>1, <3>2 DEF Form!Claim
  <2> QED BY <1>7, <1>9, <2>2, <2>3, <2>4
<1>10. \/ Form!Miss(Form!GenericLabel(e))
       \/ \E value : value # "" /\ Form!FillField(h, value) /\ missed' = missed
  BY <1>1, <1>2 DEF Form!FillGeneric
<1> QED BY <1>8, <1>9, <1>10

LEMMA RecordForm ==
  ASSUME FormsInv, Form!Record
  PROVE  FormsInv'
<1>1. /\ phase \in {"ask", "fill"} /\ answering = <<>> /\ phase' = "filled"
      /\ review' = Form!ReviewItemsForRun
      /\ UNCHANGED <<site, profile, shown, read, answering, content, entries, missed, sent>>
  BY DEF Form!Record
<1>2. FormTyped /\ SentBlank /\ DOMAIN content = DOMAIN site.form
  BY DEF FormsInv
<1>3. FormTyped' /\ SentBlank' /\ DOMAIN content' = DOMAIN site'.form
  BY <1>1, <1>2 DEF FormTyped, SentBlank
<1>4. /\ review \subseteq review'
      /\ \A label \in missed : <<"Provide value", label>> \in review' /\ <<"Provide value", label>>[2] = label
  BY <1>1 DEF Form!ReviewItemsForRun
<1>5. \A i : ~Waiting(i)
  BY <1>1 DEF Waiting
<1>6. ASSUME NEW i
      PROVE  /\ Form!Label(Form!Element(i)) \in Form!Names(i) /\ Form!GenericLabel(Form!Element(i)) \in Form!Names(i)
             /\ SourceId(i) \in DOMAIN Form!FieldMap => Form!FieldMap[SourceId(i)] \in Form!Names(i)
             /\ IsLetter(i) => "cover_letter" \in Form!Names(i)
  BY DEF Form!Names, SourceId, IsLetter
<1>7. ASSUME NEW i \in Form!OnPage, content[i] = "", ~Form!Overlooked(i)
      PROVE  \E item \in review' : item[2] \in Form!Names(i)
  <2>1. CASE phase = "fill"
    <3>1. Form!GenericLabel(Form!Element(i)) \in missed
      BY <1>5, <1>7, <2>1 DEF FormsInv, OtherRun, FieldsDealt
    <3> QED BY <1>4, <1>6, <3>1
  <2>2. CASE phase = "ask"
    <3>1. BoardRun /\ site.greenhouse /\ FixedDealt /\ QuestionsDealt
      BY <2>2 DEF FormsInv, BoardRun
    <3>2. CASE ~Form!Reserved(Form!Element(i))
      <4>1. \/ Form!Label(Form!Element(i)) \in missed
            \/ <<"Review custom question", Form!Label(Form!Element(i))>> \in review
        BY <1>5, <1>7, <3>1, <3>2 DEF QuestionsDealt
      <4>2. CASE Form!Label(Form!Element(i)) \in missed
        BY <1>4, <1>6, <4>2
      <4>3. CASE <<"Review custom question", Form!Label(Form!Element(i))>> \in review
        <5>1. <<"Review custom question", Form!Label(Form!Element(i))>>[2] \in Form!Names(i)
          BY <1>6
        <5> QED BY <1>4, <4>3, <5>1
      <4> QED BY <4>1, <4>2, <4>3
    <3>3. CASE Form!Reserved(Form!Element(i))
      <4>1. /\ SourceId(i) \in DOMAIN Form!FieldMap /\ ~Form!Contested(i)
            /\ Form!Element(i).frame = "page"
        BY <1>7, <3>1, <3>3 DEF Form!Overlooked, Form!Reserved, SourceId
      <4>2. PICK x : Form!Selector(Form!Element(i)) = Form!StandardId(x)
        BY <3>3 DEF Form!Reserved
      <4>3. Form!Selector(Form!Element(i)) = Form!StandardId(SourceId(i))
        BY <4>2, SelectedById DEF SourceId
      <4>4. Form!Target(Form!StandardId(SourceId(i))) = i
        BY <3>1, <4>1, <4>3 DEF Form!Contested
      <4>5. Form!FieldMap[SourceId(i)] \in missed
        BY <1>7, <3>1, <4>1, <4>4 DEF FixedDealt
      <4> QED BY <1>4, <1>6, <4>1, <4>5
    <3> QED BY <3>2, <3>3
  <2> QED BY <1>1, <2>1, <2>2
<1>8. ASSUME NEW claim \in entries
      PROVE  \E i \in Form!OnPage :
               /\ claim[1] \in Form!Names(i)
               /\ \/ content[i] = claim[2] \/ Form!Contested(i) \/ Form!Rewritten(i)
                  \/ ~site.greenhouse /\ Form!Element(i).kind \in {"checkbox", "radio"}
  <2>1. CASE phase = "fill"
    <3>1. PICK i \in Form!OnPage : BoxSource(i, claim) /\ ~site.greenhouse
      BY <2>1 DEF FormsInv, OtherRun
    <3> QED BY <1>6, <3>1 DEF BoxSource
  <2>2. CASE phase = "ask"
    <3>1. PICK i \in Form!OnPage : FixedSource(i, claim) \/ LetterSource(i, claim) \/ QuestionSource(i, claim)
      BY <2>2 DEF FormsInv, BoardRun
    <3> QED BY <1>6, <3>1 DEF FixedSource, LetterSource, QuestionSource, Stands
  <2> QED BY <1>1, <2>1, <2>2
<1>9. Form!RecordTellsThePage'
  <2>1. /\ Form!OnPage' = Form!OnPage
        /\ \A i : /\ Form!Element(i)' = Form!Element(i) /\ Form!Names(i)' = Form!Names(i)
                  /\ Form!Contested(i)' <=> Form!Contested(i)
                  /\ Form!Rewritten(i)' <=> Form!Rewritten(i)
                  /\ Form!Overlooked(i)' <=> Form!Overlooked(i)
    BY <1>1, PageStays
  <2>2. \A i \in Form!OnPage' :
          content'[i] # "" \/ Form!Overlooked(i)' \/ \E item \in review' : item[2] \in Form!Names(i)'
    BY <1>1, <1>7, <2>1
  <2>3. \A claim \in entries' : \E i \in Form!OnPage' :
          /\ claim[1] \in Form!Names(i)'
          /\ \/ content'[i] = claim[2] \/ Form!Contested(i)' \/ Form!Rewritten(i)'
             \/ ~site'.greenhouse /\ Form!Element(i)'.kind \in {"checkbox", "radio"}
    BY <1>1, <1>8, <2>1
  <2>4. sent' => entries' = {} /\ missed' = {}
    BY <1>3 DEF SentBlank
  <2> QED BY <2>2, <2>3, <2>4 DEF Form!RecordTellsThePage
<1> QED BY <1>1, <1>3, <1>9 DEF FormsInv

LEMMA FormStart == Form!FormsInit => FormsInv
<1> SUFFICES ASSUME Form!FormsInit PROVE FormsInv
  OBVIOUS
<1> QED BY BlankForm DEF Form!FormsInit

\* LEMMA: every step of a browser run keeps what is known of its record.
LEMMA FormStep == FormsInv /\ [Form!FormsNext]_formVars => FormsInv'
<1> SUFFICES ASSUME FormsInv, [Form!FormsNext]_formVars PROVE FormsInv'
  OBVIOUS
<1>1. CASE UNCHANGED formVars
  <2>1. /\ UNCHANGED <<site, shown>> /\ UNCHANGED <<phase, read, answering, content, entries, missed, review, sent>>
    BY <1>1 DEF formVars
  <2>2. \A i, claim : /\ FixedSource(i, claim)' <=> FixedSource(i, claim)
                      /\ LetterSource(i, claim)' <=> LetterSource(i, claim)
                      /\ QuestionSource(i, claim)' <=> QuestionSource(i, claim)
                      /\ BoxSource(i, claim)' <=> BoxSource(i, claim)
    BY <2>1, PageStays DEF FixedSource, LetterSource, QuestionSource, BoxSource, Stands
  <2>3. /\ FormTyped' <=> FormTyped
        /\ SentBlank' <=> SentBlank
        /\ NothingYet' <=> NothingYet
    BY <2>1 DEF FormTyped, SentBlank, NothingYet
  <2>4. /\ FixedDealt' <=> FixedDealt
        /\ QuestionsDealt' <=> QuestionsDealt
        /\ FieldsDealt' <=> FieldsDealt
    <3>1. FixedDealt' <=> FixedDealt
      BY <2>1, PageStays DEF FixedDealt
    <3>2. \A i : /\ Waiting(i)' <=> Waiting(i)
                 /\ Form!Reserved(Form!Element(i))' <=> Form!Reserved(Form!Element(i))
      BY <2>1, PageStays DEF Waiting
    <3>3. QuestionsDealt' <=> QuestionsDealt
      BY <2>1, <3>2, PageStays DEF QuestionsDealt
    <3>4. FieldsDealt' <=> FieldsDealt
      BY <2>1, <3>2, PageStays DEF FieldsDealt
    <3> QED BY <3>1, <3>3, <3>4
  <2>5. BoardRun' <=> BoardRun
    <3>1. {i \in Form!OnPage : Form!Element(i).frame \in read}' = {i \in Form!OnPage : Form!Element(i).frame \in read}
      BY <2>1, PageStays
    <3> QED BY <2>1, <2>2, <2>3, <2>4, <3>1, PageStays DEF BoardRun
  <2>6. OtherRun' <=> OtherRun
    BY <2>1, <2>2, <2>3, <2>4, PageStays DEF OtherRun
  <2>7. Form!RecordTellsThePage' <=> Form!RecordTellsThePage
    BY <2>1, PageStays DEF Form!RecordTellsThePage
  <2> QED BY <2>1, <2>3, <2>5, <2>6, <2>7 DEF FormsInv
<1>2. CASE Form!FormsNext
  BY <1>2, VisitForm, OpenForm, FailForm, CloseForm, FillFixed, FillLetter, ExtractFields, AskField,
     DetectForm, FillOther, RecordForm DEF Form!FormsNext
<1> QED BY <1>1, <1>2

\* The record of a run tells the page, for any postings, profiles, patterns and mappings: a
\* field left empty is on the review list and a claimed value is in a field of that name, but
\* for the reasons that Overlooked, Contested and Rewritten name (RecordTellsThePage).
THEOREM FormsAreTold == Form!FormsInit /\ [][Form!FormsNext]_formVars => []Form!RecordTellsThePage
<1>1. FormsInv => Form!RecordTellsThePage
  <2> SUFFICES ASSUME FormsInv PROVE Form!RecordTellsThePage
    OBVIOUS
  <2>1. CASE phase = "filled"
    BY <2>1 DEF FormsInv
  <2>2. CASE phase # "filled"
    BY <2>2 DEF Form!RecordTellsThePage
  <2> QED BY <2>1, <2>2
<1> QED BY FormStart, FormStep, <1>1, PTL

-----------------------------------------------------------------------------
(* The parts together *)

\* LEMMA: the runs, the form and the wizard each go as specified, or not at all.
LEMMA BrowserPartsRun ==
  MCSpec => /\ Spec
            /\ Form!FormsInit /\ [][Form!FormsNext]_formVars
            /\ Workday!WizardInit /\ [][Workday!WizardNext]_wizardVars
<1>1. MCInit => Init /\ Form!FormsInit /\ Workday!WizardInit
  BY DEF MCInit
<1>2. ASSUME [MCNext]_<<part, vars, formVars, wizardVars>>
      PROVE  [Next]_vars /\ [Form!FormsNext]_formVars /\ [Workday!WizardNext]_wizardVars
  <2>1. CASE UNCHANGED <<part, vars, formVars, wizardVars>>
    BY <2>1
  <2>2. CASE InRuns(Next)
    BY <2>2 DEF InRuns
  <2>3. CASE InForm(Form!FormsNext)
    BY <2>3 DEF InForm
  <2>4. CASE InWizard(Workday!WizardNext)
    BY <2>4 DEF InWizard
  <2> QED BY <1>2, <2>1, <2>2, <2>3, <2>4 DEF MCNext
<1> QED BY <1>1, <1>2, PTL DEF MCSpec, Spec

\* The record of every browser run, of a form as of a wizard, tells what became of its fields
\* (BrowserRunsAreTold).
THEOREM BrowserRunsAreAlwaysTold == MCSpec => []BrowserRunsAreTold
BY BrowserPartsRun, FormsAreTold, WizardsAreTold, PTL DEF BrowserRunsAreTold
===================================================================================

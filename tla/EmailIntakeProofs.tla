-------------------------- MODULE EmailIntakeProofs --------------------------
(***************************************************************************)
(* Proofs about Pipeline and EmailIntake, for any applications, sessions,   *)
(* messages and failures.                                                   *)
(*                                                                         *)
(* A step of the pipeline is looked at twice.  AppMoves says what it does   *)
(* to one application: nothing, birth, or the commit of a draft.            *)
(* ActorMoves says what it does to one actor: nothing, the end of its       *)
(* transaction, or a fresh read.  The invariant that carries the theorems   *)
(* about it, DraftsAreTrue, says what an uncommitted row still knows about  *)
(* the application.                                                         *)
(*                                                                         *)
(* IntakeIsPipeline shows that whatever the readers do is a behaviour of    *)
(* Pipeline, so that its theorems hold of EmailIntake.  The others rest on  *)
(* ReaderMoves, the eight things a step can do to a reader, and on          *)
(* IntakeInv: what a reader knows at each of its steps, and what a history  *)
(* row owes to the log; HealthyWhenAlone on SyncInv.                        *)
(***************************************************************************)
EXTENDS EmailIntake, SequenceTheorems, TLAPS

-----------------------------------------------------------------------------
(* The pipeline. *)

\* LEMMA: the variables keep their types.
LEMMA PipelineTypeStep == PipelineTypeOK /\ [PipelineNext]_pipelineVars => PipelineTypeOK'
<1> SUFFICES ASSUME PipelineTypeOK, [PipelineNext]_pipelineVars PROVE PipelineTypeOK'
  OBVIOUS
<1> USE DEF PipelineTypeOK, appVars, txVars
<1>1. CreationRow \in Rows
  BY DEF CreationRow, Rows, Statuses
<1>2. ASSUME NEW a \in Apps, Touch(a) PROVE newer' \subseteq Apps \X Apps
  BY <1>2 DEF Touch
<1>3. ASSUME NEW k \in Actors, Release(k)
      PROVE  held' \in [Actors -> Apps \cup {NoApp}] /\ draft' \in [Actors -> Rows]
  BY <1>1, <1>3 DEF Release
<1>4. ASSUME NEW a \in Apps, CreateApplication(a) PROVE PipelineTypeOK'
  <2>1. history' \in [Apps -> Seq(Rows)]
    <3>1. Append(history[a], CreationRow) \in Seq(Rows)
      BY <1>1, AppendProperties
    <3> QED
      BY <1>4, <3>1 DEF CreateApplication
  <2>2. newer' \subseteq Apps \X Apps
    BY <1>2, <1>4 DEF CreateApplication
  <2> QED
    BY <1>4, <2>1, <2>2 DEF CreateApplication, Statuses
<1>5. ASSUME NEW a \in Apps, RecordApplication(a) PROVE PipelineTypeOK'
  <2>1. newer' \subseteq Apps \X Apps
    BY <1>2, <1>5 DEF RecordApplication
  <2> QED
    BY <1>5, <2>1 DEF RecordApplication, Statuses, Stamps
<1>6. ASSUME NEW a \in Apps, UpdateApplication(a) PROVE PipelineTypeOK'
  BY <1>2, <1>6 DEF UpdateApplication
<1>7. ASSUME NEW k \in Actors, NEW a \in Apps, NEW new \in Statuses,
             NEW note \in Messages \cup {NoMessage}, ReadStatus(k, a, new, note)
      PROVE  PipelineTypeOK'
  <2>1. Len(history[a]) \in Nat
    BY LenProperties
  <2>2. [old |-> status[a], new |-> new, by |-> k, seen |-> Len(history[a]),
         note |-> note] \in Rows
    BY <2>1 DEF Rows
  <2> QED
    BY <1>7, <2>2 DEF ReadStatus
<1>8. ASSUME NEW k \in Actors, CommitStatus(k) PROVE PipelineTypeOK'
  <2>1. held[k] \in Apps /\ draft[k] \in Rows
    BY <1>8 DEF CommitStatus
  <2>2. Append(history[held[k]], draft[k]) \in Seq(Rows)
    BY <2>1, AppendProperties
  <2>3. draft[k].new \in Statuses
    BY <2>1 DEF Rows
  <2>4. stamps[held[k]] \cup StampOf(draft[k].new) \subseteq Stamps
    BY <2>1 DEF StampOf
  <2>5. newer' \subseteq Apps \X Apps
    BY <1>2, <1>8, <2>1 DEF CommitStatus
  <2>6. held' \in [Actors -> Apps \cup {NoApp}] /\ draft' \in [Actors -> Rows]
    BY <1>3, <1>8 DEF CommitStatus
  <2> QED
    BY <1>8, <2>1, <2>2, <2>3, <2>4, <2>5, <2>6 DEF CommitStatus
<1>9. ASSUME NEW k \in Actors, Abandon(k) PROVE PipelineTypeOK'
  BY <1>3, <1>9 DEF Abandon
<1>10. CASE UNCHANGED pipelineVars
  BY <1>10 DEF pipelineVars
<1> QED
  BY <1>4, <1>5, <1>6, <1>7, <1>8, <1>9, <1>10 DEF PipelineNext, Appear, Transact

\* LEMMA: the types hold at the start.
LEMMA PipelineTypeInit == PipelineInit => PipelineTypeOK
<1> SUFFICES ASSUME PipelineInit PROVE PipelineTypeOK
  OBVIOUS
<1>1. CreationRow \in Rows
  BY DEF CreationRow, Rows, Statuses
<1>2. <<>> \in Seq(Rows)
  BY EmptySeq
<1> QED
  BY <1>1, <1>2 DEF PipelineInit, PipelineTypeOK

(***************************************************************************)
(* The variables of the pipeline keep their types in every behaviour.       *)
(***************************************************************************)
THEOREM PipelineTypeCorrect == PipelineSpec => []PipelineTypeOK
BY PipelineTypeInit, PipelineTypeStep, PTL DEF PipelineSpec

-----------------------------------------------------------------------------
(***************************************************************************)
(* What a step does to one application.                                     *)
(***************************************************************************)
SameApp(a) ==
  /\ status'[a] = status[a]
  /\ source'[a] = source[a]
  /\ stamps'[a] = stamps[a]
  /\ history'[a] = history[a]
Created(a) ==
  /\ status[a] = Absent
  /\ status'[a] = "saved"
  /\ source'[a] = "manual"
  /\ stamps'[a] = stamps[a]
  /\ history'[a] = Append(history[a], CreationRow)
Recorded(a) ==
  /\ status[a] = Absent
  /\ status'[a] = "applied"
  /\ source'[a] = "auto_apply"
  /\ stamps'[a] = {"applied"}
  /\ history'[a] = history[a]
Committed(k, a) ==
  /\ held[k] = a
  /\ held'[k] = NoApp
  /\ status'[a] = draft[k].new
  /\ source'[a] = source[a]
  /\ stamps'[a] = stamps[a] \cup StampOf(draft[k].new)
  /\ history'[a] = Append(history[a], draft[k])

\* LEMMA: nothing else happens to an application.
LEMMA AppMoves ==
  ASSUME PipelineTypeOK, [PipelineNext]_pipelineVars, NEW a \in Apps
  PROVE  SameApp(a) \/ Created(a) \/ Recorded(a) \/ \E k \in Actors : Committed(k, a)
<1> USE DEF PipelineTypeOK, appVars, txVars
<1>1. ASSUME NEW b \in Apps, CreateApplication(b) PROVE SameApp(a) \/ Created(a)
  BY <1>1 DEF CreateApplication, SameApp, Created
<1>2. ASSUME NEW b \in Apps, RecordApplication(b) PROVE SameApp(a) \/ Recorded(a)
  BY <1>2 DEF RecordApplication, SameApp, Recorded
<1>3. ASSUME NEW b \in Apps, UpdateApplication(b) PROVE SameApp(a)
  BY <1>3 DEF UpdateApplication, SameApp
<1>4. ASSUME NEW k \in Actors, CommitStatus(k) PROVE SameApp(a) \/ Committed(k, a)
  <2>1. CASE held[k] = a
    BY <1>4, <2>1 DEF CommitStatus, Committed, Release
  <2>2. CASE held[k] # a
    BY <1>4, <2>2 DEF CommitStatus, SameApp
  <2> QED
    BY <2>1, <2>2
<1>5. ASSUME UNCHANGED appVars PROVE SameApp(a)
  BY <1>5 DEF SameApp
<1>6. ASSUME NEW k \in Actors, Transact(k)
      PROVE  SameApp(a) \/ \E l \in Actors : Committed(l, a)
  BY <1>4, <1>5, <1>6 DEF Transact, ReadStatus, Abandon
<1>7. CASE UNCHANGED pipelineVars
  BY <1>5, <1>7 DEF pipelineVars
<1> QED
  BY <1>1, <1>2, <1>3, <1>6, <1>7 DEF PipelineNext, Appear

(***************************************************************************)
(* What a step does to one actor.                                           *)
(***************************************************************************)
SameActor(k) == held'[k] = held[k] /\ draft'[k] = draft[k]
Reads(k) ==
  /\ held'[k] \in Apps
  /\ status[held'[k]] # Absent
  /\ draft'[k].new \in VALID_TRANSITIONS[status[held'[k]]]
  /\ draft'[k].old = status[held'[k]]
  /\ draft'[k].by = k
  /\ draft'[k].seen = Len(history[held'[k]])
  /\ \A a \in Apps : SameApp(a)

\* LEMMA: nothing else happens to an actor.
LEMMA ActorMoves ==
  ASSUME PipelineTypeOK, [PipelineNext]_pipelineVars, NEW k \in Actors
  PROVE  SameActor(k) \/ held'[k] = NoApp \/ Reads(k)
<1> USE DEF PipelineTypeOK, txVars
<1>1. ASSUME NEW b \in Apps, Appear(b) \/ UpdateApplication(b) PROVE SameActor(k)
  BY <1>1 DEF Appear, CreateApplication, RecordApplication, UpdateApplication, SameActor
<1>2. ASSUME NEW l \in Actors, NEW a \in Apps, NEW new \in Statuses,
             NEW note \in Messages \cup {NoMessage}, ReadStatus(l, a, new, note)
      PROVE  SameActor(k) \/ Reads(k)
  <2>1. CASE l = k
    <3>1. held'[k] = a
          /\ draft'[k] = [old |-> status[a], new |-> new, by |-> k,
                          seen |-> Len(history[a]), note |-> note]
      BY <1>2, <2>1 DEF ReadStatus
    <3>2. \A b \in Apps : SameApp(b)
      BY <1>2 DEF ReadStatus, SameApp, appVars
    <3> QED
      BY <1>2, <3>1, <3>2 DEF ReadStatus, Reads
  <2>2. CASE l # k
    BY <1>2, <2>2 DEF ReadStatus, SameActor
  <2> QED
    BY <2>1, <2>2
<1>3. ASSUME NEW l \in Actors, Release(l) PROVE SameActor(k) \/ held'[k] = NoApp
  BY <1>3 DEF Release, SameActor
<1>4. CASE UNCHANGED pipelineVars
  BY <1>4 DEF pipelineVars, SameActor
<1> QED
  BY <1>1, <1>2, <1>3, <1>4 DEF PipelineNext, Transact, CommitStatus, Abandon

-----------------------------------------------------------------------------
(***************************************************************************)
(* What a row in the making knows: it was true when it was read, it is      *)
(* legal, what has been committed since is not its author's, and the dates  *)
(* of the status it read are still there.                                   *)
(***************************************************************************)
DraftTrue(k, a) ==
  LET row == draft[k] IN
  /\ status[a] # Absent
  /\ row.by = k
  /\ row.seen <= Len(history[a])
  /\ row.old = StatusAfter(a, row.seen)
  /\ row.old # Absent
  /\ row.new \in VALID_TRANSITIONS[row.old]
  /\ \A j \in (row.seen + 1)..Len(history[a]) : history[a][j].by # k
  /\ StampsNeeded(row.old) \subseteq stamps[a]
DraftsAreTrue == \A k \in Actors : held[k] # NoApp => DraftTrue(k, held[k])

PipelineInv ==
  /\ PipelineTypeOK
  /\ HistoryEndsAtStatus
  /\ DraftsAreTrue
  /\ StampsFollowStatus
  /\ HistoryTellsWhatWasRead

\* LEMMA: rows and their lengths, as the arithmetic below needs them.
LEMMA RowFacts ==
  ASSUME PipelineTypeOK, NEW a \in Apps
  PROVE  /\ Len(history[a]) \in Nat
         /\ \A i \in 1..Len(history[a]) : history[a][i] \in Rows
BY LenProperties, ElementOfSeq DEF PipelineTypeOK

\* LEMMA: what appending a row does to a history.
LEMMA AppendFacts ==
  ASSUME NEW S, NEW h \in Seq(S), NEW r \in S
  PROVE  /\ Len(Append(h, r)) = Len(h) + 1
         /\ \A i \in 1..Len(h) : Append(h, r)[i] = h[i]
         /\ Append(h, r)[Len(h) + 1] = r
BY AppendProperties

\* LEMMA: an application that does not exist has no history.
LEMMA Unborn ==
  ASSUME PipelineTypeOK, HistoryEndsAtStatus, NEW a \in Apps, status[a] = Absent
  PROVE  Len(history[a]) = 0 /\ source[a] # "auto_apply"
<1>1. ASSUME Len(history[a]) > 0 PROVE FALSE
  <2>1. status[a] = history[a][Len(history[a])].new
    BY <1>1 DEF HistoryEndsAtStatus, StatusAfter
  <2>2. history[a][Len(history[a])] \in Rows
    BY <1>1, RowFacts
  <2> QED
    BY <2>1, <2>2 DEF Rows, Statuses, Absent
<1>2. Len(history[a]) = 0
  BY <1>1, RowFacts
<1>3. status[a] = IF source[a] = "auto_apply" THEN "applied" ELSE Absent
  BY <1>2 DEF HistoryEndsAtStatus, StatusAfter
<1> QED
  BY <1>2, <1>3 DEF Absent

\* LEMMA: a committed history is only ever extended.
LEMMA HistoryGrows ==
  ASSUME PipelineTypeOK, HistoryEndsAtStatus, PipelineTypeOK', [PipelineNext]_pipelineVars,
         NEW a \in Apps
  PROVE  /\ Len(history[a]) <= Len(history'[a])
         /\ \A i \in 1..Len(history[a]) : history'[a][i] = history[a][i]
         /\ status[a] # Absent => /\ stamps[a] \subseteq stamps'[a]
                                  /\ source'[a] = source[a]
                                  /\ status'[a] # Absent
<1>1. Len(history[a]) \in Nat /\ history[a] \in Seq(Rows) /\ CreationRow \in Rows
  BY RowFacts DEF PipelineTypeOK, CreationRow, Rows, Statuses
<1>2. CASE SameApp(a)
  BY <1>1, <1>2 DEF SameApp
<1>3. CASE Created(a)
  BY <1>1, <1>3, AppendFacts DEF Created
<1>4. CASE Recorded(a)
  BY <1>1, <1>4 DEF Recorded
<1>5. ASSUME NEW k \in Actors, Committed(k, a)
      PROVE  /\ Len(history[a]) <= Len(history'[a])
             /\ \A i \in 1..Len(history[a]) : history'[a][i] = history[a][i]
             /\ stamps[a] \subseteq stamps'[a]
             /\ source'[a] = source[a]
             /\ status'[a] # Absent
  <2>1. draft[k] \in Rows
    BY DEF PipelineTypeOK
  <2>2. draft[k].new # Absent
    BY <2>1 DEF Rows, Statuses, Absent
  <2> QED
    BY <1>1, <1>5, <2>1, <2>2, AppendFacts DEF Committed
<1> QED
  BY <1>2, <1>3, <1>4, <1>5, AppMoves

\* LEMMA: what an existing application was after n rows stays true.
LEMMA PastIsFixed ==
  ASSUME PipelineTypeOK, HistoryEndsAtStatus, PipelineTypeOK', [PipelineNext]_pipelineVars,
         NEW a \in Apps, status[a] # Absent, NEW n \in 0..Len(history[a])
  PROVE  StatusAfter(a, n)' = StatusAfter(a, n)
<1>1. Len(history[a]) \in Nat
  BY RowFacts
<1>2. source'[a] = source[a]
  BY HistoryGrows
<1>3. n > 0 => history'[a][n] = history[a][n]
  BY <1>1, HistoryGrows
<1> QED
  BY <1>1, <1>2, <1>3 DEF StatusAfter

-----------------------------------------------------------------------------
\* LEMMA: a draft stays true while its transaction is open.
LEMMA DraftsStep ==
  ASSUME PipelineInv, PipelineTypeOK', [PipelineNext]_pipelineVars
  PROVE  DraftsAreTrue'
<1> SUFFICES ASSUME NEW k \in Actors, held'[k] # NoApp
             PROVE  DraftTrue(k, held[k])'
  BY DEF DraftsAreTrue
<1>1. PICK a \in Apps : a = held'[k]
  BY DEF PipelineTypeOK
<1>2. PICK n : n = draft'[k].seen
  OBVIOUS
<1>3. Len(history[a]) \in Nat /\ Len(history'[a]) \in Nat /\ n \in Nat
  <2>1. draft'[k] \in Rows
    BY DEF PipelineTypeOK
  <2>2. history'[a] \in Seq(Rows)
    BY DEF PipelineTypeOK
  <2> QED
    BY <1>2, <2>1, <2>2, RowFacts, LenProperties DEF Rows, PipelineInv
<1> HIDE DEF PipelineInv
<1>4. SUFFICES DraftTrue(k, a)'
  BY <1>1 DEF DraftTrue, StatusAfter
<1>5. CASE Reads(k)
  <2>1. SameApp(a)
    BY <1>5 DEF Reads
  <2>2. status[a] = StatusAfter(a, n) /\ n = Len(history[a])
    BY <1>1, <1>2, <1>5 DEF Reads, PipelineInv, HistoryEndsAtStatus
  <2>3. StatusAfter(a, n)' = StatusAfter(a, n)
    BY <2>1 DEF SameApp, StatusAfter
  <2>4. StampsNeeded(status[a]) \subseteq stamps[a]
    BY DEF PipelineInv, StampsFollowStatus
  <2>5. /\ status'[a] # Absent
        /\ draft'[k].by = k
        /\ draft'[k].old = status[a]
        /\ draft'[k].old # Absent
        /\ draft'[k].new \in VALID_TRANSITIONS[draft'[k].old]
        /\ history'[a] = history[a] /\ stamps'[a] = stamps[a]
    BY <1>1, <1>5, <2>1 DEF Reads, SameApp
  <2>6. draft'[k].seen <= Len(history'[a])
        /\ \A j \in (draft'[k].seen + 1)..Len(history'[a]) : history'[a][j].by # k
    BY <1>2, <1>3, <2>2, <2>5
  <2>7. draft'[k].old = StatusAfter(a, draft[k].seen)'
    BY <1>2, <2>2, <2>3, <2>5 DEF StatusAfter
  <2>8. StampsNeeded(draft'[k].old) \subseteq stamps'[a]
    BY <2>4, <2>5
  <2> QED
    BY <2>5, <2>6, <2>7, <2>8 DEF DraftTrue
<1>6. CASE SameActor(k)
  <2>1. held[k] = a /\ held[k] # NoApp /\ draft'[k] = draft[k] /\ n = draft[k].seen
    BY <1>1, <1>2, <1>6 DEF SameActor
  <2>2. DraftTrue(k, a)
    BY <2>1 DEF PipelineInv, DraftsAreTrue
  <2>3. /\ Len(history[a]) <= Len(history'[a])
        /\ \A i \in 1..Len(history[a]) : history'[a][i] = history[a][i]
        /\ stamps[a] \subseteq stamps'[a]
        /\ status'[a] # Absent
    BY <2>2, HistoryGrows DEF PipelineInv, DraftTrue
  <2>4. n <= Len(history[a]) /\ draft[k].old = StatusAfter(a, n)
    BY <2>1, <2>2 DEF DraftTrue
  <2>5. StatusAfter(a, n)' = StatusAfter(a, n)
    BY <1>3, <2>2, <2>4, PastIsFixed DEF PipelineInv, DraftTrue
  <2>6. \A j \in (n + 1)..Len(history'[a]) : history'[a][j].by # k
    <3>1. \A j \in (n + 1)..Len(history[a]) : history'[a][j].by # k
      BY <1>3, <2>1, <2>2, <2>3 DEF DraftTrue
    <3>2. ASSUME NEW row \in Rows, row.by # k, history'[a] = Append(history[a], row)
          PROVE  \A j \in (n + 1)..Len(history'[a]) : history'[a][j].by # k
      <4>1. history[a] \in Seq(Rows)
        BY DEF PipelineInv, PipelineTypeOK
      <4>2. Len(history'[a]) = Len(history[a]) + 1
            /\ history'[a][Len(history[a]) + 1] = row
        BY <3>2, <4>1, AppendFacts
      <4> QED
        BY <1>3, <3>1, <3>2, <4>2
    <3>3. ~Created(a)
      BY <2>2 DEF Created, DraftTrue
    <3>4. ASSUME NEW l \in Actors, Committed(l, a)
          PROVE  history'[a] = Append(history[a], draft[l]) /\ draft[l] \in Rows
                 /\ draft[l].by # k
      <4>1. l # k
        BY <1>1, <3>4, NoAppAssumption DEF Committed
      <4>2. held[l] = a /\ a # NoApp
        BY <3>4, NoAppAssumption DEF Committed
      <4>3. draft[l].by = l
        BY <4>2 DEF PipelineInv, DraftsAreTrue, DraftTrue
      <4> QED
        BY <3>4, <4>1, <4>3 DEF Committed, PipelineInv, PipelineTypeOK
    <3>5. CASE history'[a] = history[a]
      BY <3>1, <3>5
    <3> QED
      BY <3>2, <3>3, <3>4, <3>5, AppMoves DEF SameApp, Recorded, PipelineInv
  <2> QED
    BY <1>2, <2>1, <2>2, <2>3, <2>4, <2>5, <2>6, <1>3 DEF DraftTrue
<1> QED
  BY <1>1, <1>5, <1>6, ActorMoves, NoAppAssumption DEF PipelineInv

\* LEMMA: the way from a status to the next adds at most the date of the latter.
LEMMA TransitionStamps ==
  ASSUME NEW s \in Statuses, NEW t \in VALID_TRANSITIONS[s]
  PROVE  StampsNeeded(t) \subseteq StampsNeeded(s) \cup StampOf(t)
<1> USE DEF VALID_TRANSITIONS, StampsNeeded, StampOf, Stamps
<1>1. CASE s = "saved"
  BY <1>1
<1>2. CASE s = "applied"
  BY <1>2
<1>3. CASE s = "screening"
  BY <1>3
<1>4. CASE s = "interviewing"
  BY <1>4
<1>5. CASE s = "offer"
  BY <1>5
<1>6. CASE s \in {"rejected", "withdrawn", "accepted"}
  BY <1>6
<1> QED
  BY <1>1, <1>2, <1>3, <1>4, <1>5, <1>6 DEF Statuses

\* LEMMA: the draft an actor commits is a true one, of an application there is.
LEMMA CommitsTrueDraft ==
  ASSUME PipelineInv, NEW k \in Actors, NEW a \in Apps, Committed(k, a)
  PROVE  DraftTrue(k, a) /\ draft[k] \in Rows
BY NoAppAssumption DEF Committed, PipelineInv, PipelineTypeOK, DraftsAreTrue

\* LEMMA: status and history stay together.
LEMMA EndsStep ==
  ASSUME PipelineInv, PipelineTypeOK', [PipelineNext]_pipelineVars
  PROVE  HistoryEndsAtStatus'
<1> SUFFICES ASSUME NEW a \in Apps
             PROVE  status'[a] = StatusAfter(a, Len(history[a]))'
  BY DEF HistoryEndsAtStatus
<1>1. Len(history[a]) \in Nat /\ history[a] \in Seq(Rows)
  BY RowFacts DEF PipelineInv, PipelineTypeOK
<1>2. status[a] = StatusAfter(a, Len(history[a]))
  BY DEF PipelineInv, HistoryEndsAtStatus
<1>3. CASE SameApp(a)
  BY <1>2, <1>3 DEF SameApp, StatusAfter
<1>4. ASSUME NEW row \in Rows, history'[a] = Append(history[a], row), status'[a] = row.new
      PROVE  status'[a] = StatusAfter(a, Len(history[a]))'
  <2>1. Len(history'[a]) = Len(history[a]) + 1
        /\ history'[a][Len(history[a]) + 1] = row
    BY <1>1, <1>4, AppendFacts
  <2>2. Len(history'[a]) > 0 /\ history'[a][Len(history'[a])] = row
    BY <1>1, <2>1
  <2> QED
    BY <1>4, <2>2 DEF StatusAfter
<1>5. CASE Created(a)
  <2>1. CreationRow \in Rows /\ CreationRow.new = "saved"
    BY DEF CreationRow, Rows, Statuses
  <2> QED
    BY <1>4, <1>5, <2>1 DEF Created
<1>6. CASE Recorded(a)
  <2>1. Len(history'[a]) = 0
    BY <1>6, Unborn DEF Recorded, PipelineInv
  <2> QED
    BY <1>6, <2>1 DEF Recorded, StatusAfter
<1>7. ASSUME NEW k \in Actors, Committed(k, a)
      PROVE  status'[a] = StatusAfter(a, Len(history[a]))'
  BY <1>4, <1>7, CommitsTrueDraft DEF Committed
<1> QED
  BY <1>3, <1>5, <1>6, <1>7, AppMoves DEF PipelineInv

\* LEMMA: the dates stay behind the status.
LEMMA StampsStep ==
  ASSUME PipelineInv, PipelineTypeOK', [PipelineNext]_pipelineVars
  PROVE  StampsFollowStatus'
<1> SUFFICES ASSUME NEW a \in Apps
             PROVE  StampsNeeded(status'[a]) \subseteq stamps'[a]
  BY DEF StampsFollowStatus
<1>1. StampsNeeded(status[a]) \subseteq stamps[a]
  BY DEF PipelineInv, StampsFollowStatus
<1>2. CASE SameApp(a)
  BY <1>1, <1>2 DEF SameApp
<1>3. CASE Created(a)
  BY <1>3 DEF Created, StampsNeeded
<1>4. CASE Recorded(a)
  BY <1>4 DEF Recorded, StampsNeeded
<1>5. ASSUME NEW k \in Actors, Committed(k, a)
      PROVE  StampsNeeded(status'[a]) \subseteq stamps'[a]
  <2>1. DraftTrue(k, a) /\ draft[k] \in Rows
    BY <1>5, CommitsTrueDraft
  <2>2. draft[k].old \in Statuses /\ draft[k].new \in VALID_TRANSITIONS[draft[k].old]
    BY <2>1 DEF DraftTrue, Rows
  <2>3. StampsNeeded(draft[k].new)
          \subseteq StampsNeeded(draft[k].old) \cup StampOf(draft[k].new)
    BY <2>2, TransitionStamps
  <2> QED
    BY <1>5, <2>1, <2>3 DEF Committed, DraftTrue
<1> QED
  BY <1>2, <1>3, <1>4, <1>5, AppMoves DEF PipelineInv

\* LEMMA: every row goes on telling what its author read.
LEMMA TellsStep ==
  ASSUME PipelineInv, PipelineTypeOK', [PipelineNext]_pipelineVars
  PROVE  HistoryTellsWhatWasRead'
<1> SUFFICES ASSUME NEW a \in Apps, NEW i \in 1..Len(history'[a])
             PROVE  TellsWhatItRead(a, i)'
  BY DEF HistoryTellsWhatWasRead
<1>1. Len(history[a]) \in Nat /\ history[a] \in Seq(Rows)
      /\ Len(history'[a]) \in Nat /\ history'[a] \in Seq(Rows)
  BY RowFacts, LenProperties DEF PipelineInv, PipelineTypeOK
<1>2. CASE i <= Len(history[a])
  <2>1. status[a] # Absent
    BY <1>1, <1>2, Unborn DEF PipelineInv
  <2>2. \A j \in 1..Len(history[a]) : history'[a][j] = history[a][j]
    BY HistoryGrows DEF PipelineInv
  <2>3. TellsWhatItRead(a, i) /\ history[a][i] \in Rows /\ history'[a][i] = history[a][i]
    BY <1>1, <1>2, <2>2, RowFacts DEF PipelineInv, HistoryTellsWhatWasRead
  <2>4. PICK n : n = history[a][i].seen
    OBVIOUS
  <2>5. n \in Nat /\ n < i
    BY <2>3, <2>4 DEF TellsWhatItRead, Rows
  <2>6. StatusAfter(a, n)' = StatusAfter(a, n)
    BY <1>1, <1>2, <2>1, <2>5, PastIsFixed DEF PipelineInv
  <2>7. history'[a][i].old = StatusAfter(a, n)'
    BY <2>3, <2>4, <2>6 DEF TellsWhatItRead
  <2>8. \A j \in (n + 1)..(i - 1) : history'[a][j].by # history'[a][i].by
    <3>1. \A j \in (n + 1)..(i - 1) : history[a][j].by # history[a][i].by
      BY <2>3, <2>4 DEF TellsWhatItRead
    <3>2. \A j \in (n + 1)..(i - 1) : j \in 1..Len(history[a])
      BY <1>1, <1>2, <2>5
    <3> QED
      BY <2>2, <2>3, <3>1, <3>2
  <2>9. history'[a][i].old # Absent
          => history'[a][i].new \in VALID_TRANSITIONS[history'[a][i].old]
    BY <2>3 DEF TellsWhatItRead
  <2>10. history'[a][i].seen = n
    BY <2>3, <2>4
  <2> QED
    BY <2>5, <2>7, <2>8, <2>9, <2>10 DEF TellsWhatItRead, StatusAfter
<1>3. ASSUME NEW row \in Rows, history'[a] = Append(history[a], row), i > Len(history[a])
      PROVE  i = Len(history[a]) + 1 /\ history'[a][i] = row
             /\ \A j \in 1..Len(history[a]) : history'[a][j] = history[a][j]
  BY <1>1, <1>3, AppendFacts
<1>4. CASE i > Len(history[a]) /\ Created(a)
  <2>1. CreationRow \in Rows
    BY DEF CreationRow, Rows, Statuses
  <2>2. i = 1 /\ history'[a][1] = CreationRow
    BY <1>1, <1>3, <1>4, <2>1, Unborn DEF Created, PipelineInv
  <2> QED
    BY <1>4, <2>2 DEF Created, CreationRow, TellsWhatItRead, StatusAfter
<1>5. ASSUME NEW k \in Actors, Committed(k, a), i > Len(history[a])
      PROVE  TellsWhatItRead(a, i)'
  <2>1. DraftTrue(k, a) /\ draft[k] \in Rows
    BY <1>5, CommitsTrueDraft
  <2>2. i = Len(history[a]) + 1 /\ history'[a][i] = draft[k]
        /\ \A j \in 1..Len(history[a]) : history'[a][j] = history[a][j]
    BY <1>3, <1>5, <2>1 DEF Committed
  <2>3. PICK n : n = draft[k].seen
    OBVIOUS
  <2>4. n \in Nat /\ n <= Len(history[a])
    BY <2>1, <2>3 DEF DraftTrue, Rows
  <2>5. StatusAfter(a, n)' = StatusAfter(a, n)
    BY <1>1, <2>1, <2>4, PastIsFixed DEF PipelineInv, DraftTrue
  <2>6. history'[a][i].old = StatusAfter(a, n)'
    BY <2>1, <2>2, <2>3, <2>5 DEF DraftTrue
  <2>7. \A j \in (n + 1)..(i - 1) : history'[a][j].by # history'[a][i].by
    <3> SUFFICES ASSUME NEW j \in (n + 1)..(i - 1)
                 PROVE  history'[a][j].by # history'[a][i].by
      OBVIOUS
    <3>1. Len(history[a]) \in Nat /\ n \in Nat /\ i = Len(history[a]) + 1
      BY <1>1, <2>2, <2>4
    <3>2. j \in (n + 1)..Len(history[a]) /\ j \in 1..Len(history[a])
      BY <3>1
    <3>3. history'[a][j] = history[a][j] /\ history'[a][i] = draft[k]
      BY <2>2, <3>2
    <3>4. draft[k].by = k /\ history[a][j].by # k
      BY <2>1, <2>3, <3>2 DEF DraftTrue
    <3> QED
      BY <3>3, <3>4
  <2>8. history'[a][i].new \in VALID_TRANSITIONS[history'[a][i].old]
    BY <2>1, <2>2 DEF DraftTrue
  <2>9. history'[a][i].seen = n /\ n < i
    BY <1>1, <2>2, <2>3, <2>4
  <2> QED
    BY <2>6, <2>7, <2>8, <2>9 DEF TellsWhatItRead, StatusAfter
<1>6. CASE history'[a] = history[a]
  BY <1>1, <1>2, <1>6
<1> QED
  BY <1>1, <1>2, <1>4, <1>5, <1>6, AppMoves DEF PipelineInv, SameApp, Recorded

-----------------------------------------------------------------------------
\* LEMMA: the invariant holds at the start.
LEMMA PipelineInvInit == PipelineInit => PipelineInv
<1> SUFFICES ASSUME PipelineInit PROVE PipelineInv
  OBVIOUS
<1>1. PipelineTypeOK
  BY PipelineTypeInit
<1>2. \A a \in Apps : Len(history[a]) = 0
  BY EmptySeq DEF PipelineInit
<1>3. DraftsAreTrue
  BY DEF PipelineInit, DraftsAreTrue
<1>4. HistoryEndsAtStatus
  <2> SUFFICES ASSUME NEW a \in Apps PROVE status[a] = StatusAfter(a, Len(history[a]))
    BY DEF HistoryEndsAtStatus
  <2>1. Len(history[a]) = 0 /\ status[a] = Absent /\ source[a] = "none"
    BY <1>2 DEF PipelineInit
  <2> QED
    BY <2>1 DEF StatusAfter
<1>5. StampsFollowStatus
  BY DEF PipelineInit, StampsFollowStatus, StampsNeeded, Absent
<1>6. HistoryTellsWhatWasRead
  BY <1>2 DEF HistoryTellsWhatWasRead
<1> QED
  BY <1>1, <1>3, <1>4, <1>5, <1>6 DEF PipelineInv

\* LEMMA: every step keeps the invariant.
LEMMA PipelineInvStep == PipelineInv /\ [PipelineNext]_pipelineVars => PipelineInv'
<1> SUFFICES ASSUME PipelineInv, [PipelineNext]_pipelineVars PROVE PipelineInv'
  OBVIOUS
<1>1. PipelineTypeOK'
  BY PipelineTypeStep DEF PipelineInv
<1> QED
  BY <1>1, DraftsStep, EndsStep, StampsStep, TellsStep DEF PipelineInv

\* LEMMA: every behaviour keeps the invariant.
LEMMA PipelineInvariant == PipelineSpec => []PipelineInv
BY PipelineInvInit, PipelineInvStep, PTL DEF PipelineSpec

(***************************************************************************)
(* An application always has the dates of the status it has.                *)
(***************************************************************************)
THEOREM DatesAreComplete == PipelineSpec => []StampsFollowStatus
BY PipelineInvariant, PTL DEF PipelineInv

(***************************************************************************)
(* Every row tells what its author read, whoever commits in between.        *)
(***************************************************************************)
THEOREM HistoryIsHonest == PipelineSpec => []HistoryTellsWhatWasRead
BY PipelineInvariant, PTL DEF PipelineInv

(***************************************************************************)
(* The status is that of the row committed last.                            *)
(***************************************************************************)
THEOREM HistoryIsComplete == PipelineSpec => []HistoryEndsAtStatus
BY PipelineInvariant, PTL DEF PipelineInv

(***************************************************************************)
(* The three together: what get_history and the dates tell agrees with the  *)
(* status, whatever transitions overlooked one another.                     *)
(***************************************************************************)
THEOREM ApplicationsStayTrue == PipelineSpec => []ApplicationsAgree
BY PipelineInvariant, PTL DEF PipelineInv, ApplicationsAgree

-----------------------------------------------------------------------------
(* The readers of mail. *)
AtRest == {"idle", "next", "broken"}

TypeInv ==
  /\ TypeOK
  /\ \A k \in Readers : pc[k] \notin AtRest => msg[k] \in Messages

\* LEMMA: readers and users are among the actors, and a reader is no user.
LEMMA Sessions ==
  /\ Readers \subseteq Actors
  /\ \A k \in Readers : k \in Hooks \/ k \in Syncs
  /\ Users = Actors \ Readers
BY ReadersAssumption DEF Readers, Users

\* LEMMA: the status a message asks for is one.
LEMMA TargetIsStatus ==
  ASSUME NEW k \in Readers, NEW a \in Apps, Moves(k, a)
  PROVE  ACTION_TO_STATUS[Action[msg[k]]] \in Statuses
<1>1. Action[msg[k]] \in {"offer", "interview", "rejection"}
  BY DEF Moves, ACTION_TO_STATUS
<1>2. CASE Action[msg[k]] = "offer"
  BY <1>2 DEF ACTION_TO_STATUS, Statuses
<1>3. CASE Action[msg[k]] = "interview"
  BY <1>3 DEF ACTION_TO_STATUS, Statuses
<1>4. CASE Action[msg[k]] = "rejection"
  BY <1>4 DEF ACTION_TO_STATUS, Statuses
<1> QED
  BY <1>1, <1>2, <1>3, <1>4

-----------------------------------------------------------------------------
\* LEMMA: a step of the intake is a step of the pipeline, or none of its business.
LEMMA PipelineStep ==
  ASSUME TypeInv, [Next]_vars
  PROVE  [PipelineNext]_pipelineVars
<1>1. ASSUME NEW a \in Apps, Appear(a) \/ UpdateApplication(a) PROVE PipelineNext
  BY <1>1 DEF PipelineNext
<1>2. ASSUME NEW k \in Users, User(k) PROVE PipelineNext
  <2>1. k \in Actors /\ Wishes \subseteq Statuses
    BY Sessions, BoundsAssumption
  <2> QED
    BY <1>2, <2>1 DEF User, Request, PipelineNext, Transact
<1>3. ASSUME NEW k \in Readers, Move(k) PROVE PipelineNext
  BY <1>3, Sessions DEF Move, PipelineNext, Transact
<1>4. ASSUME NEW k \in Readers, NEW a \in Apps, MatchAndMove(k, a) PROVE PipelineNext
  <2>1. ACTION_TO_STATUS[Action[msg[k]]] \in Statuses /\ msg[k] \in Messages
    BY <1>4, TargetIsStatus DEF MatchAndMove, TypeInv, AtRest
  <2> QED
    BY <1>4, <2>1, Sessions DEF MatchAndMove, PipelineNext, Transact
<1>5. ASSUME NEW k \in Readers, LoseWork(k) PROVE PipelineNext \/ UNCHANGED pipelineVars
  <2>1. CASE held[k] = NoApp
    BY <1>5, <2>1 DEF LoseWork, pipelineVars, appVars, txVars
  <2>2. CASE held[k] # NoApp
    BY <1>5, <2>2, Sessions DEF LoseWork, PipelineNext, Transact, Abandon
  <2> QED
    BY <2>1, <2>2
<1>6. ASSUME NEW k \in Readers,
             \/ Check(k) \/ MatchNone(k) \/ CommitLog(k) \/ Notify(k) \/ File(k)
             \/ \E a \in Apps : MatchOnly(k, a)
             \/ StartSync(k) \/ FinishSync(k) \/ ListingFails(k) \/ GiveUp(k)
             \/ \E m \in Messages : Deliver(k, m) \/ Fetch(k, m) \/ FetchFails(k, m)
      PROVE  UNCHANGED pipelineVars
  BY <1>6 DEF Check, MatchNone, CommitLog, Notify, File, MatchOnly, StartSync, FinishSync,
              ListingFails, GiveUp, Deliver, Fetch, FetchFails
<1>7. ASSUME NEW k \in Readers, Handle(k) PROVE PipelineNext \/ UNCHANGED pipelineVars
  BY <1>3, <1>4, <1>6, <1>7 DEF Handle
<1>8. ASSUME NEW k \in Readers, Fail(k) \/ CommitFails(k) \/ Crash(k)
      PROVE  PipelineNext \/ UNCHANGED pipelineVars
  BY <1>5, <1>8 DEF Fail, CommitFails, Crash
<1>9. ASSUME NEW m \in Messages, Arrive(m) PROVE UNCHANGED pipelineVars
  BY <1>9 DEF Arrive
<1>12. ASSUME Age PROVE UNCHANGED pipelineVars
  BY <1>12 DEF Age
<1>10. CASE UNCHANGED vars
  BY <1>10 DEF vars
<1>11. Hooks \subseteq Readers /\ Syncs \subseteq Readers /\ Forwarded \subseteq Messages
  BY MailAssumption DEF Readers
<1> QED
  BY <1>1, <1>2, <1>6, <1>7, <1>8, <1>9, <1>10, <1>11, <1>12 DEF Next

-----------------------------------------------------------------------------
\* LEMMA: the variables keep their types, and a reader at work has a message.
LEMMA TypeStep == TypeInv /\ [Next]_vars => TypeInv'
<1> SUFFICES ASSUME TypeInv, [Next]_vars PROVE TypeInv'
  OBVIOUS
<1>1. PipelineTypeOK'
  BY PipelineStep, PipelineTypeStep DEF TypeInv, TypeOK
<1> DEFINE Rest ==
      /\ logs' \in [Messages -> [Readers -> Nat]]
      /\ notes' \subseteq Messages \X Readers
      /\ pc' \in [Readers -> {"idle", "next", "check", "match", "log", "move", "file",
                              "notify", "broken"}]
      /\ msg' \in [Readers -> Messages \cup {NoMessage}]
      /\ todo' \in [Syncs -> SUBSET Messages]
      /\ listed' \in [Syncs -> SUBSET Messages]
      /\ failed' \in [Syncs -> Nat]
      /\ readError' \in [Syncs -> Errors]
      /\ mailbox' \in Seq(Messages)
      /\ lastError' \in Errors
      /\ lastList' \subseteq Messages
      /\ masked' \in BOOLEAN
      /\ unsent' \subseteq Messages \X Readers
      /\ faults' \in Nat
      /\ \A k \in Readers : pc'[k] \notin AtRest => msg'[k] \in Messages
<1>2. SUFFICES Rest
  BY <1>1 DEF TypeInv, TypeOK
<1> USE DEF TypeInv, TypeOK, AtRest, Goto, tellVars, syncVars, mailVars
<1>3. NoError \in Errors /\ Broken \in Errors /\ \A n \in Nat : Partial(n) \in Errors
  BY DEF NoError, Broken, Partial, Errors
<1>4. ASSUME NEW k \in Readers, EndMessage(k)
      PROVE  /\ pc' \in [Readers -> {"idle", "next", "check", "match", "log", "move", "file",
                                     "notify", "broken"}]
             /\ msg' \in [Readers -> Messages \cup {NoMessage}]
             /\ \A l \in Readers : pc'[l] \notin AtRest => msg'[l] \in Messages
  BY <1>4 DEF EndMessage
<1>5. ASSUME NEW k \in Readers, AddLog(k), msg[k] \in Messages
      PROVE  logs' \in [Messages -> [Readers -> Nat]]
  <2>1. [logs[msg[k]] EXCEPT ![k] = logs[msg[k]][k] + 1] \in [Readers -> Nat]
    <3>1. logs[msg[k]] \in [Readers -> Nat]
      BY <1>5
    <3> QED
      BY ONLY <3>1
  <2>2. logs' = [logs EXCEPT ![msg[k]] = [logs[msg[k]] EXCEPT ![k] = logs[msg[k]][k] + 1]]
    BY <1>5 DEF AddLog
  <2> QED
    BY <1>5, <2>1, <2>2
<1>6. ASSUME NEW k \in Readers, Check(k) PROVE Rest
  <2>1. CASE Logged(msg[k])
    BY <1>4, <1>6, <2>1 DEF Check
  <2>2. CASE ~Logged(msg[k])
    BY <1>6, <2>2 DEF Check
  <2> QED
    BY <2>1, <2>2
<1>7. ASSUME NEW k \in Readers, MatchNone(k) PROVE Rest
  BY <1>7 DEF MatchNone
<1>8. ASSUME NEW k \in Readers, NEW a \in Apps, MatchAndMove(k, a) PROVE Rest
  BY <1>8 DEF MatchAndMove
<1>9. ASSUME NEW k \in Readers, NEW a \in Apps, MatchOnly(k, a) PROVE Rest
  BY <1>9 DEF MatchOnly
<1>10. ASSUME NEW k \in Readers, CommitLog(k) PROVE Rest
  BY <1>4, <1>5, <1>10 DEF CommitLog
<1>11. ASSUME NEW k \in Readers, Move(k) PROVE Rest
  BY <1>5, <1>11 DEF Move
<1>29. ASSUME NEW k \in Readers, msg[k] \in Messages
       PROVE  notes \cup {<<msg[k], k>>} \subseteq Messages \X Readers
              /\ unsent \cup {<<msg[k], k>>} \subseteq Messages \X Readers
  BY <1>29
<1>12. ASSUME NEW k \in Readers, Notify(k) PROVE Rest
  <2>1. msg[k] \in Messages
    BY <1>12 DEF Notify
  <2>2. notes' \subseteq Messages \X Readers
    BY <1>12, <1>29, <2>1 DEF Notify
  <2> QED
    BY <1>4, <1>12, <2>2 DEF Notify
<1>13. ASSUME NEW k \in Readers, File(k) PROVE Rest
  <2>1. msg[k] \in Messages
    BY <1>13 DEF File
  <2>2. notes' \subseteq Messages \X Readers /\ logs' \in [Messages -> [Readers -> Nat]]
    BY <1>5, <1>13, <1>29, <2>1 DEF File
  <2> QED
    BY <1>4, <1>13, <2>2 DEF File
<1>14. ASSUME NEW k \in Readers, LoseWork(k)
       PROVE  /\ unsent' \subseteq Messages \X Readers
              /\ faults' \in Nat
              /\ UNCHANGED <<logs, notes>>
  <2>1. pc[k] = "notify" => unsent \cup {<<msg[k], k>>} \subseteq Messages \X Readers
    BY <1>29
  <2> QED
    BY <1>14, <2>1 DEF LoseWork
<1>15. ASSUME NEW k \in Readers, Fail(k) PROVE Rest
  BY <1>14, <1>15 DEF Fail
<1>16. ASSUME NEW k \in Syncs, ForgetSync(k)
       PROVE  /\ todo' \in [Syncs -> SUBSET Messages]
              /\ listed' \in [Syncs -> SUBSET Messages]
              /\ failed' \in [Syncs -> Nat]
              /\ readError' \in [Syncs -> Errors]
  BY <1>3, <1>16 DEF ForgetSync
<1>17. ASSUME NEW k \in Syncs, Crash(k) PROVE Rest
  <2>1. k \in Readers
    BY DEF Readers
  <2> QED
    BY <1>14, <1>16, <1>17, <2>1 DEF Crash
<1>18. ASSUME NEW k \in Syncs, GiveUp(k) PROVE Rest
  <2>1. lastError' \in Errors
    BY <1>3, <1>18 DEF GiveUp
  <2>2. ForgetSync(k) /\ pc' = [pc EXCEPT ![k] = "idle"]
        /\ UNCHANGED <<logs, notes, unsent, msg, mailbox, lastList, masked, faults>>
    BY <1>18 DEF GiveUp
  <2> QED
    BY <1>16, <2>1, <2>2
<1>26. ASSUME NEW k \in Syncs, ListingFails(k) PROVE Rest
  BY <1>3, <1>26 DEF ListingFails
<1>27. ASSUME NEW k \in Syncs, CommitFails(k) PROVE Rest
  <2>1. k \in Readers
    BY DEF Readers
  <2> QED
    BY <1>14, <1>27, <2>1 DEF CommitFails
<1>19. ASSUME NEW k \in Syncs, FinishSync(k) PROVE Rest
  <2>1. Outcome(k) \in Errors
    BY <1>3 DEF Outcome
  <2>2. lastError' \in Errors /\ lastList' \subseteq Messages
    BY <1>19, <2>1 DEF FinishSync
  <2> QED
    BY <1>16, <1>19, <2>2 DEF FinishSync
<1>20. ASSUME NEW k \in Syncs, StartSync(k) PROVE Rest
  <2>1. Page \subseteq Messages
    BY ElementOfSeq DEF Page
  <2> QED
    BY <1>20, <2>1 DEF StartSync
<1>21. ASSUME NEW k \in Syncs, NEW m \in Messages, Fetch(k, m) PROVE Rest
  BY <1>21 DEF Fetch
<1>22. ASSUME NEW k \in Syncs, NEW m \in Messages, FetchFails(k, m) PROVE Rest
  BY <1>22 DEF FetchFails
<1>23. ASSUME NEW k \in Hooks, NEW m \in Messages, Deliver(k, m) PROVE Rest
  BY <1>23 DEF Deliver
<1>24. ASSUME NEW m \in Messages, Arrive(m) PROVE Rest
  <2>1. Append(mailbox, m) \in Seq(Messages)
    BY AppendProperties
  <2> QED
    BY <1>24, <2>1 DEF Arrive
<1>28. ASSUME Age PROVE Rest
  <2>1. Tail(mailbox) \in Seq(Messages)
    BY <1>28, HeadTailProperties DEF Age
  <2> QED
    BY <1>28, <2>1 DEF Age
<1>25. ASSUME UNCHANGED intakeVars PROVE Rest
  BY <1>25 DEF intakeVars
<1> QED
  <2>1. Forwarded \subseteq Messages
    BY MailAssumption
  <2> QED
    BY <2>1, <1>6, <1>7, <1>8, <1>9, <1>10, <1>11, <1>12, <1>13, <1>15, <1>17, <1>18, <1>19,
       <1>20, <1>21, <1>22, <1>23, <1>24, <1>25, <1>26, <1>27, <1>28 DEF Next, Handle, User, vars

\* LEMMA: the types hold at the start.
LEMMA TypeInit == Init => TypeInv
<1>1. Init => masked \in BOOLEAN
  BY DEF Init
<1>2. Init => mailbox \in Seq(Messages)
  BY EmptySeq DEF Init
<1> QED
  BY <1>1, <1>2, PipelineTypeInit DEF Init, TypeInv, TypeOK, AtRest, Errors, NoError

(***************************************************************************)
(* The variables keep their types in every behaviour.                       *)
(***************************************************************************)
THEOREM TypeCorrect == Spec => []TypeOK
<1>1. TypeInv => TypeOK
  BY DEF TypeInv
<1> QED
  BY TypeInit, TypeStep, <1>1, PTL DEF Spec

(***************************************************************************)
(* Mail, syncs, webhooks and users together keep to what Pipeline allows:   *)
(* its theorems hold of the whole intake.                                   *)
(***************************************************************************)
THEOREM IntakeIsPipeline == Spec => PipelineSpec
<1>1. Init => PipelineInit
  BY DEF Init
<1>2. TypeInv /\ [Next]_vars => [PipelineNext]_pipelineVars
  BY PipelineStep
<1> QED
  BY TypeInit, TypeStep, <1>1, <1>2, PTL DEF Spec, PipelineSpec

-----------------------------------------------------------------------------
(***************************************************************************)
(* What a reader knows at each step: it has logged no message twice, holds  *)
(* an application just when it is about to move it, and has not logged the  *)
(* message in hand before the commit that logs it.                          *)
(***************************************************************************)
SureDraft(k, m, new) ==
  k \in Syncs => m \in Sure /\ new = ACTION_TO_STATUS[Action[m]]
ReaderInv(k) ==
  /\ \A m \in Messages : logs[m][k] <= 1
  /\ pc[k] = "move" <=> held[k] # NoApp
  /\ pc[k] = "move" => draft[k].note = msg[k] /\ SureDraft(k, msg[k], draft[k].new)
  /\ pc[k] \in {"match", "log", "move", "file"} => logs[msg[k]][k] = 0
UserInv(k) == held[k] # NoApp => draft[k].note = NoMessage

\* What a row made by mail owes to the log, the user and the parser.
MailRow(row) ==
  /\ row.by \in Readers
  /\ row.note \in Messages
  /\ logs[row.note][row.by] > 0
  /\ \/ <<row.note, row.by>> \in notes \cup unsent
     \/ pc[row.by] = "notify" /\ msg[row.by] = row.note
  /\ SureDraft(row.by, row.note, row.new)

IntakeInv ==
  /\ TypeInv
  /\ PipelineInv
  /\ \A k \in Readers : ReaderInv(k)
  /\ \A k \in Users : UserInv(k)
  /\ \A a \in Apps : \A i \in 1..Len(history[a]) :
        history[a][i].note # NoMessage => MailRow(history[a][i])
  /\ HandledOncePerReader

(***************************************************************************)
(* What a step does to one reader.                                          *)
(***************************************************************************)
SameLogs(k) == \A m \in Messages : logs'[m][k] = logs[m][k]
AddsLog(k) ==
  \A m \in Messages : logs'[m][k] = IF m = msg[k] THEN logs[m][k] + 1 ELSE logs[m][k]
Stays(k) ==
  /\ pc'[k] = pc[k] /\ msg'[k] = msg[k]
  /\ held'[k] = held[k] /\ draft'[k] = draft[k]
  /\ SameLogs(k)
Leaves(k) ==
  /\ pc'[k] \in AtRest /\ held'[k] = NoApp /\ SameLogs(k)
  /\ pc[k] = "move" => history' = history
  /\ pc[k] = "notify" => <<msg[k], k>> \in notes' \cup unsent'
Takes(k) == pc[k] \in AtRest /\ pc'[k] = "check" /\ held'[k] = NoApp /\ SameLogs(k)
Passes(k) ==
  /\ pc[k] = "check" /\ pc'[k] \in {"match", "log"}
  /\ msg'[k] = msg[k] /\ held'[k] = NoApp /\ SameLogs(k)
  /\ logs[msg[k]][k] = 0
Files(k) ==
  /\ pc[k] = "match" /\ pc'[k] \in {"log", "file"}
  /\ msg'[k] = msg[k] /\ held'[k] = NoApp /\ SameLogs(k)
Drafts(k) ==
  /\ pc[k] = "match" /\ pc'[k] = "move"
  /\ msg'[k] = msg[k] /\ held'[k] \in Apps /\ SameLogs(k)
  /\ draft'[k].note = msg[k] /\ SureDraft(k, msg[k], draft'[k].new)
Ends(k) ==
  /\ pc[k] \in {"log", "file"} /\ pc'[k] \in AtRest
  /\ held'[k] = NoApp /\ AddsLog(k)
Tells(k) ==
  /\ pc[k] = "move" /\ pc'[k] = "notify"
  /\ msg'[k] = msg[k] /\ held'[k] = NoApp /\ AddsLog(k)
ReaderMove(k) ==
  \/ Stays(k) \/ Leaves(k) \/ Takes(k) \/ Passes(k) \/ Files(k) \/ Drafts(k)
  \/ Ends(k) \/ Tells(k)

\* LEMMA: a log row is added for one message and one reader.
LEMMA LogFacts ==
  ASSUME TypeInv, NEW k \in Readers, AddLog(k), msg[k] \in Messages
  PROVE  AddsLog(k) /\ \A l \in Readers : l # k => SameLogs(l)
<1>1. logs' = [logs EXCEPT ![msg[k]] = [logs[msg[k]] EXCEPT ![k] = logs[msg[k]][k] + 1]]
  BY DEF AddLog
<1>2. logs \in [Messages -> [Readers -> Nat]]
  BY DEF TypeInv, TypeOK
<1> QED
  BY <1>1, <1>2 DEF AddsLog, SameLogs

\* LEMMA: nothing else happens to a reader.
LEMMA ReaderMoves ==
  ASSUME IntakeInv, [Next]_vars, NEW b \in Readers
  PROVE  ReaderMove(b)
<1> USE DEF ReaderMove
<1>0. /\ pc \in [Readers -> {"idle", "next", "check", "match", "log", "move", "file",
                             "notify", "broken"}]
      /\ msg \in [Readers -> Messages \cup {NoMessage}]
      /\ held \in [Actors -> Apps \cup {NoApp}]
      /\ \A k \in Readers : pc[k] \notin AtRest => msg[k] \in Messages
      /\ \A k \in Readers : pc[k] # "move" => held[k] = NoApp
      /\ Readers \subseteq Actors
      /\ logs \in [Messages -> [Readers -> Nat]]
      /\ draft \in [Actors -> Rows]
  BY Sessions DEF IntakeInv, TypeInv, TypeOK, PipelineTypeOK, ReaderInv
<1>1. ASSUME UNCHANGED <<logs, pc, msg>>, held'[b] = held[b], draft'[b] = draft[b]
      PROVE  Stays(b)
  BY <1>1 DEF Stays, SameLogs
<1>2. ASSUME NEW a \in Apps, Appear(a) \/ UpdateApplication(a), UNCHANGED intakeVars
      PROVE  Stays(b)
  BY <1>1, <1>2 DEF Appear, CreateApplication, RecordApplication, UpdateApplication,
                    txVars, intakeVars
<1>3. ASSUME NEW k \in Users, User(k) PROVE Stays(b)
  <2>1. k # b /\ k \in Actors
    BY Sessions
  <2>2. held'[b] = held[b] /\ draft'[b] = draft[b]
    BY <1>0, <1>3, <2>1 DEF User, Request, ReadStatus, CommitStatus, Abandon, Release
  <2> QED
    BY <1>1, <1>3, <2>2 DEF User, intakeVars
<1>4. ASSUME Age \/ \E m \in Messages : Arrive(m) PROVE Stays(b)
  BY <1>1, <1>4 DEF Age, Arrive, tellVars, pipelineVars
\* A step of reader k that leaves the transactions and the log alone.
<1>5. ASSUME NEW k \in Readers, UNCHANGED <<held, draft, logs>>,
             \A l \in Readers : l # k => pc'[l] = pc[l] /\ msg'[l] = msg[l], b # k
      PROVE  Stays(b)
  BY <1>5 DEF Stays, SameLogs
<1>6. ASSUME NEW k \in Hooks, NEW m \in Messages, Deliver(k, m) PROVE ReaderMove(b)
  <2>1. UNCHANGED <<held, draft, logs>> /\ pc[k] = "idle" /\ k \in Readers
        /\ pc' = [pc EXCEPT ![k] = "check"] /\ msg' = [msg EXCEPT ![k] = m]
    BY <1>6 DEF Deliver, Goto, tellVars, pipelineVars, Readers
  <2>2. b = k => Takes(b)
    BY <1>0, <2>1 DEF Takes, SameLogs, AtRest
  <2> QED
    BY <1>0, <1>5, <2>1, <2>2
<1>7. ASSUME NEW k \in Syncs, NEW m \in Messages, Fetch(k, m) PROVE ReaderMove(b)
  <2>1. UNCHANGED <<held, draft, logs>> /\ pc[k] = "next" /\ k \in Readers
        /\ pc' = [pc EXCEPT ![k] = "check"] /\ msg' = [msg EXCEPT ![k] = m]
    BY <1>7 DEF Fetch, Goto, tellVars, pipelineVars, Readers
  <2>2. b = k => Takes(b)
    BY <1>0, <2>1 DEF Takes, SameLogs, AtRest
  <2> QED
    BY <1>0, <1>5, <2>1, <2>2
<1>8. ASSUME NEW k \in Syncs, NEW m \in Messages, FetchFails(k, m) PROVE ReaderMove(b)
  BY <1>1, <1>8 DEF FetchFails, tellVars, pipelineVars
<1>9. ASSUME NEW k \in Syncs, StartSync(k) \/ FinishSync(k) \/ GiveUp(k)
      PROVE  ReaderMove(b)
  <2>1. UNCHANGED <<held, draft, logs, msg>> /\ pc[k] \in AtRest /\ k \in Readers
        /\ \E step \in AtRest : pc' = [pc EXCEPT ![k] = step]
    BY <1>9 DEF StartSync, FinishSync, GiveUp, Goto, tellVars, pipelineVars, Readers,
                AtRest
  <2>2. b = k => Leaves(b)
    BY <1>0, <2>1 DEF Leaves, SameLogs, AtRest
  <2> QED
    BY <1>0, <1>5, <2>1, <2>2
<1>22. ASSUME NEW k \in Syncs, ListingFails(k) PROVE Stays(b)
  BY <1>1, <1>22 DEF ListingFails, tellVars, pipelineVars
<1>10. ASSUME NEW k \in Readers, EndMessage(k)
       PROVE  /\ pc'[k] \in AtRest
              /\ \A l \in Readers : l # k => pc'[l] = pc[l] /\ msg'[l] = msg[l]
  BY <1>0, <1>10 DEF EndMessage, Goto, AtRest
<1>11. ASSUME NEW k \in Readers, Check(k) PROVE ReaderMove(b)
  <2>1. UNCHANGED <<held, draft, logs>> /\ pc[k] = "check"
    BY <1>11 DEF Check, tellVars, pipelineVars
  <2>2. CASE Logged(msg[k])
    <3>1. b = k => Leaves(b)
      BY <1>0, <1>10, <1>11, <2>1, <2>2 DEF Check, Leaves, SameLogs
    <3> QED
      BY <1>5, <1>10, <1>11, <2>1, <2>2, <3>1 DEF Check
  <2>3. CASE ~Logged(msg[k])
    <3>1. /\ pc' = [pc EXCEPT ![k] = IF Action[msg[k]] = "none" THEN "log" ELSE "match"]
          /\ msg' = msg
      BY <1>11, <2>3 DEF Check, Goto
    <3>2. logs[msg[k]][k] = 0
      BY <1>0, <2>1, <2>3 DEF Logged, AtRest
    <3>3. b = k => Passes(b)
      BY <1>0, <2>1, <3>1, <3>2 DEF Passes, SameLogs
    <3> QED
      BY <1>0, <1>5, <2>1, <3>1, <3>3
  <2> QED
    BY <2>2, <2>3
<1>12. ASSUME NEW k \in Readers, MatchNone(k) \/ \E a \in Apps : MatchOnly(k, a)
       PROVE  ReaderMove(b)
  <2>1. UNCHANGED <<held, draft, logs, msg>> /\ pc[k] = "match"
        /\ \E step \in {"log", "file"} : pc' = [pc EXCEPT ![k] = step]
    BY <1>12 DEF MatchNone, MatchOnly, Goto, tellVars, pipelineVars
  <2>2. b = k => Files(b)
    BY <1>0, <2>1 DEF Files, SameLogs
  <2> QED
    BY <1>0, <1>5, <2>1, <2>2
<1>13. ASSUME NEW k \in Readers, NEW a \in Apps, MatchAndMove(k, a) PROVE ReaderMove(b)
  <2>1. /\ UNCHANGED <<logs, msg>> /\ pc[k] = "match"
        /\ pc' = [pc EXCEPT ![k] = "move"]
        /\ held' = [held EXCEPT ![k] = a]
        /\ draft' = [draft EXCEPT ![k] =
             [old |-> status[a], new |-> ACTION_TO_STATUS[Action[msg[k]]], by |-> k,
              seen |-> Len(history[a]), note |-> msg[k]]]
    BY <1>13 DEF MatchAndMove, ReadStatus, Goto, tellVars
  <2>2. k \in Syncs => msg[k] \in Sure
    BY <1>13 DEF MatchAndMove, Moves, ReviewRequired
  <2>3. CASE b = k
    <3>1. draft'[k].note = msg[k] /\ draft'[k].new = ACTION_TO_STATUS[Action[msg[k]]]
          /\ held'[k] = a /\ pc'[k] = "move"
      BY <1>0, <2>1
    <3> QED
      BY <2>1, <2>2, <2>3, <3>1 DEF Drafts, SameLogs, SureDraft
  <2>4. CASE b # k
    BY <1>0, <2>1, <2>4 DEF Stays, SameLogs
  <2> QED
    BY <2>3, <2>4
<1>14. ASSUME NEW k \in Readers, CommitLog(k) \/ File(k) PROVE ReaderMove(b)
  <2>1. UNCHANGED <<held, draft>> /\ pc[k] \in {"log", "file"} /\ AddLog(k) /\ EndMessage(k)
    BY <1>14 DEF CommitLog, File, pipelineVars
  <2>2. AddsLog(k) /\ \A l \in Readers : l # k => SameLogs(l)
    BY <1>0, <2>1, LogFacts DEF IntakeInv, AtRest
  <2>3. b = k => Ends(b)
    BY <1>0, <1>10, <2>1, <2>2 DEF Ends
  <2>4. b # k => Stays(b)
    BY <1>10, <2>1, <2>2 DEF Stays
  <2> QED
    BY <2>3, <2>4
<1>15. ASSUME NEW k \in Readers, Move(k) PROVE ReaderMove(b)
  <2>1. /\ pc[k] = "move" /\ AddLog(k) /\ msg' = msg
        /\ pc' = [pc EXCEPT ![k] = "notify"]
        /\ held' = [held EXCEPT ![k] = NoApp]
        /\ draft' = [draft EXCEPT ![k] = CreationRow]
    BY <1>15 DEF Move, CommitStatus, Release, Goto
  <2>2. AddsLog(k) /\ \A l \in Readers : l # k => SameLogs(l)
    BY <1>0, <2>1, LogFacts DEF IntakeInv, AtRest
  <2>3. b = k => Tells(b)
    BY <1>0, <2>1, <2>2 DEF Tells
  <2>4. b # k => Stays(b)
    BY <1>0, <2>1, <2>2 DEF Stays
  <2> QED
    BY <2>3, <2>4
<1>16. ASSUME NEW k \in Readers, Notify(k) PROVE ReaderMove(b)
  <2>1. UNCHANGED <<held, draft, logs>> /\ pc[k] = "notify" /\ EndMessage(k)
        /\ <<msg[k], k>> \in notes'
    BY <1>16 DEF Notify, pipelineVars
  <2>2. b = k => Leaves(b)
    BY <1>0, <1>10, <2>1 DEF Leaves, SameLogs
  <2> QED
    BY <1>5, <1>10, <2>1, <2>2
<1>17. ASSUME NEW k \in Readers, LoseWork(k)
       PROVE  /\ held'[k] = NoApp /\ history' = history /\ logs' = logs
              /\ pc[k] = "notify" => <<msg[k], k>> \in notes' \cup unsent'
              /\ \A l \in Readers : l # k => held'[l] = held[l] /\ draft'[l] = draft[l]
  BY <1>0, <1>17 DEF LoseWork, Release, appVars, txVars
<1>18. ASSUME NEW k \in Readers, Fail(k) \/ CommitFails(k) \/ Crash(k) PROVE ReaderMove(b)
  <2>1. LoseWork(k) /\ pc'[k] \in AtRest
        /\ \A l \in Readers : l # k => pc'[l] = pc[l] /\ msg'[l] = msg[l]
    BY <1>0, <1>18 DEF Fail, CommitFails, Crash, Goto, AtRest
  <2>2. b = k => Leaves(b)
    BY <1>17, <2>1 DEF Leaves, SameLogs
  <2>3. b # k => Stays(b)
    BY <1>17, <2>1 DEF Stays, SameLogs
  <2> QED
    BY <2>2, <2>3
<1>19. CASE UNCHANGED vars
  BY <1>1, <1>19 DEF vars, pipelineVars, intakeVars
<1>20. Hooks \subseteq Readers /\ Syncs \subseteq Readers /\ Forwarded \subseteq Messages
  BY MailAssumption DEF Readers
<1> HIDE DEF ReaderMove
<1>21. ASSUME Stays(b) PROVE ReaderMove(b)
  BY <1>21 DEF ReaderMove
<1> QED
  BY <1>2, <1>3, <1>4, <1>6, <1>7, <1>8, <1>9, <1>11, <1>12, <1>13, <1>14, <1>15, <1>16,
     <1>18, <1>19, <1>20, <1>21, <1>22 DEF Next, Handle

-----------------------------------------------------------------------------
\* LEMMA: a reader goes on knowing what it knew.
LEMMA ReaderStep ==
  ASSUME IntakeInv, [Next]_vars, NEW k \in Readers
  PROVE  ReaderInv(k)'
<1>1. /\ ReaderInv(k) /\ logs \in [Messages -> [Readers -> Nat]]
      /\ msg[k] \in Messages \cup {NoMessage}
      /\ pc[k] \notin AtRest => msg[k] \in Messages
  BY DEF IntakeInv, TypeInv, TypeOK
<1>2. \A m \in Messages : logs[m][k] \in Nat
  BY <1>1
<1> USE DEF ReaderInv, AtRest
<1>3. CASE Stays(k)
  <2>1. pc[k] \in {"match", "log", "move", "file"} => logs'[msg[k]][k] = 0
    BY <1>1, <1>3 DEF Stays, SameLogs
  <2> QED
    BY <1>1, <1>3, <2>1 DEF Stays, SameLogs
<1>4. CASE Leaves(k)
  BY <1>1, <1>4 DEF Leaves, SameLogs
<1>5. CASE Takes(k)
  BY <1>1, <1>5 DEF Takes, SameLogs
<1>6. CASE Passes(k) \/ Files(k)
  BY <1>1, <1>6 DEF Passes, Files, SameLogs
<1>7. CASE Drafts(k)
  BY <1>1, <1>7, NoAppAssumption DEF Drafts, SameLogs
<1>8. CASE Ends(k) \/ Tells(k)
  <2>1. logs[msg[k]][k] = 0 /\ AddsLog(k)
    BY <1>1, <1>8 DEF Ends, Tells
  <2>2. \A m \in Messages : logs'[m][k] <= 1
    <3> SUFFICES ASSUME NEW m \in Messages PROVE logs'[m][k] <= 1
      OBVIOUS
    <3>1. CASE m = msg[k]
      BY <2>1, <3>1 DEF AddsLog
    <3>2. CASE m # msg[k]
      BY <1>1, <2>1, <3>2 DEF AddsLog
    <3> QED
      BY <3>1, <3>2
  <2> QED
    BY <1>8, <2>2 DEF Ends, Tells
<1> QED
  BY <1>3, <1>4, <1>5, <1>6, <1>7, <1>8, ReaderMoves DEF ReaderMove

\* LEMMA: a user's draft never cites a message.
LEMMA UserStep ==
  ASSUME IntakeInv, [Next]_vars, NEW u \in Users
  PROVE  UserInv(u)'
<1>0. /\ held \in [Actors -> Apps \cup {NoApp}] /\ draft \in [Actors -> Rows]
      /\ u \in Actors /\ u \notin Readers /\ Readers \subseteq Actors
      /\ UserInv(u)
  BY Sessions DEF IntakeInv, TypeInv, TypeOK, PipelineTypeOK
<1> USE DEF UserInv
<1>1. ASSUME held'[u] = held[u], draft'[u] = draft[u] PROVE UserInv(u)'
  BY <1>0, <1>1
<1>2. ASSUME NEW k \in Actors, Release(k) PROVE UserInv(u)'
  BY <1>0, <1>2 DEF Release
<1>3. ASSUME NEW k \in Users, User(k) PROVE UserInv(u)'
  <2>1. k \in Actors
    BY Sessions
  <2>2. ASSUME NEW a \in Apps, NEW new \in Wishes, ReadStatus(k, a, new, NoMessage)
        PROVE  UserInv(u)'
    BY <1>0, <2>1, <2>2 DEF ReadStatus
  <2> QED
    BY <1>2, <1>3, <2>1, <2>2 DEF User, Request, CommitStatus, Abandon
<1>4. ASSUME NEW k \in Readers, Handle(k) PROVE UserInv(u)'
  <2>1. ASSUME NEW a \in Apps, MatchAndMove(k, a) PROVE UserInv(u)'
    BY <1>0, <1>1, <2>1 DEF MatchAndMove, ReadStatus
  <2>2. ASSUME Move(k) PROVE UserInv(u)'
    BY <1>0, <1>2, <2>2 DEF Move, CommitStatus
  <2>3. ASSUME UNCHANGED pipelineVars PROVE UserInv(u)'
    BY <1>1, <2>3 DEF pipelineVars
  <2> QED
    BY <1>4, <2>1, <2>2, <2>3 DEF Handle, Check, MatchNone, MatchOnly, CommitLog, Notify, File
<1>5. ASSUME NEW k \in Readers, Fail(k) \/ CommitFails(k) \/ Crash(k) PROVE UserInv(u)'
  BY <1>0, <1>1, <1>2, <1>5 DEF Fail, CommitFails, Crash, LoseWork, txVars
<1>6. ASSUME NEW k \in Readers,
             \/ StartSync(k) \/ FinishSync(k) \/ ListingFails(k) \/ GiveUp(k)
             \/ \E m \in Messages : Deliver(k, m) \/ Fetch(k, m) \/ FetchFails(k, m)
      PROVE  UserInv(u)'
  BY <1>1, <1>6 DEF StartSync, FinishSync, ListingFails, GiveUp, Deliver, Fetch, FetchFails,
                    pipelineVars
<1>7. ASSUME NEW a \in Apps, Appear(a) \/ UpdateApplication(a) PROVE UserInv(u)'
  BY <1>1, <1>7 DEF Appear, CreateApplication, RecordApplication, UpdateApplication, txVars
<1>8. ASSUME Age \/ \E m \in Messages : Arrive(m) PROVE UserInv(u)'
  BY <1>1, <1>8 DEF Age, Arrive, pipelineVars
<1>9. CASE UNCHANGED vars
  BY <1>1, <1>9 DEF vars, pipelineVars
<1>10. Hooks \subseteq Readers /\ Syncs \subseteq Readers /\ Forwarded \subseteq Messages
  BY MailAssumption DEF Readers
<1> QED
  BY <1>3, <1>4, <1>5, <1>6, <1>7, <1>8, <1>9, <1>10 DEF Next

-----------------------------------------------------------------------------
\* LEMMA: a new row that cites a message is the work of a reader that logs it.
LEMMA NewRows ==
  ASSUME IntakeInv, [Next]_vars,
         NEW a \in Apps, NEW i \in 1..Len(history'[a]), history'[a][i].note # NoMessage
  PROVE  \/ i <= Len(history[a]) /\ history'[a][i] = history[a][i]
         \/ /\ i = Len(history[a]) + 1
            /\ \E k \in Readers : Committed(k, a) /\ Tells(k) /\ history'[a][i] = draft[k]
<1>1. /\ PipelineTypeOK /\ HistoryEndsAtStatus /\ PipelineTypeOK'
      /\ [PipelineNext]_pipelineVars
  BY PipelineStep, PipelineTypeStep DEF IntakeInv, PipelineInv, TypeInv, TypeOK
<1>2. Len(history[a]) \in Nat /\ history[a] \in Seq(Rows)
  BY <1>1, RowFacts DEF PipelineTypeOK
<1>3. CASE i <= Len(history[a])
  BY <1>1, <1>2, <1>3, HistoryGrows
<1>4. ASSUME NEW row \in Rows, history'[a] = Append(history[a], row), i > Len(history[a])
      PROVE  i = Len(history[a]) + 1 /\ history'[a][i] = row
  BY <1>2, <1>4, AppendFacts
<1>5. CASE i > Len(history[a]) /\ Created(a)
  <2>1. CreationRow \in Rows /\ CreationRow.note = NoMessage
    BY DEF CreationRow, Rows, Statuses
  <2> QED
    BY <1>4, <1>5, <2>1 DEF Created
<1>6. ASSUME NEW k \in Actors, Committed(k, a), i > Len(history[a])
      PROVE  i = Len(history[a]) + 1 /\ k \in Readers /\ Tells(k) /\ history'[a][i] = draft[k]
  <2>1. draft[k] \in Rows
    BY <1>1 DEF PipelineTypeOK
  <2>2. i = Len(history[a]) + 1 /\ history'[a][i] = draft[k]
    BY <1>4, <1>6, <2>1 DEF Committed
  <2>3. held[k] # NoApp
    BY <1>6, NoAppAssumption DEF Committed
  <2>4. k \in Readers
    BY <2>2, <2>3, Sessions DEF IntakeInv, UserInv
  <2>5. pc[k] = "move" /\ held'[k] = NoApp
    BY <1>6, <2>3, <2>4 DEF IntakeInv, ReaderInv, Committed
  <2>6. history' # history
    <3>1. Len(history'[a]) # Len(history[a])
      BY <1>2, <1>6, <2>1, AppendFacts DEF Committed
    <3> QED
      BY <3>1
  <2>7. Tells(k)
    BY <2>3, <2>4, <2>5, <2>6, ReaderMoves
       DEF ReaderMove, Stays, Leaves, Takes, Passes, Files, Drafts, Ends, AtRest
  <2> QED
    BY <2>2, <2>4, <2>7
<1>7. CASE history'[a] = history[a]
  BY <1>2, <1>7
<1> QED
  BY <1>1, <1>2, <1>3, <1>5, <1>6, <1>7, AppMoves DEF SameApp, Recorded

\* LEMMA: notifications, and the record of lost ones, only grow.
LEMMA NotesGrow ==
  ASSUME [Next]_vars
  PROVE  notes \subseteq notes' /\ unsent \subseteq unsent'
<1>1. ASSUME NEW k \in Readers, Handle(k)
      PROVE  notes \subseteq notes' /\ unsent \subseteq unsent'
  BY <1>1 DEF Handle, Check, MatchNone, MatchAndMove, MatchOnly, CommitLog, Move, Notify,
              File, tellVars
<1>2. ASSUME NEW k, Fail(k) \/ CommitFails(k) \/ Crash(k)
      PROVE  notes \subseteq notes' /\ unsent \subseteq unsent'
  BY <1>2 DEF Fail, CommitFails, Crash, LoseWork
<1>3. ASSUME NEW k, NEW m,
             \/ StartSync(k) \/ FinishSync(k) \/ ListingFails(k) \/ GiveUp(k)
             \/ Deliver(k, m) \/ Fetch(k, m) \/ FetchFails(k, m) \/ Arrive(m)
             \/ UNCHANGED intakeVars
      PROVE  notes \subseteq notes' /\ unsent \subseteq unsent'
  BY <1>3 DEF StartSync, FinishSync, ListingFails, GiveUp, Deliver, Fetch, FetchFails, Arrive,
              tellVars, intakeVars
<1>4. ASSUME Age PROVE notes \subseteq notes' /\ unsent \subseteq unsent'
  BY <1>4 DEF Age, tellVars
<1> QED
  BY <1>1, <1>2, <1>3, <1>4 DEF Next, User, vars

\* LEMMA: the log of a reader only grows, and it leaves "notify" with its duty done.
LEMMA DutiesKept ==
  ASSUME IntakeInv, [Next]_vars, NEW k \in Readers, NEW m \in Messages, logs[m][k] > 0
  PROVE  /\ logs'[m][k] > 0
         /\ pc[k] = "notify" /\ msg[k] = m =>
              \/ <<m, k>> \in notes' \cup unsent'
              \/ pc'[k] = "notify" /\ msg'[k] = m
<1>1. logs[m][k] \in Nat
  BY DEF IntakeInv, TypeInv, TypeOK
<1>2. ReaderMove(k)
  BY ReaderMoves
<1>3. logs'[m][k] > 0
  BY <1>1, <1>2 DEF ReaderMove, Stays, Leaves, Takes, Passes, Files, Drafts, Ends, Tells,
                    SameLogs, AddsLog
<1>4. ASSUME pc[k] = "notify", msg[k] = m
      PROVE  <<m, k>> \in notes' \cup unsent' \/ (pc'[k] = "notify" /\ msg'[k] = m)
  <2>1. Stays(k) \/ Leaves(k)
    BY <1>2, <1>4 DEF ReaderMove, Takes, Passes, Files, Drafts, Ends, Tells, AtRest
  <2> QED
    BY <1>4, <2>1 DEF Stays, Leaves
<1> QED
  BY <1>3, <1>4

\* LEMMA: what a reader is about to commit, it owes to the message in hand.
LEMMA CommitsOwnDraft ==
  ASSUME IntakeInv, NEW k \in Readers, pc[k] = "move"
  PROVE  /\ draft[k].by = k
         /\ draft[k].note = msg[k] /\ msg[k] \in Messages
         /\ SureDraft(k, draft[k].note, draft[k].new)
         /\ logs[msg[k]][k] = 0
<1>1. k \in Actors /\ held[k] # NoApp
  BY Sessions DEF IntakeInv, ReaderInv
<1>2. draft[k].by = k
  BY <1>1 DEF IntakeInv, PipelineInv, DraftsAreTrue, DraftTrue
<1> QED
  BY <1>2 DEF IntakeInv, ReaderInv, TypeInv, AtRest

\* LEMMA: every row that cites a message goes on owing what it owes.
LEMMA MailRowsStep ==
  ASSUME IntakeInv, [Next]_vars,
         NEW a \in Apps, NEW i \in 1..Len(history'[a]), NEW row,
         row = history'[a][i], row.note # NoMessage
  PROVE  MailRow(row)'
<1>1. CASE i <= Len(history[a]) /\ history'[a][i] = history[a][i]
  <2>1. i \in 1..Len(history[a])
    <3>1. Len(history[a]) \in Nat
      BY RowFacts DEF IntakeInv, TypeInv, TypeOK, PipelineTypeOK
    <3> QED
      BY <1>1, <3>1
  <2>2. MailRow(row)
    BY <1>1, <2>1 DEF IntakeInv
  <2> QED
    BY <2>2, DutiesKept, NotesGrow DEF MailRow, SureDraft
<1>2. ASSUME NEW k \in Readers, Tells(k), row = draft[k] PROVE MailRow(row)'
  <2>1. pc[k] = "move" /\ pc'[k] = "notify" /\ msg'[k] = msg[k] /\ AddsLog(k)
    BY <1>2 DEF Tells
  <2>2. /\ row.by = k /\ row.note = msg[k] /\ msg[k] \in Messages
        /\ SureDraft(k, row.note, row.new) /\ logs[msg[k]][k] = 0
    BY <1>2, <2>1, CommitsOwnDraft
  <2>3. logs'[msg[k]][k] = 1
    BY <2>1, <2>2 DEF AddsLog
  <2> QED
    BY <2>1, <2>2, <2>3 DEF MailRow, SureDraft
<1> QED
  BY <1>1, <1>2, NewRows

\* LEMMA: no two rows come to cite one message in the name of one reader.
LEMMA RowsStayUnique ==
  ASSUME IntakeInv, [Next]_vars,
         NEW a \in Apps, NEW i \in 1..Len(history'[a]),
         NEW b \in Apps, NEW j \in 1..Len(history'[b]),
         history'[a][i].note # NoMessage,
         history'[a][i].note = history'[b][j].note,
         history'[a][i].by = history'[b][j].by
  PROVE  a = b /\ i = j
<1> DEFINE Old(c, n) == n <= Len(history[c]) /\ history'[c][n] = history[c][n]
           New(c, n, k) == /\ n = Len(history[c]) + 1
                           /\ Committed(k, c) /\ Tells(k) /\ history'[c][n] = draft[k]
<1>1. /\ Old(a, i) \/ \E k \in Readers : New(a, i, k)
      /\ Old(b, j) \/ \E k \in Readers : New(b, j, k)
  BY NewRows
<1>2. ASSUME NEW c \in Apps, NEW n \in 1..Len(history'[c]), Old(c, n)
      PROVE  n \in 1..Len(history[c])
  <2>1. Len(history[c]) \in Nat
    BY RowFacts DEF IntakeInv, TypeInv, TypeOK, PipelineTypeOK
  <2> QED
    BY <1>2, <2>1
<1>3. CASE Old(a, i) /\ Old(b, j)
  BY <1>2, <1>3 DEF IntakeInv, HandledOncePerReader
<1>4. ASSUME NEW k \in Readers, NEW c \in Apps, NEW n \in 1..Len(history'[c]), New(c, n, k)
      PROVE  /\ held[k] = c /\ n = Len(history[c]) + 1
             /\ history'[c][n].by = k
             /\ history'[c][n].note = msg[k] /\ logs[msg[k]][k] = 0
  BY <1>4, CommitsOwnDraft DEF Tells, Committed
<1>5. ASSUME NEW k \in Readers, NEW c \in Apps, NEW n \in 1..Len(history'[c]), Old(c, n),
             history'[c][n].note = msg[k], history'[c][n].by = k, logs[msg[k]][k] = 0,
             msg[k] # NoMessage
      PROVE  FALSE
  <2>1. n \in 1..Len(history[c]) /\ history[c][n] = history'[c][n]
    BY <1>2, <1>5
  <2>2. history[c][n].note = msg[k] /\ history[c][n].by = k
    BY <1>5, <2>1
  <2>3. MailRow(history[c][n])
    BY <1>5, <2>1, <2>2 DEF IntakeInv
  <2>4. logs[msg[k]][k] > 0
    BY <2>2, <2>3 DEF MailRow
  <2> QED
    BY <1>5, <2>4
<1>6. ASSUME NEW k \in Readers, New(a, i, k) PROVE a = b /\ i = j
  <2>1. /\ held[k] = a /\ i = Len(history[a]) + 1
        /\ history'[a][i].by = k /\ history'[a][i].note = msg[k] /\ logs[msg[k]][k] = 0
    BY <1>4, <1>6
  <2>2. ~Old(b, j)
    BY <1>5, <2>1
  <2>3. PICK l \in Readers : New(b, j, l)
    BY <1>1, <2>2
  <2>4. held[l] = b /\ j = Len(history[b]) + 1 /\ history'[b][j].by = l
    BY <1>4, <2>3
  <2> QED
    BY <2>1, <2>4
<1>7. ASSUME NEW k \in Readers, New(b, j, k), Old(a, i) PROVE FALSE
  <2>1. /\ history'[b][j].by = k /\ history'[b][j].note = msg[k] /\ logs[msg[k]][k] = 0
    BY <1>4, <1>7
  <2> QED
    BY <1>5, <1>7, <2>1
<1> QED
  BY <1>1, <1>3, <1>6, <1>7

\* LEMMA: IntakeInv holds at the start.
LEMMA IntakeInit == Init => IntakeInv
<1> SUFFICES ASSUME Init PROVE IntakeInv
  OBVIOUS
<1>1. TypeInv /\ PipelineInv /\ Readers \subseteq Actors /\ Users \subseteq Actors
  BY TypeInit, PipelineInvInit, Sessions DEF Init
<1>2. /\ \A m \in Messages, k \in Readers : logs[m][k] = 0
      /\ \A k \in Readers : pc[k] = "idle"
      /\ \A k \in Actors : held[k] = NoApp
  BY DEF Init, PipelineInit
<1>3. \A a \in Apps : \A i \in 1..Len(history[a]) : FALSE
  <2>1. \A a \in Apps : history[a] = <<>>
    BY DEF Init, PipelineInit
  <2> QED
    BY <2>1
<1>4. \A k \in Readers : ReaderInv(k)
  BY <1>1, <1>2 DEF ReaderInv
<1>5. \A k \in Users : UserInv(k)
  BY <1>1, <1>2 DEF UserInv
<1>6. HandledOncePerReader
  BY <1>2, <1>3 DEF HandledOncePerReader
<1> QED
  BY <1>1, <1>3, <1>4, <1>5, <1>6 DEF IntakeInv

\* LEMMA: every step preserves IntakeInv.
LEMMA IntakeStep == IntakeInv /\ [Next]_vars => IntakeInv'
<1> SUFFICES ASSUME IntakeInv, [Next]_vars PROVE IntakeInv'
  OBVIOUS
<1>1. TypeInv' /\ PipelineInv'
  BY TypeStep, PipelineStep, PipelineInvStep DEF IntakeInv
<1>2. /\ \A k \in Readers : ReaderInv(k)'
      /\ \A k \in Users : UserInv(k)'
  BY ReaderStep, UserStep
<1>3. \A a \in Apps : \A i \in 1..Len(history'[a]) :
         history'[a][i].note # NoMessage => MailRow(history[a][i])'
  <2> SUFFICES ASSUME NEW a \in Apps, NEW i \in 1..Len(history'[a]),
                      history'[a][i].note # NoMessage
               PROVE  MailRow(history[a][i])'
    OBVIOUS
  <2>1. PICK row : row = history'[a][i]
    OBVIOUS
  <2>2. MailRow(row)'
    BY <2>1, MailRowsStep
  <2> QED
    BY <2>1, <2>2 DEF MailRow, SureDraft
<1>4. HandledOncePerReader'
  BY <1>2, RowsStayUnique DEF HandledOncePerReader, ReaderInv
<1> QED
  BY <1>1, <1>2, <1>3, <1>4 DEF IntakeInv

(***************************************************************************)
(* However often a message is delivered and whatever fails in between, a    *)
(* reader logs it at most once and moves at most one application for it.    *)
(***************************************************************************)
THEOREM HandledOnce == Spec => []HandledOncePerReader
<1>1. IntakeInv => HandledOncePerReader
  BY DEF IntakeInv
<1> QED
  BY IntakeInit, IntakeStep, <1>1, PTL DEF Spec

(***************************************************************************)
(* Every change made by mail is in the log, and its notification is there,  *)
(* on its way, or was lost with a failure after the change.                 *)
(***************************************************************************)
THEOREM MovesTold == Spec => []MovesAreTold
<1>1. IntakeInv => MovesAreTold
  BY DEF IntakeInv, MailRow, MovesAreTold
<1> QED
  BY IntakeInit, IntakeStep, <1>1, PTL DEF Spec

(***************************************************************************)
(* The two together: every piece of mail is accounted for.                  *)
(***************************************************************************)
THEOREM MailStaysAccounted == Spec => []MailIsAccounted
  BY HandledOnce, MovesTold, PTL DEF MailIsAccounted

(***************************************************************************)
(* No Gmail message of low confidence ever changes a status.                *)
(***************************************************************************)
THEOREM GmailSure == Spec => []GmailMovesOnlyWhenSure
<1>1. IntakeInv => GmailMovesOnlyWhenSure
  BY DEF IntakeInv, MailRow, SureDraft, GmailMovesOnlyWhenSure
<1> QED
  BY IntakeInit, IntakeStep, <1>1, PTL DEF Spec

-----------------------------------------------------------------------------
(***************************************************************************)
(* What a sync of the integration knows, whatever others do: without a      *)
(* failure of its own, every message it listed is ahead, in hand or logged. *)
(***************************************************************************)
Covered(k, m) == m \in todo[k] \/ Logged(m) \/ (pc[k] \notin AtRest /\ msg[k] = m)
SyncInv(k) ==
  /\ pc[k] \notin {"idle", "broken"} /\ failed[k] = 0 => \A m \in listed[k] : Covered(k, m)
  /\ \A m \in Messages : pc[k] = "notify" /\ msg[k] = m => Logged(m)
ReadInv == (\A k \in Syncs : SyncInv(k)) /\ HealthyMeansRead

\* LEMMA: what is logged stays logged.
LEMMA LoggedStays ==
  ASSUME IntakeInv, [Next]_vars, NEW m \in Messages, Logged(m)
  PROVE  Logged(m)'
BY DutiesKept DEF Logged

\* LEMMA: no step, of the sync itself or of another session, loses a message it listed.
LEMMA SyncStep ==
  ASSUME IntakeInv, [Next]_vars, NEW g \in Syncs, SyncInv(g)
  PROVE  SyncInv(g)'
<1>0. /\ g \in Readers /\ g \notin Hooks
      /\ pc \in [Readers -> {"idle", "next", "check", "match", "log", "move", "file",
                             "notify", "broken"}]
      /\ msg \in [Readers -> Messages \cup {NoMessage}]
      /\ \A k \in Readers : pc[k] \notin AtRest => msg[k] \in Messages
      /\ todo \in [Syncs -> SUBSET Messages]
      /\ listed \in [Syncs -> SUBSET Messages]
      /\ failed \in [Syncs -> Nat]
      /\ logs \in [Messages -> [Readers -> Nat]]
      /\ Hooks \subseteq Readers /\ Syncs \subseteq Readers
  BY ReadersAssumption DEF IntakeInv, TypeInv, TypeOK, Readers
<1>1. \A m \in Messages : Logged(m) => Logged(m)'
  BY LoggedStays
\* Where the sync and its listing stay as they are, what it knows stays true.
<1>2. ASSUME todo'[g] = todo[g], listed'[g] = listed[g], failed'[g] = failed[g],
             pc'[g] = pc[g], msg'[g] = msg[g]
      PROVE  SyncInv(g)'
  <2>1. \A m \in Messages : Covered(g, m) => Covered(g, m)'
    BY <1>1, <1>2 DEF Covered
  <2>2. \A m \in Messages : pc'[g] = "notify" /\ msg'[g] = m => Logged(m)'
    BY <1>1, <1>2 DEF SyncInv
  <2>3. pc[g] \notin {"idle", "broken"} /\ failed[g] = 0
          => \A m \in listed[g] : Covered(g, m)'
    BY <1>0, <2>1 DEF SyncInv
  <2> QED
    BY <1>2, <2>2, <2>3 DEF SyncInv
\* The sync goes on and loses no message.
<1>3. ASSUME UNCHANGED <<listed, failed>>, pc[g] \notin {"idle", "broken"},
             \A m \in Messages : Covered(g, m) => Covered(g, m)',
             \A m \in Messages : pc'[g] = "notify" /\ msg'[g] = m => Logged(m)'
      PROVE  SyncInv(g)'
  <2>1. failed[g] = 0 => \A m \in listed[g] : Covered(g, m)'
    BY <1>0, <1>3 DEF SyncInv
  <2> QED
    BY <1>3, <2>1 DEF SyncInv
<1>4. ASSUME NEW k \in Readers, EndMessage(k), k = g
      PROVE  pc'[g] = "next" /\ msg'[g] = NoMessage
  BY <1>0, <1>4 DEF EndMessage, Goto
<1>5. ASSUME NEW k \in Readers, EndMessage(k), k # g
      PROVE  pc'[g] = pc[g] /\ msg'[g] = msg[g]
  BY <1>0, <1>5 DEF EndMessage, Goto
\* The message in hand is dealt with when the log has it.
<1>6. ASSUME UNCHANGED <<todo, listed, failed>>, EndMessage(g), pc[g] \notin {"idle", "broken"},
             \A m \in Messages : msg[g] = m => Logged(m)'
      PROVE  SyncInv(g)'
  <2>1. pc'[g] = "next"
    BY <1>0, <1>4, <1>6
  <2>2. \A m \in Messages : Covered(g, m) => Covered(g, m)'
    BY <1>1, <1>6 DEF Covered
  <2> QED
    BY <1>3, <1>6, <2>1, <2>2
<1>7. ASSUME NEW k \in Readers, AddLog(k), pc[k] \notin AtRest
      PROVE  \A m \in Messages : msg[k] = m => Logged(m)'
  <2> SUFFICES ASSUME NEW m \in Messages, msg[k] = m PROVE Logged(m)'
    OBVIOUS
  <2>1. AddsLog(k) /\ logs[m][k] \in Nat
    BY <1>0, <1>7, LogFacts DEF IntakeInv
  <2>2. logs'[m][k] > 0
    BY <2>1 DEF AddsLog
  <2> QED
    BY <2>2 DEF Logged
\* What the steps of other sessions leave alone, those of other syncs among them.
<1>8. ASSUME NEW k \in Readers, k # g, Handle(k) PROVE SyncInv(g)'
  <2>1. pc'[g] = pc[g] /\ msg'[g] = msg[g]
    BY <1>0, <1>5, <1>8 DEF Handle, Check, MatchNone, MatchAndMove, MatchOnly, CommitLog, Move,
                            Notify, File, Goto
  <2>2. UNCHANGED <<todo, listed, failed>>
    BY <1>8 DEF Handle, Check, MatchNone, MatchAndMove, MatchOnly, CommitLog, Move,
                Notify, File, syncVars
  <2> QED
    BY <1>2, <2>1, <2>2
<1>9. ASSUME NEW k \in Readers, k # g, Fail(k) \/ CommitFails(k) PROVE SyncInv(g)'
  BY <1>0, <1>2, <1>9 DEF Fail, CommitFails, Goto, syncVars
<1>10. ASSUME NEW k \in Syncs, k # g, StartSync(k) \/ FinishSync(k) \/ Crash(k) \/ GiveUp(k)
       PROVE  SyncInv(g)'
  BY <1>0, <1>2, <1>10 DEF StartSync, FinishSync, Crash, GiveUp, ForgetSync, Goto
<1>28. ASSUME NEW k \in Syncs, ListingFails(k) PROVE SyncInv(g)'
  BY <1>2, <1>28 DEF ListingFails, syncVars
<1>11. ASSUME NEW k \in Syncs, k # g, NEW m \in Messages, Fetch(k, m) \/ FetchFails(k, m)
       PROVE  SyncInv(g)'
  BY <1>0, <1>2, <1>11 DEF Fetch, FetchFails, Goto
<1>12. ASSUME NEW k \in Hooks, NEW m \in Messages, Deliver(k, m) PROVE SyncInv(g)'
  <2>1. k \in Readers /\ k # g
    BY <1>0
  <2> QED
    BY <1>0, <1>2, <1>12, <2>1 DEF Deliver, Goto, syncVars
<1>13. ASSUME Age \/ \E m \in Messages : Arrive(m) PROVE SyncInv(g)'
  BY <1>2, <1>13 DEF Age, Arrive, syncVars
<1>14. CASE UNCHANGED intakeVars
  BY <1>2, <1>14 DEF intakeVars
\* The steps of the sync with a message.
<1>15. CASE Check(g)
  <2>1. UNCHANGED <<todo, listed, failed>> /\ pc[g] = "check"
    BY <1>15 DEF Check, syncVars
  <2>2. CASE Logged(msg[g])
    BY <1>1, <1>6, <1>15, <2>1, <2>2 DEF Check
  <2>3. CASE ~Logged(msg[g])
    <3>1. msg' = msg /\ pc'[g] \in {"log", "match"}
      BY <1>0, <1>15, <2>3 DEF Check, Goto
    <3>2. \A m \in Messages : Covered(g, m) => Covered(g, m)'
      BY <1>1, <2>1, <3>1 DEF Covered, AtRest
    <3> QED
      BY <1>3, <2>1, <3>1, <3>2
  <2> QED
    BY <2>2, <2>3
<1>16. CASE MatchNone(g) \/ \E a \in Apps : MatchAndMove(g, a) \/ MatchOnly(g, a)
  <2>1. /\ UNCHANGED <<msg, todo, listed, failed>>
        /\ pc[g] = "match" /\ pc'[g] \in {"log", "move", "file"}
    BY <1>0, <1>16 DEF MatchNone, MatchAndMove, MatchOnly, Goto, syncVars
  <2>2. \A m \in Messages : Covered(g, m) => Covered(g, m)'
    BY <1>1, <2>1 DEF Covered, AtRest
  <2> QED
    BY <1>3, <2>1, <2>2
<1>17. CASE CommitLog(g) \/ File(g)
  BY <1>0, <1>6, <1>7, <1>17 DEF CommitLog, File, syncVars, AtRest
<1>18. CASE Move(g)
  <2>1. /\ UNCHANGED <<msg, todo, listed, failed>>
        /\ pc[g] = "move" /\ pc'[g] = "notify"
    BY <1>0, <1>18 DEF Move, Goto, syncVars
  <2>2. \A m \in Messages : msg[g] = m => Logged(m)'
    BY <1>0, <1>7, <1>18, <2>1 DEF Move, AtRest
  <2>3. \A m \in Messages : Covered(g, m) => Covered(g, m)'
    BY <1>1, <2>1 DEF Covered, AtRest
  <2> QED
    BY <1>3, <2>1, <2>2, <2>3
<1>19. CASE Notify(g)
  BY <1>1, <1>6, <1>19 DEF Notify, SyncInv, syncVars
<1>20. CASE \E m \in Messages : Fetch(g, m)
  <2>1. PICK m \in Messages : Fetch(g, m)
    BY <1>20
  <2>2. /\ UNCHANGED <<listed, failed>>
        /\ pc[g] = "next" /\ pc'[g] = "check"
        /\ todo'[g] = todo[g] \ {m} /\ msg'[g] = m
    BY <1>0, <2>1 DEF Fetch, Goto
  <2>3. \A n \in Messages : Covered(g, n) => Covered(g, n)'
    BY <1>1, <2>2 DEF Covered, AtRest
  <2> QED
    BY <1>3, <2>2, <2>3
\* A message that is not handed out is counted; any other failure breaks the sync.
<1>21. CASE \E m \in Messages : FetchFails(g, m)
  <2>1. pc'[g] = "next" /\ failed'[g] = failed[g] + 1
    BY <1>0, <1>21 DEF FetchFails, tellVars
  <2>2. failed'[g] # 0
    BY <1>0, <2>1
  <2> QED
    BY <2>1, <2>2 DEF SyncInv
<1>29. CASE Fail(g) \/ CommitFails(g)
  <2>1. pc'[g] = "broken"
    BY <1>0, <1>29 DEF Fail, CommitFails, Goto
  <2> QED
    BY <2>1 DEF SyncInv
\* The steps that begin and end a sync.
<1>22. CASE StartSync(g)
  <2>1. pc'[g] = "next" /\ todo'[g] = listed'[g]
    BY <1>0, <1>22 DEF StartSync, Goto
  <2> QED
    BY <2>1 DEF SyncInv, Covered
<1>23. CASE FinishSync(g) \/ Crash(g) \/ GiveUp(g)
  <2>1. pc'[g] = "idle"
    BY <1>0, <1>23 DEF FinishSync, Crash, GiveUp, Goto
  <2> QED
    BY <2>1 DEF SyncInv
<1>24. ASSUME NEW k \in Readers, Handle(k) PROVE SyncInv(g)'
  <2>1. CASE k = g
    BY <1>15, <1>16, <1>17, <1>18, <1>19, <1>24, <2>1 DEF Handle
  <2> QED
    BY <1>8, <1>24, <2>1
<1>25. ASSUME NEW k \in Readers, Fail(k) \/ CommitFails(k) PROVE SyncInv(g)'
  BY <1>9, <1>25, <1>29
<1>26. CASE UNCHANGED vars
  BY <1>14, <1>26 DEF vars
<1>27. Forwarded \subseteq Messages
  BY MailAssumption
<1> QED
  BY <1>10, <1>11, <1>12, <1>13, <1>14, <1>20, <1>21, <1>22, <1>23, <1>24, <1>25, <1>26,
     <1>27, <1>28, <1>0 DEF Next, User

\* LEMMA: only the start of a sync, its failures and its end touch the integration.
LEMMA MailKept ==
  ASSUME [Next]_vars
  PROVE  \/ UNCHANGED <<lastError, lastList, masked>>
         \/ \E k \in Syncs : FinishSync(k) \/ ListingFails(k) \/ GiveUp(k)
<1>1. ASSUME NEW k, Handle(k) \/ Fail(k) \/ CommitFails(k) \/ Crash(k)
      PROVE  UNCHANGED <<lastError, lastList, masked>>
  BY <1>1 DEF Handle, Check, MatchNone, MatchAndMove, MatchOnly, CommitLog, Move, Notify, File,
              Fail, CommitFails, Crash, mailVars
<1>2. ASSUME NEW k, NEW m, Deliver(k, m) \/ Fetch(k, m) \/ FetchFails(k, m) \/ StartSync(k) \/ Arrive(m)
      PROVE  UNCHANGED <<lastError, lastList, masked>>
  BY <1>2 DEF Deliver, Fetch, FetchFails, StartSync, Arrive, mailVars
<1>3. ASSUME UNCHANGED intakeVars \/ UNCHANGED vars PROVE UNCHANGED <<lastError, lastList, masked>>
  BY <1>3 DEF intakeVars, vars
<1>4. ASSUME Age \/ \E k \in Syncs : StartSync(k) PROVE UNCHANGED <<lastError, lastList, masked>>
  BY <1>4 DEF Age, StartSync, mailVars
<1> QED
  BY <1>1, <1>2, <1>3, <1>4 DEF Next, User

(***************************************************************************)
(* However many syncs of an integration overlap and whatever fails, one     *)
(* without an error has the last finished listing in the log, unless the    *)
(* sync that finished left its outcome out of the row because it equals the *)
(* one it had loaded.                                                       *)
(***************************************************************************)
THEOREM HealthyIntegrationsHaveRead == Spec => []HealthyMeansRead
<1>1. Init => ReadInv
  BY DEF Init, ReadInv, SyncInv, HealthyMeansRead, Readers
<1>2. IntakeInv /\ ReadInv /\ [Next]_vars => ReadInv'
  <2> SUFFICES ASSUME IntakeInv, ReadInv, [Next]_vars PROVE ReadInv'
    OBVIOUS
  <2>0. /\ lastList \subseteq Messages
        /\ listed \in [Syncs -> SUBSET Messages]
    BY DEF IntakeInv, TypeInv, TypeOK
  <2>1. \A k \in Syncs : SyncInv(k)'
    BY SyncStep DEF ReadInv
  <2>2. \A m \in Messages : Logged(m) => Logged(m)'
    BY LoggedStays
  <2>3. CASE UNCHANGED <<lastError, lastList, masked>>
    BY <2>0, <2>1, <2>2, <2>3 DEF ReadInv, HealthyMeansRead
  <2>4. ASSUME NEW k \in Syncs, ListingFails(k) PROVE HealthyMeansRead'
    BY <2>4 DEF ListingFails, HealthyMeansRead, Broken, NoError
  <2>6. ASSUME NEW k \in Syncs, GiveUp(k) PROVE HealthyMeansRead'
    <3>1. lastError' \in {lastError, Broken} /\ UNCHANGED <<lastList, masked>>
      BY <2>6 DEF GiveUp
    <3> QED
      BY <2>0, <2>2, <3>1 DEF ReadInv, HealthyMeansRead, Broken, NoError
  \* A sync that writes no error, or had loaded none, has failed with no message.
  <2>5. ASSUME NEW k \in Syncs, FinishSync(k) PROVE HealthyMeansRead'
    <3>1. /\ pc[k] = "next" /\ todo[k] = {} /\ lastList' = listed[k]
          /\ lastError' = IF Outcome(k) = readError[k] THEN lastError ELSE Outcome(k)
          /\ masked' = (Outcome(k) = readError[k] /\ lastError # readError[k])
      BY <2>5 DEF FinishSync
    <3>2. lastError' = NoError /\ ~masked' => Outcome(k) = NoError
      BY <3>1
    <3>3. Outcome(k) = NoError => failed[k] = 0
      BY DEF Outcome, Partial, NoError
    <3>4. failed[k] = 0 => \A m \in listed[k] : Logged(m)'
      BY <2>0, <2>2, <3>1 DEF ReadInv, SyncInv, Covered, AtRest
    <3> QED
      BY <3>1, <3>2, <3>3, <3>4 DEF HealthyMeansRead
  <2> QED
    BY <2>1, <2>3, <2>4, <2>5, <2>6, MailKept DEF ReadInv
<1>3. ReadInv => HealthyMeansRead
  BY DEF ReadInv
<1> QED
  BY IntakeInit, IntakeStep, <1>1, <1>2, <1>3, PTL DEF Spec

(***************************************************************************)
(* A sync that overlaps no other leaves nothing out: the error it has       *)
(* loaded is the one in the row.                                            *)
(***************************************************************************)
LoadedInv(k) ==
  /\ pc[k] # "idle" => readError[k] = lastError
  /\ ~masked

\* LEMMA: with one sync, what it loaded is not changed under it.
LEMMA LoadedStep ==
  ASSUME IntakeInv, [Next]_vars, NEW g, Syncs = {g}, LoadedInv(g)
  PROVE  LoadedInv(g)'
<1>0. /\ g \in Syncs /\ g \in Readers /\ g \notin Hooks
      /\ pc \in [Readers -> {"idle", "next", "check", "match", "log", "move", "file",
                             "notify", "broken"}]
      /\ readError \in [Syncs -> Errors]
      /\ masked \in BOOLEAN
  BY ReadersAssumption DEF IntakeInv, TypeInv, TypeOK, Readers
<1>1. ASSUME UNCHANGED <<readError, lastError, masked>>, pc'[g] = pc[g] \/ pc[g] # "idle"
      PROVE  LoadedInv(g)'
  BY <1>1 DEF LoadedInv
<1>2. ASSUME NEW k \in Readers, Handle(k) PROVE LoadedInv(g)'
  <2>1. UNCHANGED <<readError, lastError, masked>>
    BY <1>2 DEF Handle, Check, MatchNone, MatchAndMove, MatchOnly, CommitLog, Move, Notify, File,
                syncVars, mailVars
  <2>2. k = g => pc[g] # "idle"
    BY <1>2 DEF Handle, Check, MatchNone, MatchAndMove, MatchOnly, CommitLog, Move, Notify, File
  <2>3. k # g => pc'[g] = pc[g]
    BY <1>0, <1>2 DEF Handle, Check, MatchNone, MatchAndMove, MatchOnly, CommitLog, Move, Notify,
                      File, EndMessage, Goto
  <2> QED
    BY <1>1, <2>1, <2>2, <2>3
<1>3. ASSUME NEW k \in Readers, Fail(k) \/ CommitFails(k) PROVE LoadedInv(g)'
  <2>1. UNCHANGED <<readError, lastError, masked>> /\ pc[k] # "idle"
    BY <1>3 DEF Fail, CommitFails, syncVars, mailVars
  <2>2. k # g => pc'[g] = pc[g]
    BY <1>0, <1>3 DEF Fail, CommitFails, Goto
  <2> QED
    BY <1>1, <2>1, <2>2
<1>4. ASSUME NEW k \in Hooks, NEW m, Deliver(k, m) PROVE LoadedInv(g)'
  BY <1>0, <1>1, <1>4 DEF Deliver, Goto, syncVars, mailVars
<1>5. ASSUME Age \/ \E m \in Messages : Arrive(m) PROVE LoadedInv(g)'
  BY <1>1, <1>5 DEF Age, Arrive, syncVars
<1>6. CASE UNCHANGED intakeVars \/ UNCHANGED vars
  BY <1>1, <1>6 DEF intakeVars, vars
<1>7. ASSUME NEW m, Fetch(g, m) \/ FetchFails(g, m) PROVE LoadedInv(g)'
  BY <1>1, <1>7 DEF Fetch, FetchFails, mailVars
<1>8. CASE StartSync(g)
  BY <1>0, <1>8 DEF StartSync, mailVars, LoadedInv
<1>9. CASE Crash(g) \/ GiveUp(g) \/ ListingFails(g)
  <2>1. pc'[g] = "idle" /\ UNCHANGED masked
    BY <1>0, <1>9 DEF Crash, GiveUp, ListingFails, Goto, mailVars
  <2> QED
    BY <2>1 DEF LoadedInv
<1>10. CASE FinishSync(g)
  <2>1. /\ pc[g] = "next" /\ pc'[g] = "idle"
        /\ masked' = (Outcome(g) = readError[g] /\ lastError # readError[g])
    BY <1>0, <1>10 DEF FinishSync, Goto
  <2> QED
    BY <2>1 DEF LoadedInv
<1> QED
  BY <1>0, <1>2, <1>3, <1>4, <1>5, <1>6, <1>7, <1>8, <1>9, <1>10 DEF Next, User

(***************************************************************************)
(* As long as the syncs of an integration do not overlap, an integration    *)
(* without an error has its last listing in the log, whatever fails.        *)
(***************************************************************************)
THEOREM HealthyWhenAlone ==
  ASSUME NEW g, Syncs = {g}
  PROVE  Spec => [](lastError = NoError => \A m \in lastList : Logged(m))
<1>1. Init => LoadedInv(g)
  <2>1. g \in Readers
    BY DEF Readers
  <2> QED
    BY <2>1 DEF Init, LoadedInv
<1>2. IntakeInv /\ LoadedInv(g) /\ [Next]_vars => LoadedInv(g)'
  BY LoadedStep
<1>3. LoadedInv(g) /\ HealthyMeansRead => (lastError = NoError => \A m \in lastList : Logged(m))
  BY DEF LoadedInv, HealthyMeansRead
<1> QED
  BY IntakeInit, IntakeStep, HealthyIntegrationsHaveRead, <1>1, <1>2, <1>3, PTL DEF Spec
=============================================================================

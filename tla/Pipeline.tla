------------------------------ MODULE Pipeline ------------------------------
(***************************************************************************)
(* The applications of one user and their status history                   *)
(* (PipelineService).  A status change is a transaction without a lock or a *)
(* version: it reads the application, validates the change against what it  *)
(* read, and commits the new status together with a history row.  Any       *)
(* number of other transactions may commit in between.                      *)
(*                                                                          *)
(* Two fields of a row are history variables of the specification: by, the  *)
(* actor that wrote it, and seen, the length of the history when the actor  *)
(* read the application.                                                    *)
(***************************************************************************)
EXTENDS Naturals, Sequences

CONSTANTS
  Apps,      \* identities of the applications there may be
  NoApp,     \* an actor that holds no application
  Actors,    \* the sessions that change applications
  Nobody,    \* the author of the row that creates an application
  Messages,  \* the messages a row's note may cite
  NoMessage

ASSUME NoAppAssumption == NoApp \notin Apps
ASSUME NobodyAssumption == Nobody \notin Actors
ASSUME NoMessageAssumption == NoMessage \notin Messages

VARIABLES
  status,  \* Application.status, Absent before there is one
  source,  \* Application.source
  stamps,  \* which of applied_at, offer_at and rejected_at are set
  history, \* ApplicationStatusHistory rows, in the order of their commits
  newer,   \* the pairs <<a, b>> with a.updated_at after b.updated_at
  held,    \* the application an actor has read and is about to change
  draft    \* the history row it is going to commit

appVars == <<status, source, stamps, history, newer>>
txVars == <<held, draft>>
pipelineVars == <<status, source, stamps, history, newer, held, draft>>

Statuses == {"saved", "applied", "screening", "interviewing", "offer",
             "rejected", "withdrawn", "accepted"}
Absent == "absent"
Stamps == {"applied", "offer", "rejected"}

VALID_TRANSITIONS ==
  [saved        |-> {"applied", "withdrawn"},
   applied      |-> {"screening", "interviewing", "rejected", "withdrawn"},
   screening    |-> {"interviewing", "rejected", "withdrawn"},
   interviewing |-> {"offer", "rejected", "withdrawn"},
   offer        |-> {"accepted", "rejected", "withdrawn"},
   accepted     |-> {},
   rejected     |-> {"saved"},
   withdrawn    |-> {"saved"}]

Rows == [old : Statuses \cup {Absent}, new : Statuses, by : Actors \cup {Nobody},
         seen : Nat, note : Messages \cup {NoMessage}]
CreationRow == [old |-> Absent, new |-> "saved", by |-> Nobody, seen |-> 0,
                note |-> NoMessage]

PipelineTypeOK ==
  /\ status \in [Apps -> Statuses \cup {Absent}]
  /\ source \in [Apps -> {"none", "manual", "auto_apply"}]
  /\ stamps \in [Apps -> SUBSET Stamps]
  /\ history \in [Apps -> Seq(Rows)]
  /\ newer \subseteq Apps \X Apps
  /\ held \in [Actors -> Apps \cup {NoApp}]
  /\ draft \in [Actors -> Rows]

PipelineInit ==
  /\ status = [a \in Apps |-> Absent]
  /\ source = [a \in Apps |-> "none"]
  /\ stamps = [a \in Apps |-> {}]
  /\ history = [a \in Apps |-> <<>>]
  /\ newer = {}
  /\ held = [k \in Actors |-> NoApp]
  /\ draft = [k \in Actors |-> CreationRow]

\* updated_at of a is set to now.
Touch(a) ==
  newer' = {p \in newer : p[2] # a}
           \cup {<<a, b>> : b \in {c \in Apps \ {a} : status[c] # Absent}}

-----------------------------------------------------------------------------
(***************************************************************************)
(* An application appears: a user creates it, or auto-apply records one it  *)
(* has submitted, "applied" from the start and without a history row.       *)
(***************************************************************************)
CreateApplication(a) ==
  /\ status[a] = Absent
  /\ status' = [status EXCEPT ![a] = "saved"]
  /\ source' = [source EXCEPT ![a] = "manual"]
  /\ history' = [history EXCEPT ![a] = Append(@, CreationRow)]
  /\ Touch(a)
  /\ UNCHANGED <<stamps, txVars>>

RecordApplication_unstamped(a) ==
  /\ status[a] = Absent
  /\ status' = [status EXCEPT ![a] = "applied"]
  /\ source' = [source EXCEPT ![a] = "auto_apply"]
  /\ Touch(a)
  /\ UNCHANGED <<stamps, history, txVars>>
RecordApplication(a) ==
  /\ status[a] = Absent
  /\ status' = [status EXCEPT ![a] = "applied"]
  /\ source' = [source EXCEPT ![a] = "auto_apply"]
  /\ stamps' = [stamps EXCEPT ![a] = {"applied"}]
  /\ Touch(a)
  /\ UNCHANGED <<history, txVars>>

\* Fields other than the status, and updated_at, change.
UpdateApplication(a) ==
  /\ status[a] # Absent
  /\ Touch(a)
  /\ UNCHANGED <<status, source, stamps, history, txVars>>

(***************************************************************************)
(* The first half of transition_status: the status read allows the new one. *)
(***************************************************************************)
ReadStatus(k, a, new, note) ==
  /\ held[k] = NoApp
  /\ status[a] # Absent
  /\ new \in VALID_TRANSITIONS[status[a]]
  /\ held' = [held EXCEPT ![k] = a]
  /\ draft' = [draft EXCEPT ![k] = [old |-> status[a], new |-> new, by |-> k,
                                    seen |-> Len(history[a]), note |-> note]]
  /\ UNCHANGED appVars

Release(k) ==
  /\ held' = [held EXCEPT ![k] = NoApp]
  /\ draft' = [draft EXCEPT ![k] = CreationRow]

StampOf_any(new) == {new}
StampOf(new) == {new} \cap Stamps

CommitStatus_rowless(k) ==
  LET a == held[k] IN
  /\ a # NoApp
  /\ status' = [status EXCEPT ![a] = draft[k].new]
  /\ stamps' = [stamps EXCEPT ![a] = @ \cup StampOf(draft[k].new)]
  /\ Touch(a)
  /\ Release(k)
  /\ UNCHANGED <<source, history>>
(***************************************************************************)
(* The second half: the UPDATE of what changed and the INSERT of the row    *)
(* commit together, whatever the status has become since it was read.       *)
(***************************************************************************)
CommitStatus_latest(k) ==
  LET a == held[k]
      row == [draft[k] EXCEPT !.old = status[a]] IN
  /\ a # NoApp
  /\ status' = [status EXCEPT ![a] = row.new]
  /\ stamps' = [stamps EXCEPT ![a] = @ \cup StampOf(row.new)]
  /\ history' = [history EXCEPT ![a] = Append(@, row)]
  /\ Touch(a)
  /\ Release(k)
  /\ UNCHANGED source
CommitStatus(k) ==
  LET a == held[k] IN
  /\ a # NoApp
  /\ status' = [status EXCEPT ![a] = draft[k].new]
  /\ stamps' = [stamps EXCEPT ![a] = @ \cup StampOf(draft[k].new)]
  /\ history' = [history EXCEPT ![a] = Append(@, draft[k])]
  /\ Touch(a)
  /\ Release(k)
  /\ UNCHANGED source

\* The session is rolled back, or its process is gone.
Abandon(k) ==
  /\ held[k] # NoApp
  /\ Release(k)
  /\ UNCHANGED appVars

Appear(a) == CreateApplication(a) \/ RecordApplication(a)
Transact(k) ==
  \/ \E a \in Apps, new \in Statuses, note \in Messages \cup {NoMessage} :
        ReadStatus(k, a, new, note)
  \/ CommitStatus(k)
  \/ Abandon(k)
PipelineNext ==
  \/ \E a \in Apps : Appear(a) \/ UpdateApplication(a)
  \/ \E k \in Actors : Transact(k)

PipelineSpec == PipelineInit /\ [][PipelineNext]_pipelineVars

-----------------------------------------------------------------------------
(***************************************************************************)
(* An application that got as far as a status has the dates of the way: no  *)
(* interleaving of transitions, and no way back through "saved", leaves an  *)
(* applied application without applied_at, an offer without offer_at, or a  *)
(* rejection without rejected_at (transition_status, the if chain).         *)
(***************************************************************************)
StampsNeeded(s) ==
  CASE s \in {"applied", "screening", "interviewing"} -> {"applied"}
    [] s \in {"offer", "accepted"} -> {"applied", "offer"}
    [] s = "rejected" -> {"applied", "rejected"}
    [] OTHER -> {}
StampsFollowStatus ==
  \A a \in Apps : StampsNeeded(status[a]) \subseteq stamps[a]

\* The status an application had after n rows of its history.
StatusAfter(a, n) ==
  IF n > 0 THEN history[a][n].new
  ELSE IF source[a] = "auto_apply" THEN "applied" ELSE Absent

(***************************************************************************)
(* A row tells what its author read: a legal transition from the status of  *)
(* the application at a time before the row, and what it overlooked since   *)
(* was the work of other actors (get_history shows these rows to the user). *)
(***************************************************************************)
TellsWhatItRead(a, i) ==
  LET row == history[a][i] IN
  /\ row.seen < i
  /\ row.old = StatusAfter(a, row.seen)
  /\ row.old # Absent => row.new \in VALID_TRANSITIONS[row.old]
  /\ \A j \in (row.seen + 1)..(i - 1) : history[a][j].by # row.by
HistoryTellsWhatWasRead ==
  \A a \in Apps : \A i \in 1..Len(history[a]) : TellsWhatItRead(a, i)

(***************************************************************************)
(* The row committed last has the application's status: an update never     *)
(* commits without its row, nor a row without its update.                   *)
(***************************************************************************)
HistoryEndsAtStatus ==
  \A a \in Apps : status[a] = StatusAfter(a, Len(history[a]))

\* An application, its dates and its history agree, whatever transactions overlooked.
ApplicationsAgree == StampsFollowStatus /\ HistoryTellsWhatWasRead /\ HistoryEndsAtStatus
=============================================================================

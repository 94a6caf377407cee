----------------------------- MODULE EmailIntake -----------------------------
(***************************************************************************)
(* Inbound mail and what it does to the applications                       *)
(* (EmailService.process_inbound_message): webhook requests deliver one     *)
(* message each, again when the sender retries; Gmail syncs, started by the *)
(* schedule or by the user, go through one page of the newest mail; and the *)
(* user changes applications meanwhile.  A message stands for all mails     *)
(* with its sender, subject and body, which the code takes for one          *)
(* (_find_duplicate_log).                                                   *)
(***************************************************************************)
EXTENDS Pipeline

CONSTANTS
  Hooks,    \* sessions that serve POST /email/webhook
  Syncs,    \* sessions that run sync_gmail_for_user
  Asked,    \* of them, those of users who ask for a sync; the others are the worker's
  Forwarded, \* the messages that are posted to the webhook
  Action,   \* the action EmailParser finds in each message, or "none"
  Sure,     \* the messages parsed with confidence 0.85 or more
  About,    \* the applications the company of which matches the message's
  Wishes,   \* bound: the statuses users ask for
  PageSize, \* google_gmail_sync_max_messages: a sync asks for one page
  MaxRows,  \* bound: user requests start on histories shorter than this
  MaxFaults \* bound: requests, commits and processes that fail

ASSUME ReadersAssumption ==
  Hooks \cup Syncs \subseteq Actors /\ Hooks \cap Syncs = {} /\ Asked \subseteq Syncs
ASSUME MailAssumption ==
  /\ Action \in [Messages -> {"none", "outreach", "offer", "interview", "rejection"}]
  /\ About \in [Messages -> SUBSET Apps]
  /\ Sure \subseteq Messages /\ Forwarded \subseteq Messages
  /\ PageSize \in Nat
ASSUME BoundsAssumption ==
  Wishes \subseteq Statuses /\ MaxRows \in Nat /\ MaxFaults \in Nat

Readers == Hooks \cup Syncs
Users == Actors \ Readers

VARIABLES
  logs,      \* committed EmailLog rows of each message, by the reader that wrote them
  notes,     \* committed notifications, as <<message, reader>>
  pc,        \* where each reader stands
  msg,       \* the message it works on
  todo,      \* the rest of a sync's listing
  listed,    \* the whole listing
  failed,    \* messages_failed of a sync
  readError, \* integration.last_error as the sync's session has it loaded
  mailbox,   \* the messages the Gmail query finds, the newest last
  lastError, \* committed UserIntegrationSecret.last_error
  lastList,  \* the listing of the sync that finished last
  masked,    \* history: it left its outcome out, though the row had changed
  unsent,    \* notifications that never will be, as <<message, reader>>
  faults     \* failures so far

syncVars == <<todo, listed, failed, readError>>
mailVars == <<mailbox, lastError, lastList, masked>>
tellVars == <<logs, notes, unsent>>
intakeVars == <<logs, notes, pc, msg, todo, listed, failed, readError, mailbox,
                lastError, lastList, masked, unsent, faults>>
vars == <<pipelineVars, intakeVars>>

Partial(n) == <<"partial", n>>
NoError == <<"none", 0>>
Broken == <<"broken", 0>>    \* the text of an exception out of the sync
Errors == {"none", "broken", "partial"} \X Nat

TypeOK ==
  /\ PipelineTypeOK
  /\ logs \in [Messages -> [Readers -> Nat]]
  /\ notes \subseteq Messages \X Readers
  /\ pc \in [Readers -> {"idle", "next", "check", "match", "log", "move", "file", "notify",
                     "broken"}]
  /\ msg \in [Readers -> Messages \cup {NoMessage}]
  /\ todo \in [Syncs -> SUBSET Messages]
  /\ listed \in [Syncs -> SUBSET Messages]
  /\ failed \in [Syncs -> Nat]
  /\ readError \in [Syncs -> Errors]
  /\ mailbox \in Seq(Messages)
  /\ lastError \in Errors
  /\ lastList \subseteq Messages
  /\ masked \in BOOLEAN
  /\ unsent \subseteq Messages \X Readers
  /\ faults \in Nat

Init ==
  /\ PipelineInit
  /\ logs = [m \in Messages |-> [k \in Readers |-> 0]]
  /\ notes = {}
  /\ pc = [k \in Readers |-> "idle"]
  /\ msg = [k \in Readers |-> NoMessage]
  /\ todo = [k \in Syncs |-> {}]
  /\ listed = [k \in Syncs |-> {}]
  /\ failed = [k \in Syncs |-> 0]
  /\ readError = [k \in Syncs |-> NoError]
  /\ mailbox = <<>>
  /\ lastError = NoError
  /\ lastList = {}
  /\ masked = FALSE
  /\ unsent = {}
  /\ faults = 0

Logged(m) == \E k \in Readers : logs[m][k] > 0
Goto(k, step) == pc' = [pc EXCEPT ![k] = step]
\* On to the next message of a sync; the request of a webhook is answered.
EndMessage(k) ==
  /\ Goto(k, IF k \in Syncs THEN "next" ELSE "idle")
  /\ msg' = [msg EXCEPT ![k] = NoMessage]

-----------------------------------------------------------------------------
(***************************************************************************)
(* Messages come in.                                                        *)
(***************************************************************************)
Arrive(m) ==
  /\ \A i \in 1..Len(mailbox) : mailbox[i] # m
  /\ mailbox' = Append(mailbox, m)
  /\ UNCHANGED <<pipelineVars, tellVars, pc, msg, syncVars, lastError, lastList, masked, faults>>

\* newer_than:30d finds the oldest message no longer.
Age ==
  /\ mailbox # <<>>
  /\ mailbox' = Tail(mailbox)
  /\ UNCHANGED <<pipelineVars, tellVars, pc, msg, syncVars, lastError, lastList, masked, faults>>

\* What a listing returns: the first page, of which the code never asks for the next.
Page == {mailbox[i] : i \in {n \in 1..Len(mailbox) : n + PageSize > Len(mailbox)}}

Deliver(k, m) ==
  /\ pc[k] = "idle"
  /\ Goto(k, "check")
  /\ msg' = [msg EXCEPT ![k] = m]
  /\ UNCHANGED <<pipelineVars, tellVars, syncVars, mailVars, faults>>

\* The integration row is loaded with its last_error, then the page listed.
StartSync(k) ==
  /\ pc[k] = "idle"
  /\ Goto(k, "next")
  /\ todo' = [todo EXCEPT ![k] = Page]
  /\ listed' = [listed EXCEPT ![k] = Page]
  /\ readError' = [readError EXCEPT ![k] = lastError]
  /\ UNCHANGED <<pipelineVars, tellVars, msg, failed, mailVars, faults>>

\* Mutant: the first messages of the listing are fetched again.
Fetch_again(k, m) ==
  /\ pc[k] = "next"
  /\ m \in todo[k]
  /\ msg' = [msg EXCEPT ![k] = m]
  /\ Goto(k, "check")
  /\ UNCHANGED <<pipelineVars, tellVars, todo, listed, failed, readError, mailVars, faults>>
Fetch(k, m) ==
  /\ pc[k] = "next"
  /\ m \in todo[k]
  /\ todo' = [todo EXCEPT ![k] = @ \ {m}]
  /\ msg' = [msg EXCEPT ![k] = m]
  /\ Goto(k, "check")
  /\ UNCHANGED <<pipelineVars, tellVars, listed, failed, readError, mailVars, faults>>

\* The Gmail API does not hand the message out; the loop continues.
FetchFails_uncounted(k, m) ==
  /\ pc[k] = "next"
  /\ m \in todo[k]
  /\ faults < MaxFaults
  /\ faults' = faults + 1
  /\ todo' = [todo EXCEPT ![k] = @ \ {m}]
  /\ UNCHANGED <<pipelineVars, tellVars, pc, msg, listed, failed, readError, mailVars>>
FetchFails(k, m) ==
  /\ pc[k] = "next"
  /\ m \in todo[k]
  /\ faults < MaxFaults
  /\ faults' = faults + 1
  /\ todo' = [todo EXCEPT ![k] = @ \ {m}]
  /\ failed' = [failed EXCEPT ![k] = @ + 1]
  /\ UNCHANGED <<pipelineVars, tellVars, pc, msg, listed, readError, mailVars>>

-----------------------------------------------------------------------------
(***************************************************************************)
(* process_inbound_message: each query or commit it awaits is a step.       *)
(***************************************************************************)
\* A duplicate is answered; a mail without a signal is only logged.
Check_always(k) ==
  /\ pc[k] = "check"
  /\ Goto(k, IF Action[msg[k]] = "none" THEN "log" ELSE "match")
  /\ UNCHANGED <<pipelineVars, tellVars, msg, syncVars, mailVars, faults>>
Check(k) ==
  /\ pc[k] = "check"
  /\ IF Logged(msg[k])
     THEN EndMessage(k)
     ELSE /\ Goto(k, IF Action[msg[k]] = "none" THEN "log" ELSE "match")
          /\ UNCHANGED msg
  /\ UNCHANGED <<pipelineVars, tellVars, syncVars, mailVars, faults>>

ACTION_TO_STATUS ==
  [offer |-> "offer", interview |-> "interviewing", rejection |-> "rejected"]

Matches(m) == {a \in About[m] : status[a] # Absent}
\* The matching application updated last.
IsMatch(m, a) == a \in Matches(m) /\ \A b \in Matches(m) : <<b, a>> \notin newer

\* A sync wants confidence 0.85, a webhook none.
ReviewRequired(k) == k \in Syncs /\ msg[k] \notin Sure

Moves(k, a) ==
  /\ Action[msg[k]] \in DOMAIN ACTION_TO_STATUS
  /\ ~ReviewRequired(k)
  /\ ACTION_TO_STATUS[Action[msg[k]]] \in VALID_TRANSITIONS[status[a]]

MatchNone(k) ==
  /\ pc[k] = "match"
  /\ Matches(msg[k]) = {}
  /\ Goto(k, "log")
  /\ UNCHANGED <<pipelineVars, tellVars, msg, syncVars, mailVars, faults>>
MatchAndMove(k, a) ==
  /\ pc[k] = "match"
  /\ IsMatch(msg[k], a)
  /\ Moves(k, a)
  /\ ReadStatus(k, a, ACTION_TO_STATUS[Action[msg[k]]], msg[k])
  /\ Goto(k, "move")
  /\ UNCHANGED <<tellVars, msg, syncVars, mailVars, faults>>
MatchOnly(k, a) ==
  /\ pc[k] = "match"
  /\ IsMatch(msg[k], a)
  /\ ~Moves(k, a)
  /\ Goto(k, "file")
  /\ UNCHANGED <<pipelineVars, tellVars, msg, syncVars, mailVars, faults>>

\* The log row of the message is part of the commit.
AddLog(k) == logs' = [logs EXCEPT ![msg[k]][k] = @ + 1]

CommitLog(k) ==
  /\ pc[k] = "log"
  /\ AddLog(k)
  /\ EndMessage(k)
  /\ UNCHANGED <<pipelineVars, notes, unsent, syncVars, mailVars, faults>>

\* Mutant: the status is written without its history row.
Move_early(k) ==
  /\ pc[k] = "move"
  /\ AddLog(k)
  /\ status' = [status EXCEPT ![held[k]] = draft[k].new]
  /\ Goto(k, "notify")
  /\ UNCHANGED <<source, stamps, history, newer, txVars, msg, notes, unsent, syncVars,
                  mailVars, faults>>
\* transition_status commits the log, the status and its row ...
Move(k) ==
  /\ pc[k] = "move"
  /\ CommitStatus(k)
  /\ AddLog(k)
  /\ Goto(k, "notify")
  /\ UNCHANGED <<msg, notes, unsent, syncVars, mailVars, faults>>

\* ... and the notification follows in a commit of its own.
Notify(k) ==
  /\ pc[k] = "notify"
  /\ notes' = notes \cup {<<msg[k], k>>}
  /\ EndMessage(k)
  /\ UNCHANGED <<pipelineVars, logs, unsent, syncVars, mailVars, faults>>

\* Nothing to move: log and notification commit together.
File(k) ==
  /\ pc[k] = "file"
  /\ AddLog(k)
  /\ notes' = notes \cup {<<msg[k], k>>}
  /\ EndMessage(k)
  /\ UNCHANGED <<pipelineVars, unsent, syncVars, mailVars, faults>>

-----------------------------------------------------------------------------
(***************************************************************************)
(* Failures.                                                                *)
(***************************************************************************)
\* What is not committed is lost; after a move, that is the notification.
LoseWork(k) ==
  /\ faults < MaxFaults
  /\ faults' = faults + 1
  /\ unsent' = IF pc[k] = "notify" THEN unsent \cup {<<msg[k], k>>} ELSE unsent
  /\ IF held[k] = NoApp THEN UNCHANGED txVars ELSE Release(k)
  /\ UNCHANGED <<appVars, logs, notes>>

ForgetSync(k) ==
  /\ todo' = [todo EXCEPT ![k] = {}]
  /\ listed' = [listed EXCEPT ![k] = {}]
  /\ failed' = [failed EXCEPT ![k] = 0]
  /\ readError' = [readError EXCEPT ![k] = NoError]

\* A query or commit fails.  A webhook answers with an error.  A sync counts the
\* message as failed and goes on, but without a rollback its session refuses every
\* statement from here on: whatever else it has listed fails as well.
Fail(k) ==
  /\ pc[k] \notin {"idle", "next", "broken"}
  /\ LoseWork(k)
  /\ Goto(k, IF k \in Syncs THEN "broken" ELSE "idle")
  /\ msg' = [msg EXCEPT ![k] = NoMessage]
  /\ UNCHANGED <<syncVars, mailVars>>

\* The last commit of a sync fails.
CommitFails(k) ==
  /\ pc[k] = "next" /\ todo[k] = {}
  /\ LoseWork(k)
  /\ Goto(k, "broken")
  /\ UNCHANGED <<msg, syncVars, mailVars>>

\* The last commit has raised, as it does in a session that is broken.  The worker
\* rolls back and writes down any error, the request of a user that of a listing only.
GiveUp(k) ==
  /\ pc[k] = "broken"
  /\ lastError' = IF k \in Asked THEN lastError ELSE Broken
  /\ Goto(k, "idle")
  /\ ForgetSync(k)
  /\ UNCHANGED <<pipelineVars, tellVars, msg, mailbox, lastList, masked, faults>>

\* The process of a sync dies.
Crash(k) ==
  /\ pc[k] # "idle"
  /\ LoseWork(k)
  /\ Goto(k, "idle")
  /\ msg' = [msg EXCEPT ![k] = NoMessage]
  /\ ForgetSync(k)
  /\ UNCHANGED mailVars

\* The listing raises.
ListingFails(k) ==
  /\ pc[k] = "idle"
  /\ faults < MaxFaults
  /\ faults' = faults + 1
  /\ lastError' = Broken
  /\ UNCHANGED <<pipelineVars, tellVars, pc, msg, syncVars, mailbox, lastList, masked>>

-----------------------------------------------------------------------------
Outcome(k) == IF failed[k] = 0 THEN NoError ELSE Partial(failed[k])

(***************************************************************************)
(* The end of a sync.  Only a changed attribute is part of the UPDATE: a    *)
(* last_error equal to the one the session had loaded leaves the row alone. *)
(***************************************************************************)
FinishSync(k) ==
  /\ pc[k] = "next"
  /\ todo[k] = {}
  /\ lastError' = IF Outcome(k) = readError[k] THEN lastError ELSE Outcome(k)
  /\ lastList' = listed[k]
  /\ masked' = (Outcome(k) = readError[k] /\ lastError # readError[k])
  /\ Goto(k, "idle")
  /\ ForgetSync(k)
  /\ UNCHANGED <<pipelineVars, tellVars, msg, mailbox, faults>>

\* POST /applications/{id}/transition.
Request(k, a, new) ==
  /\ Len(history[a]) < MaxRows
  /\ ReadStatus(k, a, new, NoMessage)

User(k) ==
  /\ \/ \E a \in Apps, new \in Wishes : Request(k, a, new)
     \/ CommitStatus(k)
     \/ Abandon(k)
  /\ UNCHANGED intakeVars

Handle(k) ==
  \/ Check(k) \/ MatchNone(k) \/ CommitLog(k) \/ Move(k) \/ Notify(k) \/ File(k)
  \/ \E a \in Apps : MatchAndMove(k, a) \/ MatchOnly(k, a)
Advance(k) == Handle(k) \/ FinishSync(k) \/ GiveUp(k) \/ \E m \in Messages : Fetch(k, m)

Next ==
  \/ \E a \in Apps : (Appear(a) \/ UpdateApplication(a)) /\ UNCHANGED intakeVars
  \/ \E k \in Users : User(k)
  \/ Age \/ \E m \in Messages : Arrive(m)
  \/ \E k \in Hooks, m \in Forwarded : Deliver(k, m)
  \/ \E k \in Readers : Handle(k) \/ Fail(k)
  \/ \E k \in Syncs : StartSync(k) \/ FinishSync(k) \/ Crash(k) \/ ListingFails(k)
  \/ \E k \in Syncs : CommitFails(k) \/ GiveUp(k)
  \/ \E k \in Syncs, m \in Messages : Fetch(k, m) \/ FetchFails(k, m)

Spec == Init /\ [][Next]_vars
\* The schedule starts a sync again and again, and a sync does not stand still.
Fairness == \A k \in Syncs \ Asked : WF_vars(StartSync(k)) /\ WF_vars(Advance(k))
FairSpec == Spec /\ Fairness

-----------------------------------------------------------------------------
(***************************************************************************)
(* However often a message is delivered, a reader handles it once: it       *)
(* writes one log row and moves at most one application, once               *)
(* (_find_duplicate_log).  Readers at work at the same time may each.       *)
(***************************************************************************)
HandledOncePerReader ==
  /\ \A m \in Messages, k \in Readers : logs[m][k] <= 1
  /\ \A a, b \in Apps : \A i \in 1..Len(history[a]), j \in 1..Len(history[b]) :
        /\ history[a][i].note # NoMessage
        /\ history[a][i].note = history[b][j].note
        /\ history[a][i].by = history[b][j].by
        => a = b /\ i = j

(***************************************************************************)
(* A change made by mail is logged, and the user is told of it unless the   *)
(* commit of the notification failed (process_inbound_message, after        *)
(* transition_status).                                                      *)
(***************************************************************************)
MovesAreTold ==
  \A a \in Apps : \A i \in 1..Len(history[a]) :
     LET row == history[a][i] IN
     row.note # NoMessage =>
       /\ logs[row.note][row.by] > 0
       /\ \/ <<row.note, row.by>> \in notes \cup unsent
          \/ pc[row.by] = "notify" /\ msg[row.by] = row.note

(***************************************************************************)
(* Mail is accounted for: handled once by each of its readers, and every    *)
(* move it causes is in the log and told (process_inbound_message).         *)
(***************************************************************************)
MailIsAccounted == HandledOncePerReader /\ MovesAreTold

(***************************************************************************)
(* A Gmail message read with little confidence never changes a status, at   *)
(* whatever step other readers are with it (auto_transition_min_confidence).*)
(***************************************************************************)
GmailMovesOnlyWhenSure ==
  \A a \in Apps : \A i \in 1..Len(history[a]) :
     LET row == history[a][i] IN
     row.note # NoMessage /\ row.by \in Syncs =>
       row.note \in Sure /\ row.new = ACTION_TO_STATUS[Action[row.note]]

(***************************************************************************)
(* An integration without an error has read its mail: every message that    *)
(* the last finished sync listed is in the log (sync_gmail_for_user),       *)
(* unless that sync left its outcome out over what another had written      *)
(* since it loaded the row.                                                 *)
(***************************************************************************)
HealthyMeansRead == lastError = NoError /\ ~masked => \A m \in lastList : Logged(m)

(***************************************************************************)
(* A message on the page is read, or pushed off it by newer ones before a   *)
(* sync came to it, however many fetches, commits and syncs fail meanwhile  *)
(* and although a failed statement spoils the rest of its sync              *)
(* (run_gmail_sync on its schedule).                                        *)
(***************************************************************************)
PageIsRead == \A m \in Messages : m \in Page ~> Logged(m) \/ m \notin Page
=============================================================================

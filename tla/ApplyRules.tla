----------------------------- MODULE ApplyRules -----------------------------
(***************************************************************************)
(* The settings of one user's auto-apply (auto_apply/service.py): rules and *)
(* profiles that are created, patched, paused and deleted, while batches    *)
(* (orchestrator.py, run_batch) go through the jobs that the rules they     *)
(* have loaded match (engine.py).  A run refers to its rule from its first  *)
(* flush on.  What checks and adapters make of a run is in AutoApply.       *)
(***************************************************************************)
EXTENDS Naturals, FiniteSets

CONSTANTS
  Rules, Profiles, \* those that may ever be there
  Postings,        \* the user's jobs
  Criteria,        \* of each rule: the postings that meet them
  Priority,        \* of each rule
  Editors,         \* requests that load before they write
  Batches,         \* of the worker, or triggered by the user
  MaxChanges       \* bound: commits to rules and profiles

\* Assumed of the constants by the module that instantiates this one: no rule has the name
\* that stands for none.
RulesAreRules == "" \notin Rules

VARIABLES
  keys,    \* whether the database checks foreign keys
  rule,    \* of each rule: [there, active, on, off], the latter when it was last switched
  active,  \* of each profile that is there: whether it is
  editor,  \* of each editor: [at, op, loaded, since]
  batch,   \* of each batch: [at, rules, todo, open, since]
  runs,    \* committed runs: [job, rule, done]
  heeded,  \* history: when the last pause that was answered had read the rules
  flouted, \* history: a run was begun for a rule that was off before its batch loaded it
  clock

ruleVars == <<keys, rule, active, editor, batch, runs, heeded, flouted, clock>>

NoRun == [job |-> "", rule |-> ""]
Resting == [at |-> "idle", op |-> "", loaded |-> {}, since |-> 0]
Waiting == [at |-> "idle", rules |-> {}, todo |-> {}, open |-> NoRun, since |-> 0]

\* A rule and a profile have been created; the commits after that are counted.
RulesInit ==
  /\ keys \in BOOLEAN
  /\ \E first \in Rules :
       rule = [r \in Rules |-> IF r = first THEN [there |-> TRUE, active |-> TRUE, on |-> 1, off |-> 0]
                              ELSE [there |-> FALSE, active |-> FALSE, on |-> 0, off |-> 0]]
  /\ \E p \in Profiles : active = [q \in {p} |-> TRUE]
  /\ editor = [e \in Editors |-> Resting] /\ batch = [b \in Batches |-> Waiting]
  /\ runs = {} /\ heeded = 0 /\ flouted = FALSE /\ clock = 1

There == {r \in Rules : rule[r].there}
Active == {r \in There : rule[r].active}
ActiveProfiles == {p \in DOMAIN active : active[p]}
Open == {batch[b].open : b \in Batches} \ {NoRun}

Change == clock <= MaxChanges /\ clock' = clock + 1
Switched(row, on) ==
  [row EXCEPT !.there = TRUE, !.active = on, !.on = IF on THEN clock + 1 ELSE @,
              !.off = IF on THEN @ ELSE clock + 1]
Load(e, op, loaded) ==
  /\ editor[e].at = "idle"
  /\ editor' = [editor EXCEPT ![e] = [at |-> "loaded", op |-> op, loaded |-> loaded,
                                      since |-> clock]]
  /\ UNCHANGED <<keys, rule, active, batch, runs, heeded, flouted, clock>>
Ready(e, op) ==
  /\ editor[e].at = "loaded" /\ editor[e].op = op
  /\ editor' = [editor EXCEPT ![e] = [Resting EXCEPT !.at = "done"]]

-----------------------------------------------------------------------------
(***************************************************************************)
(* Rules and profiles.                                                      *)
(***************************************************************************)
CreateRule(r) ==
  /\ rule[r].on = 0 /\ Change
  /\ rule' = [rule EXCEPT ![r] = Switched(@, TRUE)]
  /\ UNCHANGED <<keys, active, editor, batch, runs, heeded, flouted>>
\* One UPDATE statement.
UpdateRule(r, on) ==
  /\ r \in There /\ Change
  /\ rule' = [rule EXCEPT ![r] = Switched(@, on)]
  /\ UNCHANGED <<keys, active, editor, batch, runs, heeded, flouted>>

CreateProfile(p) ==
  /\ p \notin DOMAIN active /\ Change
  /\ active' = [q \in DOMAIN active \cup {p} |-> IF q = p THEN TRUE ELSE active[q]]
  /\ UNCHANGED <<keys, rule, editor, batch, runs, heeded, flouted>>
\* The flag is written only if it differs from the one loaded.
LoadProfile(e, p, on) ==
  p \in DOMAIN active /\ Load(e, "profile", IF active[p] = on THEN {} ELSE {p})
UpdateProfile(e) ==
  /\ Ready(e, "profile") /\ Change
  /\ active' = [p \in DOMAIN active |-> IF p \in editor[e].loaded THEN ~active[p] ELSE active[p]]
  /\ UNCHANGED <<keys, rule, batch, runs, heeded, flouted>>

BeginPause(e) == Load(e, "pause", Active)
\* Whether the UPDATE of several rows tells that one is gone depends on the driver.
CommitPause(e) ==
  LET off == editor[e].loaded
  IN /\ Ready(e, "pause") /\ Change
     /\ off \subseteq There \/ Cardinality(off) > 1
     /\ rule' = [r \in Rules |-> IF r \in off \cap There THEN Switched(rule[r], FALSE) ELSE rule[r]]
     /\ heeded' = IF editor[e].since > heeded THEN editor[e].since ELSE heeded
     /\ UNCHANGED <<keys, active, batch, runs, flouted>>
\* A row is gone: the request fails, and the others stay as they are.
PauseFails(e) ==
  /\ Ready(e, "pause") /\ ~(editor[e].loaded \subseteq There)
  /\ UNCHANGED <<keys, rule, active, batch, runs, heeded, flouted, clock>>

BeginDelete(e, r) == r \in There /\ Load(e, "delete", {r})
Named == {x.rule : x \in runs}
\* An open run holds a lock on its rule, where the key is checked.
Free(e) == keys => \A x \in Open : x.rule \notin editor[e].loaded
DeleteRule(e) ==
  /\ Ready(e, "delete") /\ Free(e) /\ Change
  /\ keys => editor[e].loaded \cap Named = {}
  /\ rule' = [r \in Rules |-> IF r \in editor[e].loaded
                                THEN [Switched(rule[r], FALSE) EXCEPT !.there = FALSE] ELSE rule[r]]
  /\ UNCHANGED <<keys, active, batch, runs, heeded, flouted>>
\* A rule that a run names cannot be deleted.
DeleteRefused(e) ==
  /\ Ready(e, "delete") /\ Free(e) /\ keys /\ editor[e].loaded \cap Named # {}
  /\ UNCHANGED <<keys, rule, active, batch, runs, heeded, flouted, clock>>

-----------------------------------------------------------------------------
(***************************************************************************)
(* Batches.                                                                 *)
(***************************************************************************)
Step(b, row) ==
  batch' = [batch EXCEPT ![b] = row] /\ UNCHANGED <<keys, rule, active, editor, heeded, clock>>
Stop(b) == Step(b, [Waiting EXCEPT !.at = "done"])

\* The worker asks for any active profile.
BeginBatch(b) ==
  /\ batch[b].at = "idle" /\ ActiveProfiles # {}
  /\ Step(b, [batch[b] EXCEPT !.at = "rules"]) /\ UNCHANGED <<runs, flouted>>
\* trigger_run fails if two are active, and does nothing without an active rule.
TriggerBatch(b) ==
  /\ batch[b].at = "idle" /\ ActiveProfiles # {} /\ UNCHANGED <<runs, flouted>>
  /\ IF Cardinality(ActiveProfiles) > 1 THEN Stop(b) ELSE Step(b, [batch[b] EXCEPT !.at = "count"])
CountRules(b) ==
  /\ batch[b].at = "count" /\ UNCHANGED <<runs, flouted>>
  /\ IF Active = {} THEN Stop(b) ELSE Step(b, [batch[b] EXCEPT !.at = "rules"])

\* Mutant: rules that are switched off are loaded, too.
LoadRules_all(b) ==
  /\ batch[b].at = "rules" /\ UNCHANGED <<runs, flouted>>
  /\ IF There = {} THEN Stop(b)
     ELSE Step(b, [batch[b] EXCEPT !.at = "profile", !.rules = There, !.since = clock])
LoadRules(b) ==
  /\ batch[b].at = "rules" /\ UNCHANGED <<runs, flouted>>
  /\ IF Active = {} THEN Stop(b)
     ELSE Step(b, [batch[b] EXCEPT !.at = "profile", !.rules = Active, !.since = clock])

Candidates == {j \in Postings : ~\E x \in runs : x.job = j /\ x.done}
\* RuleEngine.match_jobs: the first by priority whose criteria the job meets.
Best(r, j, loaded) ==
  j \in Criteria[r] /\ \A s \in loaded : j \in Criteria[s] => Priority[s] <= Priority[r]
\* Any active profile will do, whichever the rules name; candidates are read last.
MatchJobs(b) ==
  /\ batch[b].at = "profile" /\ UNCHANGED <<runs, flouted>>
  /\ IF ActiveProfiles = {} THEN Stop(b)
     ELSE LET loaded == batch[b].rules
              pairs == {x \in Candidates \X loaded : Best(x[2], x[1], loaded)}
          IN Step(b, [batch[b] EXCEPT !.at = "next", !.todo = pairs])

OpenRun(b, j, r) ==
  /\ batch[b].at = "next" /\ <<j, r>> \in batch[b].todo /\ (keys => r \in There)
  /\ Step(b, [batch[b] EXCEPT !.at = "open", !.todo = {x \in @ : x[1] # j},
                              !.open = [job |-> j, rule |-> r]])
  /\ flouted' = (flouted \/ (r \notin Active /\ rule[r].off <= batch[b].since))
  /\ UNCHANGED runs
\* The rule is gone: the first flush fails, and with it the rest of the batch.
OpenRefused(b, j, r) ==
  /\ batch[b].at = "next" /\ <<j, r>> \in batch[b].todo /\ keys /\ r \notin There
  /\ Stop(b) /\ UNCHANGED <<runs, flouted>>
CloseRun(b, done) ==
  /\ batch[b].at = "open"
  /\ runs' = runs \cup {[job |-> batch[b].open.job, rule |-> batch[b].open.rule, done |-> done]}
  /\ Step(b, [batch[b] EXCEPT !.at = "next", !.open = NoRun])
  /\ UNCHANGED flouted

RulesNext ==
  \/ \E r \in Rules : CreateRule(r) \/ \E on \in BOOLEAN : UpdateRule(r, on)
  \/ \E p \in Profiles : CreateProfile(p)
  \/ \E e \in Editors :
       \/ \E p \in Profiles, on \in BOOLEAN : LoadProfile(e, p, on)
       \/ UpdateProfile(e)
       \/ BeginPause(e) \/ CommitPause(e) \/ PauseFails(e)
       \/ \E r \in Rules : BeginDelete(e, r)
       \/ DeleteRule(e) \/ DeleteRefused(e)
  \/ \E b \in Batches :
       \/ BeginBatch(b) \/ TriggerBatch(b) \/ CountRules(b) \/ LoadRules(b) \/ MatchJobs(b)
       \/ \E j \in Postings, r \in Rules : OpenRun(b, j, r) \/ OpenRefused(b, j, r)
       \/ \E done \in BOOLEAN : CloseRun(b, done)
RulesSpec == RulesInit /\ [][RulesNext]_ruleVars

-----------------------------------------------------------------------------
(***************************************************************************)
(* Properties.                                                              *)
(***************************************************************************)
\* After a pause that was answered, only rules are active that were created or switched on
\* since it had read them.
PauseHolds == \A r \in Active : rule[r].on > heeded

\* A batch applies for a rule that is switched off only if it had loaded it before: whoever
\* begins after a pause obeys it.
PausesAreObeyed == ~flouted

\* Runs keep their rule where the database checks it.
RunsKeepTheirRule == keys => {x.rule : x \in runs \cup Open} \subseteq There

SettingsObeyed == PauseHolds /\ PausesAreObeyed /\ RunsKeepTheirRule
=============================================================================

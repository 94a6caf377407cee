-------------------------------- MODULE MCUserWork --------------------------------
(***********************************************************************************)
(* What requests of users do to rows that no lock protects: applications and their  *)
(* history, accounts and sessions, outcomes and what they say of a company,          *)
(* interview sessions, resume versions, salary answers, the Google account, and the  *)
(* settings of auto-apply.  They have no row in common, so a behaviour is of one of  *)
(* them: part says which.                                                            *)
(***********************************************************************************)
EXTENDS Integers, Pipeline, Sessions, TLC

CONSTANTS
    i1, i2, q1, q2, r1, r2, r3,
    MaxRows,   \* bound: histories with more rows in all are not continued
    Applications, Nameless, Recorders, Facts, Grain, MaxEdits,
    Questions, Answers, Scores, Evaluations,
    Versions, Editors,
    Researches, Offers, Briefs, Ttl, MaxTime,
    Accounts, Connects, Clicks, Visits, MaxTokens, MaxEvents,
    Rules, Profiles, Postings, Criteria, Priority, Switchers, Batches, MaxChanges

VARIABLES
    part,
    live, outcome, insight, recorder, recorded, raced, edits,
    session, asking, eval, last, outdated,
    resume, named, letter, req, clock, expected, crossed,
    now, entries, asker,
    row, ids, tokens, expired, refused, conn, sync, mixed, events,
    keys, rule, active, editor, batch, runs, heeded, flouted, ticks

Company == INSTANCE Insights
Interview == INSTANCE Interviews
Shelf == INSTANCE Resumes WITH version <- resume, Requests <- Editors
Salary == INSTANCE SalaryCache
Google == INSTANCE GoogleAccount WITH revoked <- refused, Requests <- Clicks
Settings == INSTANCE ApplyRules WITH Editors <- Switchers, clock <- ticks

ASSUME UserWorkAssumption ==
    /\ Company!FactsAreFacts /\ Interview!ScoresAreScores /\ Shelf!VersionsAreVersions
    /\ Salary!SalaryAssumption /\ Google!GoogleAssumption
    /\ Settings!RulesAreRules /\ MaxRows \in Nat

companyVars == <<live, outcome, insight, recorder, recorded, raced, edits>>
interviewVars == <<session, asking, eval, last, outdated>>
shelfVars == <<resume, named, letter, req, clock, expected, crossed>>
salaryVars == <<now, entries, asker>>
googleVars == <<row, ids, tokens, expired, refused, conn, sync, mixed, events>>
settingVars == <<keys, rule, active, editor, batch, runs, heeded, flouted, ticks>>
notApplications == <<vars, companyVars, interviewVars, shelfVars, salaryVars, googleVars, settingVars>>
mcVars == <<part, pipelineVars, notApplications>>

MCInit ==
    /\ part \in {"applications", "accounts", "company", "interview", "shelf", "salary", "google",
                "settings"}
    /\ PipelineInit /\ Init /\ Company!InsightsInit /\ Interview!InterviewsInit
    /\ Shelf!ResumesInit /\ (part = "shelf" \/ clock = 0) /\ Salary!SalaryInit /\ Google!GoogleInit
    \* The two profiles are alike: the first there is may be "p".
    /\ Settings!RulesInit /\ "p" \in DOMAIN active
    /\ (part = "settings" \/ (keys /\ rule["a"].there))

InApplications(A) == part = "applications" /\ A /\ UNCHANGED <<part, notApplications>>
InAccounts(A) == part = "accounts" /\ A /\ UNCHANGED <<part, pipelineVars, companyVars,
                                          interviewVars, shelfVars, salaryVars, googleVars, settingVars>>
InCompany(A) == part = "company" /\ A /\ UNCHANGED <<part, pipelineVars, vars, interviewVars,
                                          shelfVars, salaryVars, googleVars, settingVars>>
InInterview(A) == part = "interview" /\ A /\ UNCHANGED <<part, pipelineVars, vars, companyVars,
                                          shelfVars, salaryVars, googleVars, settingVars>>
InShelf(A) == part = "shelf" /\ A /\ UNCHANGED <<part, pipelineVars, vars, companyVars,
                                          interviewVars, salaryVars, googleVars, settingVars>>
InSalary(A) == part = "salary" /\ A /\ UNCHANGED <<part, pipelineVars, vars, companyVars,
                                          interviewVars, shelfVars, googleVars, settingVars>>
InGoogle(A) == part = "google" /\ A /\ UNCHANGED <<part, pipelineVars, vars, companyVars,
                                          interviewVars, shelfVars, salaryVars, settingVars>>
InSettings(A) == part = "settings" /\ A /\ UNCHANGED <<part, pipelineVars, vars, companyVars,
                                          interviewVars, shelfVars, salaryVars, googleVars>>

MCNext ==
    \/ InApplications(PipelineNext) \/ InAccounts(Next)
    \/ InCompany(Company!InsightsNext) \/ InInterview(Interview!InterviewsNext)
    \/ InShelf(Shelf!ResumesNext) \/ InSalary(Salary!SalaryNext) \/ InGoogle(Google!GoogleNext)
    \/ InSettings(Settings!RulesNext)

MCSpec == MCInit /\ [][MCNext]_mcVars

Bounded == \A a, b \in Apps : a # b => Len(history[a]) + Len(history[b]) <= MaxRows
Symmetry == Permutations({i1, i2}) \cup Permutations({q1, q2}) \cup Permutations({r1, r2, r3})

\* No days and no offer, days without an offer after a rejection, and both.
MCFacts ==
    {[ghosted |-> TRUE, rejected |-> FALSE, value |-> [days |-> -1, offer |-> -1]],
     [ghosted |-> FALSE, rejected |-> TRUE, value |-> [days |-> 1, offer |-> -1]],
     [ghosted |-> FALSE, rejected |-> FALSE, value |-> [days |-> 2, offer |-> 1]]}
\* Two scores and one that is no number.
MCScores == {2, 3, -1}
\* The second rule comes before the first.
MCCriteria == [r \in Rules |-> Postings]
MCPriority == [r \in Rules |-> IF r = "a" THEN 1 ELSE 2]

\* The properties of the instances, stated in their modules.
InsightExplained == Company!InsightExplained
EvaluationsExplained == Interview!EvaluationsExplained
\* Flags are as they were set: one default version, and rules that are switched off are not
\* applied for, but for the causes the modules name.
FlagsExplained == Shelf!DefaultExplained /\ Settings!SettingsObeyed
SalaryExplained == Salary!SalaryExplained
AddressMatchesTokens == Google!AddressMatchesTokens
===================================================================================

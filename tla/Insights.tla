-------------------------------- MODULE Insights --------------------------------
(***********************************************************************************)
(* Outcomes of applications and the insight kept for a company (outcomes/service.py). *)
(* record_outcome inserts the outcome and adds it to the company's counters and means *)
(* by reading, computing and writing the row; requests overlap.  A PATCH changes the  *)
(* outcome alone, and deleting an application takes its outcome with it.  Where there *)
(* is no row, get_company_insights computes one from the outcomes: the two ways must  *)
(* agree.                                                                            *)
(*                                                                                  *)
(* One user and one company.  Means are multiples of 1/Grain, fine enough for every    *)
(* mean there can be; rates are percents, rounded down.                               *)
(***********************************************************************************)
EXTENDS Integers, FiniteSets

CONSTANTS
    Applications,
    Nameless,   \* of them, those without a company name
    Recorders,  \* requests to record an outcome
    Facts,      \* what outcomes say: [ghosted, rejected, value]
    Grain,      \* units in which means are kept
    MaxEdits    \* bound: PATCHes and deletions

None == -1
Figures == {"days", "offer"}   \* days_to_response, offer_amount

\* Assumed of the constants by the module that instantiates this one.
FactsAreFacts ==
    /\ IsFiniteSet(Applications) /\ Nameless \subseteq Applications
    /\ Grain \in Nat \ {0} /\ \A n \in 1..Cardinality(Applications) : Grain % n = 0
    /\ \A f \in Facts : /\ f.ghosted \in BOOLEAN /\ f.rejected \in BOOLEAN
                        /\ \A k \in Figures : f.value[k] \in Nat \cup {None}

VARIABLES
    live,      \* the applications that exist
    outcome,   \* the outcomes, a function on some of them
    insight,   \* the company's row, NoInsight if there is none
    recorder,  \* of each request: [at, app, facts, read]
    recorded,  \* history: what was committed for the company
    raced,     \* history: a row was written from an outdated reading
    edits

insightVars == <<live, outcome, insight, recorder, recorded, raced, edits>>

NoInsight == [total |-> 0, ghosted |-> 0, count |-> [k \in Figures |-> 0],
              mean |-> [k \in Figures |-> None], ghostRate |-> 0, offerRate |-> 0,
              rejectionRate |-> 0]
Waiting == [at |-> "idle", app |-> None, facts |-> None, read |-> NoInsight]

InsightsInit ==
    /\ live = Applications /\ outcome = [a \in {} |-> None] /\ insight = NoInsight
    /\ recorder = [r \in Recorders |-> Waiting]
    /\ recorded = {} /\ raced = FALSE /\ edits = 0

HasOutcome(a) == a \in DOMAIN outcome
End(r) == recorder' = [recorder EXCEPT ![r] = [Waiting EXCEPT !.at = "done"]]
Inserting(a) == \E r \in Recorders : recorder[r].at = "inserted" /\ recorder[r].app = a
Percent(n, d) == (100 * n) \div d
Rejections(out) == Cardinality({a \in DOMAIN out \ Nameless : out[a].rejected})

-----------------------------------------------------------------------------------
(* record_outcome *)

BeginRecord(r, a, f) ==
    /\ recorder[r].at = "idle" /\ a \in live
    /\ recorder' = [recorder EXCEPT ![r] = IF HasOutcome(a) THEN [Waiting EXCEPT !.at = "done"]
                        ELSE [at |-> "checked", app |-> a, facts |-> f, read |-> NoInsight]]
    /\ UNCHANGED <<live, outcome, insight, recorded, raced, edits>>

\* The search for the insight flushes the outcome first; another request's uncommitted
\* one for the same application is waited for.
Insert(r) ==
    /\ recorder[r].at = "checked" /\ ~Inserting(recorder[r].app)
    /\ IF HasOutcome(recorder[r].app) \/ recorder[r].app \notin live
       THEN End(r)
       ELSE recorder' = [recorder EXCEPT ![r] = [at |-> "inserted", app |-> recorder[r].app,
                                                 facts |-> recorder[r].facts, read |-> insight]]
    /\ UNCHANGED <<live, outcome, insight, recorded, raced, edits>>

\* A running mean.
\* Mutant: the old mean is weighted with the new count.
NewMean_overweighted(old, n, v) == IF old = None THEN Grain * v ELSE (old * n + Grain * v) \div n
NewMean(old, n, v) == IF old = None THEN Grain * v ELSE (old * (n - 1) + Grain * v) \div n
Added(row, f, rejections) ==
    LET total == row.total + 1
        ghosted == row.ghosted + (IF f.ghosted THEN 1 ELSE 0)
        count == [k \in Figures |-> row.count[k] + (IF f.value[k] = None THEN 0 ELSE 1)]
    IN  [total |-> total, ghosted |-> ghosted, count |-> count,
         mean |-> [k \in Figures |-> IF f.value[k] = None THEN row.mean[k]
                                     ELSE NewMean(row.mean[k], count[k], f.value[k])],
         ghostRate |-> Percent(ghosted, total), offerRate |-> Percent(count["offer"], total),
         rejectionRate |-> Percent(rejections, total)]

\* An UPDATE sets the columns that differ from what was read.
Column(old, read, new) == IF new = read THEN old ELSE new
Merged(row, read, new) ==
    [total |-> Column(row.total, read.total, new.total),
     ghosted |-> Column(row.ghosted, read.ghosted, new.ghosted),
     count |-> [k \in Figures |-> Column(row.count[k], read.count[k], new.count[k])],
     mean |-> [k \in Figures |-> Column(row.mean[k], read.mean[k], new.mean[k])],
     ghostRate |-> Column(row.ghostRate, read.ghostRate, new.ghostRate),
     offerRate |-> Column(row.offerRate, read.offerRate, new.offerRate),
     rejectionRate |-> Column(row.rejectionRate, read.rejectionRate, new.rejectionRate)]

\* _update_company_insight and the commit.  Rejections are counted among committed outcomes
\* and the request's own.
Save(r) ==
    LET a == recorder[r].app
        f == recorder[r].facts
        read == recorder[r].read
        known == [b \in DOMAIN outcome \cup {a} |-> IF b = a THEN f ELSE outcome[b]]
        new == Added(read, f, Rejections(known))
    IN  /\ recorder[r].at = "inserted" /\ a \notin Nameless
        /\ read = NoInsight => insight = NoInsight
        /\ outcome' = known /\ insight' = Merged(insight, read, new)
        /\ recorded' = recorded \cup {<<a, f>>}
        /\ raced' = (raced \/ read # insight)
        /\ End(r) /\ UNCHANGED <<live, edits>>

SaveNameless(r) ==
    /\ recorder[r].at = "inserted" /\ recorder[r].app \in Nameless
    /\ outcome' = [b \in DOMAIN outcome \cup {recorder[r].app} |->
                      IF b = recorder[r].app THEN recorder[r].facts ELSE outcome[b]]
    /\ End(r) /\ UNCHANGED <<live, insight, recorded, raced, edits>>

\* Two requests made the company's first row: the second is refused, and its outcome lost.
SaveRefused(r) ==
    /\ recorder[r].at = "inserted" /\ recorder[r].app \notin Nameless
    /\ recorder[r].read = NoInsight /\ insight # NoInsight
    /\ End(r) /\ UNCHANGED <<live, outcome, insight, recorded, raced, edits>>

-----------------------------------------------------------------------------------
(* update_outcome, and the deletion of an application *)

Edit == edits < MaxEdits /\ edits' = edits + 1
PatchOutcome(a, f) ==
    /\ HasOutcome(a) /\ f # outcome[a] /\ Edit
    /\ outcome' = [outcome EXCEPT ![a] = f]
    /\ UNCHANGED <<live, insight, recorder, recorded, raced>>
\* The insert of an outcome holds a lock on its application.
DeleteApplication(a) ==
    /\ a \in live /\ ~Inserting(a) /\ Edit
    /\ live' = live \ {a}
    /\ outcome' = [b \in DOMAIN outcome \ {a} |-> outcome[b]]
    /\ UNCHANGED <<insight, recorder, recorded, raced>>

InsightsNext ==
    \/ \E r \in Recorders :
           \/ \E a \in Applications, f \in Facts : BeginRecord(r, a, f)
           \/ Insert(r) \/ Save(r) \/ SaveNameless(r) \/ SaveRefused(r)
    \/ \E a \in Applications : DeleteApplication(a) \/ \E f \in Facts : PatchOutcome(a, f)

InsightsSpec == InsightsInit /\ [][InsightsNext]_insightVars

-----------------------------------------------------------------------------------
(* Properties *)

InsightsTypeOK ==
    /\ live \subseteq Applications /\ DOMAIN outcome \subseteq live
    /\ \A a \in DOMAIN outcome : outcome[a] \in Facts
    /\ \A r \in Recorders : recorder[r].at \in {"idle", "checked", "inserted", "done"}
    /\ edits \in 0..MaxEdits

\* _compute_company_insight.
Counted == DOMAIN outcome \ Nameless
Knowing(k) == {a \in Counted : outcome[a].value[k] # None}
\* The sum of a figure: each outcome gives as many units as its value.
Units(k) == UNION {{a} \X (1..outcome[a].value[k]) : a \in Knowing(k)}
MeanOf(k) ==
    IF Knowing(k) = {} THEN None
    ELSE (Grain * Cardinality(Units(k))) \div Cardinality(Knowing(k))
Computed ==
    LET n == Cardinality(Counted)
        ghosted == Cardinality({a \in Counted : outcome[a].ghosted})
    IN  [total |-> n, ghosted |-> ghosted,
         count |-> [k \in Figures |-> Cardinality(Knowing(k))],
         mean |-> [k \in Figures |-> MeanOf(k)],
         ghostRate |-> Percent(ghosted, n), offerRate |-> Percent(Cardinality(Knowing("offer")), n),
         rejectionRate |-> Percent(Rejections(outcome), n)]

\* No outcome is counted twice whatever happens, and shares above 100 % come of overlapping
\* alone.
NothingCountedTwice ==
    /\ insight.total <= Cardinality(recorded)
    /\ insight.ghosted <= Cardinality({e \in recorded : e[2].ghosted})
    /\ \A k \in Figures : insight.count[k] <= Cardinality({e \in recorded : e[2].value[k] # None})
SharesAreShares ==
    insight.ghostRate > 100 \/ insight.offerRate > 100 \/ insight.rejectionRate > 100 => raced

\* The stored insight says what get_company_insights would compute from the outcomes, until
\* requests overlapped or an outcome was changed or deleted; it counts no outcome twice
\* whatever happens, and shares above 100 % come of overlapping alone.
InsightExplained ==
    insight # NoInsight =>
        /\ ~raced /\ edits = 0 => insight = Computed
        /\ NothingCountedTwice /\ SharesAreShares
===================================================================================

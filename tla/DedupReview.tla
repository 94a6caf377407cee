------------------------------- MODULE DedupReview -------------------------------
(***********************************************************************************)
(* Asking the user about likely duplicates (scraping/dedup_feedback.py).  The service *)
(* walks through the pairs of the newest jobs, gathers those it is unsure of and that *)
(* have no answer, stops at Factor times as many as asked for, and shows the least    *)
(* certain.  Answers are appended; nothing prevents a second one about a pair.        *)
(*                                                                                  *)
(* Similarities are percents; a job is its number, in the order of creation.          *)
(***********************************************************************************)
EXTENDS Integers, Sequences, FiniteSets, SequencesExt

CONSTANTS
    Likeness,     \* of two jobs, [older, newer] -> (title + company similarity) / 2
    Jobs,         \* 1..n, of one user
    Window,       \* of get_pending_reviews: 200 jobs
    Limits, Factor,
    MaxAnswers    \* bound

\* Assumed of the constants by the module that instantiates this one.
ReviewAssumption ==
    /\ Jobs \subseteq Nat /\ \A p \in Jobs \X Jobs : Likeness[p] \in 0..100
    /\ Window \in Nat /\ Factor \in Nat \ {0} /\ Limits \subseteq Nat \ {0}

VARIABLES
    stored,    \* how many of the jobs there are so far
    answers,   \* dedup_feedback, in order: [pair, same]
    asked,     \* what was last shown
    open,      \* history: what could have been shown then
    limit      \* history: and how many

reviewVars == <<stored, answers, asked, open, limit>>

ReviewInit ==
    /\ stored = 0 /\ answers = <<>> /\ asked = <<>> /\ open = {} /\ limit = 0

Store ==
    /\ stored + 1 \in Jobs /\ stored' = stored + 1
    /\ UNCHANGED <<answers, asked, open, limit>>

-----------------------------------------------------------------------------------
(* get_pending_reviews *)

Newest == {j \in 1..stored : stored - j < Window}
\* [older, newer], as the ids of a pair are sorted before they are compared or stored.
Pairs == {p \in Newest \X Newest : p[1] < p[2]}
Ambiguous(p) == Likeness[p] >= 30 /\ Likeness[p] <= 85
Answered(p) == \E i \in DOMAIN answers : answers[i].pair = p
Confidence(p) == IF Likeness[p] > 50 THEN Likeness[p] - 50 ELSE 50 - Likeness[p]

\* S in the order R: the i-th is the one that i - 1 come before.
Ordered(S, R) ==
    [i \in 1..Cardinality(S) |-> CHOOSE e \in S : Cardinality({f \in S : <<f, e>> \in R}) = i - 1]
UpTo(s, n) == SubSeq(s, 1, IF Len(s) < n THEN Len(s) ELSE n)

\* The walk goes from the newest job to the older ones.
Walked(S) ==
    {pq \in S \X S : LET p == pq[1]
                         q == pq[2]
                     IN  p[2] > q[2] \/ (p[2] = q[2] /\ p[1] > q[1])}
Doubts == {p \in Pairs : Ambiguous(p) /\ ~Answered(p)}
Candidates(n) == UpTo(Ordered(Doubts, Walked(Doubts)), n * Factor)

\* Positions, the least certain first; the sort is stable.
LeastCertain(s) ==
    {ij \in (DOMAIN s) \X (DOMAIN s) :
        LET c == Confidence(s[ij[1]])
            d == Confidence(s[ij[2]])
        IN  c < d \/ (c = d /\ ij[1] < ij[2])}
Shown(s, n) ==
    LET order == Ordered(DOMAIN s, LeastCertain(s))
    IN  UpTo([i \in DOMAIN order |-> s[order[i]]], n)

Ask(n) ==
    /\ asked' = Shown(Candidates(n), n) /\ limit' = n
    /\ open' = Doubts
    /\ UNCHANGED <<stored, answers>>

-----------------------------------------------------------------------------------
(* record_feedback, for two jobs, shown or not *)

Answer(p, same) ==
    /\ Len(answers) < MaxAnswers /\ p \in (1..stored) \X (1..stored) /\ p[1] < p[2]
    /\ answers' = Append(answers, [pair |-> p, same |-> same])
    /\ UNCHANGED <<stored, asked, open, limit>>

ReviewNext ==
    \/ Store
    \/ \E n \in Limits : Ask(n)
    \/ \E p \in Jobs \X Jobs, same \in BOOLEAN : Answer(p, same)
ReviewSpec == ReviewInit /\ [][ReviewNext]_reviewVars

-----------------------------------------------------------------------------------
(* Properties *)

\* The user is asked about doubtful pairs without an answer, each once, and about none only
\* when there are none: the early end of the walk never hides the last of them.  Where the
\* walk did not end early, the least certain are shown.
DoubtsComeUp ==
    /\ ToSet(asked) \subseteq open /\ IsInjective(asked)
    /\ asked = <<>> => open = {}
    /\ Cardinality(open) < limit * Factor =>
         /\ \A p \in ToSet(asked), q \in open \ ToSet(asked) : Confidence(p) <= Confidence(q)
         /\ Len(asked) = limit \/ ToSet(asked) = open
===================================================================================

------------------------------- MODULE Interviews -------------------------------
(***********************************************************************************)
(* Interview practice (interview/service.py, evaluator.py): a session of generated   *)
(* questions, and answers that a language model scores.  An evaluation loads the      *)
(* session, waits for the model, and writes back the whole lists it has loaded with   *)
(* its own entry in them; nothing keeps two evaluations from overlapping.             *)
(***********************************************************************************)
EXTENDS Integers, Sequences, FiniteSets, SequencesExt

CONSTANTS
    Questions,    \* indices of the questions asked for
    Answers,      \* texts
    Scores,       \* numbers the model may give, Odd for a score that is no number
    Evaluations   \* requests

Odd == -1
Unscored == -2
Scale == 6    \* overall scores are multiples of 1/Scale, rounded down

\* Assumed of the constants by the module that instantiates this one.
ScoresAreScores == Scores \subseteq Nat \cup {Odd}

VARIABLES
    session,   \* [asked, answers, scores, overall]: asked is false until it is generated
    asking,    \* the request that generates it
    eval,      \* of each evaluation: [at, q, answer, read]
    last,      \* history: the last committed evaluation of each question
    outdated   \* history: a session was written from an outdated copy

interviewVars == <<session, asking, eval, last, outdated>>

Blank == [asked |-> FALSE, answers |-> <<>>, scores |-> <<>>, overall |-> Unscored]
Resting == [at |-> "idle", q |-> 0, answer |-> "", read |-> Blank]

InterviewsInit ==
    /\ session = Blank /\ asking = "idle"
    /\ eval = [e \in Evaluations |-> Resting]
    /\ last = [q \in {} |-> <<>>] /\ outdated = FALSE

\* The session is stored only when the model answers with at least one question.
BeginGenerate ==
    /\ asking = "idle" /\ asking' = "asking"
    /\ UNCHANGED <<session, eval, last, outdated>>
Generate ==
    /\ asking = "asking" /\ asking' = "done" /\ session' = [Blank EXCEPT !.asked = TRUE]
    /\ UNCHANGED <<eval, last, outdated>>
\* No model answers, there is no question in the answer, or the job is gone.
GenerateFails ==
    /\ asking = "asking" /\ asking' = "idle" /\ UNCHANGED <<session, eval, last, outdated>>

BeginEvaluation(e, q, answer) ==
    /\ eval[e].at = "idle" /\ session.asked
    /\ eval' = [eval EXCEPT ![e] = [at |-> "scoring", q |-> q, answer |-> answer,
                                    read |-> session]]
    /\ UNCHANGED <<session, asking, last, outdated>>

\* The entries of a list at some places, in their order.
At(places, list) ==
    [n \in 1..Cardinality(places) |->
        list[CHOOSE i \in places : Cardinality({k \in places : k < i}) = n - 1]]
\* The list without the question's old entry, and the new one at its end.
\* Mutant: the old entry stays.
Replaced_twice(list, q, x) == Append(list, <<q, x>>)
Replaced(list, q, x) == Append(At({i \in DOMAIN list : list[i][1] # q}, list), <<q, x>>)
\* The scores that are numbers.
Numbers(list) == At({i \in DOMAIN list : list[i][2] # Odd}, list)
Mean(list) == (Scale * FoldSeq(LAMBDA p, n : p[2] + n, 0, list)) \div Len(list)
Overall(list, old) == IF Numbers(list) = <<>> THEN old ELSE Mean(Numbers(list))

\* Only columns that differ from the loaded ones are written: an answer that is the last of
\* its list and has not changed is not.
Column(old, read, new) == IF new = read THEN old ELSE new

\* evaluate_answer and _persist_score; without a model the score is 0.
Persist(e, score) ==
    LET q == eval[e].q
        read == eval[e].read
        answers == Replaced(read.answers, q, eval[e].answer)
        scores == Replaced(read.scores, q, score)
    IN  /\ eval[e].at = "scoring" /\ eval' = [eval EXCEPT ![e] = [Resting EXCEPT !.at = "done"]]
        /\ session' =
               [asked |-> session.asked,
                answers |-> Column(session.answers, read.answers, answers),
                scores |-> Column(session.scores, read.scores, scores),
                overall |-> Column(session.overall, read.overall, Overall(scores, read.overall))]
        /\ last' = [p \in DOMAIN last \cup {q} |->
                       IF p = q THEN <<eval[e].answer, score>> ELSE last[p]]
        /\ outdated' = (outdated \/ read # session)
        /\ UNCHANGED asking

InterviewsNext ==
    \/ BeginGenerate \/ Generate \/ GenerateFails
    \/ \E e \in Evaluations :
           \/ \E q \in Questions, answer \in Answers : BeginEvaluation(e, q, answer)
           \/ \E score \in Scores \cup {0} : Persist(e, score)

InterviewsSpec == InterviewsInit /\ [][InterviewsNext]_interviewVars

-----------------------------------------------------------------------------------
(* Properties *)

InterviewsTypeOK ==
    /\ session.asked \in BOOLEAN /\ outdated \in BOOLEAN
    /\ ToSet(session.answers) \subseteq Questions \X Answers
    /\ ToSet(session.scores) \subseteq Questions \X (Scores \cup {0})

About(list) == {p[1] : p \in ToSet(list)}

\* The session holds the last answer to each question with its own score, and the mean of
\* the numeric ones; only overlapping evaluations lose or mix entries, and even they never
\* leave two entries for one question.
EvaluationsExplained ==
    /\ Cardinality(About(session.answers)) = Len(session.answers)
    /\ Cardinality(About(session.scores)) = Len(session.scores)
    /\ ~outdated =>
        /\ ToSet(session.answers) = {<<q, last[q][1]>> : q \in DOMAIN last}
        /\ ToSet(session.scores) = {<<q, last[q][2]>> : q \in DOMAIN last}
        /\ Numbers(session.scores) # <<>> => session.overall = Overall(session.scores, Unscored)
===================================================================================

------------------------------- MODULE SalaryCache -------------------------------
(***********************************************************************************)
(* Salary research and the cache of its answers (salary/service.py).  An answer for   *)
(* one title and location is kept for Ttl and shared by all users; the requests for   *)
(* it look, call the model when there is nothing, and store, without a lock.  An      *)
(* entry's created_at is the start of the transaction that stores it: the moment its  *)
(* request looked, not the moment the answer came.                                   *)
(*                                                                                   *)
(* The model is a chain of models, asked in turn (nlp/model_router.py).  An answer is *)
(* any JSON that is not empty; one that has not the shape asked for is kept too.      *)
(***********************************************************************************)
EXTENDS Naturals, FiniteSets

CONSTANTS
    Researches, Offers, Briefs,  \* requests
    Ttl,
    MaxTime

Lookers == Researches \cup Offers \cup Briefs
\* Assumed of the constants by the module that instantiates this one.
SalaryAssumption ==
    /\ Researches \cap Offers = {} /\ (Researches \cup Offers) \cap Briefs = {}
    /\ Ttl \in Nat

VARIABLES
    now,
    entries,  \* [at, by, sound, stored]; stored is history: when it was committed
    asker     \* of each request: [at, since, used, cached, refusals]; used is the answer it
              \* works with, refusals how many models have given none in this call

salaryVars == <<now, entries, asker>>

NoAnswer == [at |-> 0, by |-> "none", sound |-> TRUE, stored |-> 0]
SalaryInit ==
    /\ now = 0 /\ entries = {}
    /\ asker = [r \in Lookers |-> [at |-> "idle", since |-> 0, used |-> NoAnswer, cached |-> FALSE,
                                  refusals |-> 0]]

Pass == now < MaxTime /\ now' = now + 1 /\ UNCHANGED <<entries, asker>>

\* How many models each kind of request may ask.
TASK_MODELS ==
    [enrichment |-> 3, cover_letter |-> 3, resume_tailor |-> 3, interview |-> 3, salary |-> 2,
     copilot |-> 3, default |-> 2]
Models == TASK_MODELS["salary"]

\* What comes back from one model: the call raises, there is no key or no choice and so no
\* text, the text holds no object, or it holds an empty one, one of another shape or one of
\* the shape asked for.  An answer is what complete_json takes for one.
Texts == {"raises", "", "prose", "{}", "odd", "sound"}
ChatJson(text) == IF text \in {"", "prose"} THEN "{}" ELSE text
IsTaken(text) == ChatJson(text) \notin {"{}", "raises"}

\* _get_valid_cache: the newest entry that is not older than Ttl.
\* Mutant: the lifetime is added to the present instead of taken from it.
Valid_ahead == {e \in entries : e.at >= now + Ttl}
Valid == {e \in entries : e.at + Ttl >= now}
IsAnswer(e) == e \in Valid /\ \A f \in Valid : f.at <= e.at
Move(r, at, e, cached) ==
    asker' = [asker EXCEPT ![r] = [@ EXCEPT !.at = at, !.used = e, !.cached = cached,
                                            !.refusals = 0]]

\* The request begins; nothing has been looked up yet.
Enter(r) ==
    /\ asker[r].at = "idle"
    /\ asker' = [asker EXCEPT ![r].at = "looking", ![r].since = now]
    /\ UNCHANGED <<now, entries>>

\* A research ends with a cached answer; an offer and a brief go on to ask about it, the
\* offer also without one.  A brief without one becomes a research, which looks again.
\* An answer of another shape fails what is made of it: always a research.
After(r, e) ==
    (IF e.sound THEN {} ELSE {"failed"})
        \cup (IF r \notin Researches THEN {"advising"} ELSE IF e.sound THEN {"done"} ELSE {})
Found(r, e) ==
    /\ asker[r].at \in {"looking", "again"} /\ IsAnswer(e)
    /\ \E at \in After(r, e) : Move(r, at, e, asker[r].at = "looking")
    /\ UNCHANGED <<now, entries>>
NotFound(r) ==
    /\ asker[r].at \in {"looking", "again"} /\ Valid = {}
    /\ Move(r, IF r \in Offers THEN "advising"
               ELSE IF r \in Briefs /\ asker[r].at = "looking" THEN "again" ELSE "researching",
            NoAnswer, FALSE)
    /\ UNCHANGED <<now, entries>>

\* The answer is kept before it is looked at.
Research(r, text) ==
    /\ asker[r].at = "researching" /\ IsTaken(text)
    /\ LET e == [at |-> asker[r].since, by |-> r, sound |-> ChatJson(text) = "sound",
                 stored |-> now]
       IN  /\ entries' = entries \cup {e}
           /\ \E at \in After(r, e) : Move(r, at, e, FALSE)
    /\ UNCHANGED now
\* The judgement of an offer, and the brief for a negotiation; nothing is kept of them,
\* whether the answer has the shape asked for or not.
Advise(r) ==
    /\ r \in Offers /\ asker[r].at = "advising"
    /\ Move(r, "done", asker[r].used, asker[r].cached)
    /\ UNCHANGED <<now, entries>>
Brief(r) ==
    /\ r \in Briefs /\ asker[r].at = "advising"
    /\ Move(r, "done", asker[r].used, asker[r].cached)
    /\ UNCHANGED <<now, entries>>

\* A model gives no answer: the next is asked, and after the last one the request fails.
ModelRefuses(r, text) ==
    /\ asker[r].at \in {"researching", "advising"} /\ ~IsTaken(text)
    /\ asker' = [asker EXCEPT ![r].refusals = @ + 1,
                              ![r].at = IF asker[r].refusals + 1 = Models THEN "failed" ELSE @]
    /\ UNCHANGED <<now, entries>>

SalaryNext ==
    \/ Pass
    \/ \E r \in Lookers :
           \/ Enter(r) \/ NotFound(r) \/ Advise(r) \/ Brief(r)
           \/ \E text \in Texts : Research(r, text) \/ ModelRefuses(r, text)
           \/ \E e \in entries : Found(r, e)
SalarySpec == SalaryInit /\ [][SalaryNext]_salaryVars

-----------------------------------------------------------------------------------
(* Properties *)

\* The model is asked again for an answer that is kept only when the request had begun
\* before that answer was stored, or when the answer expired before the new one came.
CallsExplained ==
    \A e, f \in entries : e # f => e.stored >= f.at \/ e.at + Ttl < f.stored

\* A request fails for want of an answer only when all models of the chain have refused
\* it, or when the answer it has found or got is of another shape and kept all the same,
\* for the requests to come.
FailuresExplained ==
    \A r \in Lookers :
        asker[r].at = "failed" =>
            \/ asker[r].refusals = Models
            \/ ~asker[r].used.sound /\ asker[r].used \in entries

\* research_salary, evaluate_offer, generate_brief
SalaryExplained == CallsExplained /\ FailuresExplained
===================================================================================

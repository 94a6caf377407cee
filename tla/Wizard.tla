------------------------------- MODULE Wizard -------------------------------
(***************************************************************************)
(* The Workday adapter: a loop over the pages of a wizard that recognises   *)
(* the page, fills the five profile fields, and presses the button at the   *)
(* bottom unless it would submit.  A press may turn the page late, when the *)
(* network was idle before the next page was drawn, or not at all, when the *)
(* page refuses what it holds.  No caller passes a resume.                  *)
(***************************************************************************)
EXTENDS Naturals, Sequences, FiniteSets

CONSTANTS
  Wizards,       \* sequences of pages [ids, button, submits, step]
  WizardProfiles,\* profiles [words, rest]: of the full name, and the other keys with a value
  MaxPages       \* MAX_PAGES of the adapter

\* PROFILE_TO_SELECTOR, in the order in which it is gone through.
Keys == <<"first_name", "last_name", "email", "phone", "linkedin_url">>
Selector ==
  [first_name |-> "legalNameSection_firstName", last_name |-> "legalNameSection_lastName",
   email |-> "email", phone |-> "phone", linkedin_url |-> "linkedinQuestion"]

\* A name of one word is a first name.
BuildProfileMap(p) ==
  p.rest \cup {"first_name" : n \in 1..p.words} \cup {"last_name" : n \in 2..p.words}

WizardAssumption ==
  /\ MaxPages \in Nat \ {0}
  /\ \A w \in Wizards : w # <<>> /\ w \in Seq({w[n] : n \in DOMAIN w})

VARIABLES
  pages, owner,
  stage,      \* "idle", "detect", "fill", "press", "click", "done", "failed"
  turns,      \* _current_step
  at,         \* the page the tab shows
  turning,    \* a press the page has not yet answered
  pending,    \* the keys not yet tried in this turn
  entered,    \* keys each page holds
  missing,    \* _missed_total
  items,      \* keys of the review items
  hurried,    \* pages that turned up between the fields and the button
  submitted   \* the button that was pressed submits

wizardVars == <<pages, owner, stage, turns, at, turning, pending, entered, missing, items,
                hurried, submitted>>

WizardInit ==
  /\ pages = <<>> /\ owner = {} /\ stage = "idle" /\ turns = 0 /\ at = 1 /\ turning = FALSE
  /\ pending = <<>> /\ entered = <<>> /\ missing = {} /\ items = {} /\ hurried = {}
  /\ submitted = FALSE

Open(w, p) ==
  /\ stage = "idle"
  /\ pages' = w /\ owner' = BuildProfileMap(p) /\ stage' = "detect"
  /\ entered' = [n \in DOMAIN w |-> {}]
  /\ UNCHANGED <<turns, at, turning, pending, missing, items, hurried, submitted>>

(***************************************************************************)
(* STEP_INDICATORS in order; the first of the best scores wins.             *)
(***************************************************************************)
StepIndicators ==
  << <<"personal_info", {"legalNameSection_firstName", "legalNameSection_lastName", "email", "phone"}>>,
     <<"experience", {"jobTitle", "company", "currentlyWorkHere"}>>,
     <<"education", {"school", "degree"}>>,
     <<"voluntary_disclosures", {"voluntaryDisclosures", "gender", "ethnicity", "veteranStatus",
                                 "disabilityStatus"}>>,
     <<"review", {"review"}>> >>
Score(s, ids) == Cardinality(StepIndicators[s][2] \cap ids)
BestStep(ids) ==
  LET scores == {s \in DOMAIN StepIndicators : Score(s, ids) > 0}
      best == {s \in scores : \A q \in scores : Score(q, ids) <= Score(s, ids)}
  IN IF best = {} THEN "unknown"
     ELSE StepIndicators[CHOOSE s \in best : \A q \in best : s <= q][1]

\* The text of the button reaches the detector or not: page.evaluate hands a
\* DOM node over by value.
Detectable ==
  LET p == pages[at]
  IN {"unknown", BestStep(p.ids)} \cup (IF p.button = "id" /\ p.submits THEN {"review"} ELSE {})

Report == items' = missing

DetectStep ==
  /\ stage = "detect"
  /\ \E step \in Detectable :
       IF step = "review"
       THEN stage' = "done" /\ Report /\ UNCHANGED pending
       ELSE stage' = "fill" /\ pending' = Keys /\ UNCHANGED items
  /\ UNCHANGED <<pages, owner, turns, at, turning, entered, missing, hurried, submitted>>

MissKey(k) == missing' = missing \cup {k} /\ UNCHANGED entered

FillKey ==
  /\ stage = "fill" /\ pending # <<>>
  /\ pending' = Tail(pending)
  /\ LET k == Head(pending)
     IN \/ MissKey(k)
        \/ /\ k \in owner /\ Selector[k] \in pages[at].ids
           /\ entered' = [entered EXCEPT ![at] = @ \cup {k}]
           /\ UNCHANGED missing
  /\ UNCHANGED <<pages, owner, stage, turns, at, turning, items, hurried, submitted>>

PageFilled ==
  /\ stage = "fill" /\ pending = <<>>
  /\ turns' = turns + 1
  /\ stage' = "press"
  /\ UNCHANGED <<pages, owner, at, turning, pending, entered, missing, items, hurried, submitted>>

\* No button, one that says "submit", or a call that raises ends the loop.
ReadButton ==
  /\ stage = "press"
  /\ \/ pages[at].button # "none" /\ ~pages[at].submits /\ stage' = "click" /\ UNCHANGED items
     \/ stage' = "done" /\ Report
  /\ UNCHANGED <<pages, owner, turns, at, turning, pending, entered, missing, hurried, submitted>>

NextTurn ==
  IF turns < MaxPages THEN stage' = "detect" /\ UNCHANGED items ELSE stage' = "done" /\ Report

\* The page turns, refuses, or will turn; the wait for it may raise.
Click ==
  /\ stage = "click"
  /\ pages[at].button # "none"
  /\ \/ pages[at].submits /\ submitted' = TRUE /\ UNCHANGED <<at, turning>>
     \/ /\ ~pages[at].submits
        /\ \/ at < Len(pages) /\ at' = at + 1 /\ turning' = FALSE
           \/ at' = at /\ turning' \in {turning, at < Len(pages)}
        /\ UNCHANGED submitted
  /\ NextTurn \/ (stage' = "done" /\ Report)
  /\ UNCHANGED <<pages, owner, turns, pending, entered, missing, hurried>>

PageTurns ==
  /\ turning /\ stage \in {"detect", "fill", "press", "click"}
  /\ turning' = FALSE
  /\ at' = at + 1
  /\ hurried' = IF stage = "detect" \/ pending = Keys THEN hurried ELSE hurried \cup {at + 1}
  /\ UNCHANGED <<pages, owner, stage, turns, pending, entered, missing, items, submitted>>

\* A screenshot or the page itself fails: the run is stored as failed.
WizardFails ==
  /\ stage \notin {"idle", "done", "failed"}
  /\ stage' = "failed"
  /\ UNCHANGED <<pages, owner, turns, at, turning, pending, entered, missing, items, hurried,
                 submitted>>

CloseWizard ==
  /\ stage \in {"done", "failed"}
  /\ pages' = <<>> /\ owner' = {} /\ stage' = "idle" /\ turns' = 0 /\ at' = 1
  /\ turning' = FALSE /\ pending' = <<>> /\ entered' = <<>> /\ missing' = {} /\ items' = {}
  /\ hurried' = {} /\ submitted' = FALSE

WizardNext ==
  \/ \E w \in Wizards, p \in WizardProfiles : Open(w, p)
  \/ DetectStep \/ FillKey \/ PageFilled
  \/ ReadButton \/ Click \/ PageTurns \/ WizardFails \/ CloseWizard

-----------------------------------------------------------------------------
Asked(n) == {k \in DOMAIN Selector : Selector[k] \in pages[n].ids}

(***************************************************************************)
(* The adapter never submits ("never auto-submits") unless the page turned  *)
(* after its fields were dealt with, and of the pages the user does not see *)
(* any more, each key that was asked for is there or on the review list     *)
(* (apply, click_next, _build_review_items), but for those pages.           *)
(***************************************************************************)
WizardIsTold ==
  /\ submitted => at \in hurried
  /\ stage = "done" =>
       \A n \in DOMAIN pages : n < at /\ n \notin hurried => Asked(n) \subseteq entered[n] \cup items
=============================================================================

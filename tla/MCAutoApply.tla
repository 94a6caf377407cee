----------------------------- MODULE MCAutoApply -----------------------------
(***************************************************************************)
(* The runs of one user (part "runs"), what one browser run does to a form  *)
(* (part "form"), and to a Workday wizard (part "wizard"): a behaviour is   *)
(* of one part.                                                            *)
(*                                                                         *)
(* Lever postings (l, m, k), a form the URL of which names its provider (w) *)
(* and a form of the same company that hides Workday behind its own         *)
(* domain (g).  Lever postings carry no company name here, so that only the *)
(* duplicate check stands between them and a second submission.             *)
(***************************************************************************)
EXTENDS AutoApply

CONSTANTS
  Sites, Profiles, Tier1, Mappings, LetterIds,  \* of Forms
  Wizards, WizardProfiles, MaxPages             \* of Wizard

VARIABLES
  part,
  site, profile, phase, shown, read, answering, content, entries, missed, review, sent,
  pages, owner, stage, turns, at, turning, pending, entered, missing, items, hurried, handedIn

-----------------------------------------------------------------------------
(***************************************************************************)
(* Forms.  An element has an id and a name (css tells the others apart) and *)
(* one label.                                                               *)
(***************************************************************************)
Texts(label) ==
  [aria |-> label, labelledby |-> "", for |-> "", parent |-> "", placeholder |-> "",
   title |-> "", name |-> "", legend |-> label]
E(kind, id, name, label) ==
  [kind |-> kind, text |-> Texts(label), visible |-> TRUE, frame |-> "page", options |-> {},
   attr |-> [id |-> id, name |-> name, automation |-> "", testid |-> "", css |-> kind]]
In(frame, e) == [e EXCEPT !.frame = frame]
Hidden(e) == [e EXCEPT !.visible = FALSE]
Offers(options, e) == [e EXCEPT !.options = options]

BoardForm ==
  << E("text", "first_name", "first", "First name"), E("text", "email", "", "E-mail"),
     E("file", "resume", "", "Resume"), E("text", "cover_letter_text", "", "Cover letter"),
     E("text", "", "question", "Why us?"), E("text", "", "", "GitHub"),
     E("checkbox", "", "agree", "E-mail me"), In("named", E("text", "", "frame", "GitHub")),
     In("foreign", E("text", "", "captcha", "Captcha")) >>
SharedForm ==
  << E("text", "job_application_location", "", "City"), E("file", "cover_letter", "", "Cover letter"),
     Hidden(E("text", "", "plan", "")), E("text", "", "plan", "GitHub"),
     E("text", "", "", "First name"), E("text", "", "", "E-mail"),
     In("unnamed", E("text", "", "why", "Why us?")), In("named", E("text", "", "", "GitHub")) >>
ChoiceForm ==
  << E("text", "job_application_answers_attributes_0_text_value", "", "Why us?"),
     Offers({"github_url", "yes"}, E("select", "q1", "", "GitHub")),
     Offers({"yes"}, E("select", "q2", "", "E-mail")), E("radio", "", "visa", "Why us?"),
     E("radio", "", "visa", "Why us?"), E("combo", "q3", "", "City"),
     E("number", "phone", "", "Phone"), E("text", "cover_letter_text", "", "GitHub") >>
Mix(forms, listing, apply, greenhouse) ==
  {[form |-> f, listing |-> l, apply |-> a, greenhouse |-> g] :
     f \in forms, l \in listing, a \in apply, g \in greenhouse}
\* A Greenhouse URL shows the form; elsewhere a listing may come before it.
FormSites ==
  Mix({BoardForm, SharedForm, ChoiceForm}, {FALSE}, {TRUE}, BOOLEAN)
    \cup Mix({BoardForm}, {TRUE}, BOOLEAN, {FALSE})
    \cup Mix({ChoiceForm}, {TRUE}, {FALSE}, {TRUE})
FormProfiles ==
  {{}, {"full_name", "first_name"}, {"github_url", "phone"}, {"github_url", "cover_letter"},
   {"full_name", "first_name", "email", "github_url"},
   {"full_name", "first_name", "email", "phone", "github_url", "cover_letter"}}
FormTier1 ==
  [l \in {"First name", "E-mail", "Resume", "Cover letter", "Why us?", "GitHub", "E-mail me",
          "Captcha", "City", "Phone", "unknown_field"} |->
     CASE l = "First name" -> "first_name" [] l \in {"E-mail", "E-mail me"} -> "email"
       [] l = "Resume" -> "resume" [] l = "Cover letter" -> "cover_letter"
       [] l = "GitHub" -> "github" [] l = "City" -> "location" [] l = "Phone" -> "phone"
       [] OTHER -> ""]
\* "E-mail" does not contain "email"; "First name" contains "name".
FormMappings ==
  [l \in DOMAIN FormTier1 \cup {""} |->
     CASE l = "First name" -> <<"full_name", "first_name">>
       [] l = "GitHub" -> <<"github_url">> [] l = "Phone" -> <<"phone">>
       [] OTHER -> <<>>]
FormLetters ==
  << {"cover_letter"}, {"cover_letter", "cover_letter_text"},
     {"job_application_answers_attributes_0_text_value"} >>

Form == INSTANCE Forms WITH todo <- answering, filled <- entries

ASSUME FormsAreForms == Form!FormsAssumption

-----------------------------------------------------------------------------
(***************************************************************************)
(* Wizards: pages that ask for a name, for an address again, for nothing,   *)
(* and a last one that submits.                                             *)
(***************************************************************************)
Page(ids, button, submits) == [ids |-> ids, button |-> button, submits |-> submits]
NamePage == Page({"legalNameSection_firstName", "legalNameSection_lastName", "email"}, "id", FALSE)
AgainPage == Page({"email", "linkedinQuestion", "jobTitle"}, "text", FALSE)
MCWizards ==
  {<<NamePage, AgainPage, Page({"email"}, "id", TRUE)>>,
   <<AgainPage, NamePage, Page({"review"}, "text", TRUE)>>,
   <<NamePage, Page({"school"}, "none", FALSE)>>}
MCOwners ==
  {[words |-> 0, rest |-> {"email"}], [words |-> 1, rest |-> {"email"}],
   [words |-> 2, rest |-> {"email", "linkedin_url"}]}

Workday == INSTANCE Wizard WITH submitted <- handedIn

ASSUME WizardsAreWizards == Workday!WizardAssumption

-----------------------------------------------------------------------------
formVars == <<site, profile, phase, shown, read, answering, content, entries, missed, review, sent>>
wizardVars == <<pages, owner, stage, turns, at, turning, pending, entered, missing, items, hurried,
                handedIn>>

MCInit ==
  /\ part \in {"runs", "form", "wizard"}
  /\ Init /\ Form!FormsInit /\ Workday!WizardInit
InRuns(A) == part = "runs" /\ A /\ UNCHANGED <<part, formVars, wizardVars>>
InForm(A) == part = "form" /\ A /\ UNCHANGED <<part, vars, wizardVars>>
InWizard(A) == part = "wizard" /\ A /\ UNCHANGED <<part, vars, formVars>>
MCNext == InRuns(Next) \/ InForm(Form!FormsNext) \/ InWizard(Workday!WizardNext)

\* The fairness of FairSpec: outside of part "runs" every actor is idle.
MCSpec ==
  /\ MCInit /\ [][MCNext]_<<part, vars, formVars, wizardVars>>
  /\ \A a \in Actors : WF_vars(Actor(a))

MCLever == Jobs \cap {"l", "m", "k"}
MCCompany == [l |-> "", m |-> "", k |-> "", w |-> "acme", g |-> "acme"]
MCUrlAts == [l |-> "lever", m |-> "lever", k |-> "lever", w |-> "greenhouse", g |-> ""]
MCPageAts == [l |-> "lever", m |-> "lever", k |-> "lever", w |-> "greenhouse",
              g |-> "workday"]
MCPerHour == [p \in {"lever", "greenhouse", "workday", ""} |-> 3]

(***************************************************************************)
(* The record of a browser run tells what became of every field of the page *)
(* or says nothing of it for one of the named reasons; that of a Workday    *)
(* run tells the wizard (_merge_review_items, _build_review_items).         *)
(***************************************************************************)
BrowserRunsAreTold == Form!RecordTellsThePage /\ Workday!WizardIsTold
=============================================================================

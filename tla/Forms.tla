-------------------------------- MODULE Forms --------------------------------
(***************************************************************************)
(* What one browser run of the orchestrator does to an application form:    *)
(* the click on "Apply", the Greenhouse adapter (fixed fields, cover        *)
(* letter, the questions the extractor reads and the mapper classifies) or  *)
(* the generic filler, and the record it leaves.  "filled" and "failed" are *)
(* FillSucceeds and FillFails of AutoApply; Workday has its own module.     *)
(*                                                                         *)
(* A page is a sequence of elements in DOM order; a text is "" where the    *)
(* element has none.  The value of a profile key stands for itself.  No     *)
(* caller passes a resume, and no code writes learned mappings.             *)
(***************************************************************************)
EXTENDS Naturals, Sequences, FiniteSets

CONSTANTS
  Sites,      \* [form, listing, apply, greenhouse] of the postings
  Profiles,   \* for each profile, the payload keys that have a value
  Tier1,      \* the key the mapper's patterns give each label, or ""
  Mappings,   \* the payload keys the generic filler tries for a label
  LetterIds   \* the ids that match each of COVER_LETTER_SELECTORS

VARIABLES
  site, profile,
  phase,      \* how far the run is
  shown,      \* what the tab shows: "listing", "form" or "thanks"
  read,       \* frames whose fields could be read
  todo,       \* elements still to be answered
  content,    \* value of each element
  filled,     \* fields_filled, as pairs
  missed, review,
  sent        \* the form went to the employer

formsVars == <<site, profile, phase, shown, read, todo, content, filled, missed, review, sent>>

\* Kinds of elements, and what they are in: the page, a frame that has a name or none, or a
\* frame of another site.
Kinds == {"text", "number", "select", "combo", "checkbox", "radio", "file"}
Places == {"page", "named", "unnamed", "foreign"}

NoSite == [form |-> <<>>, listing |-> TRUE, apply |-> FALSE, greenhouse |-> FALSE]

FormsInit ==
  /\ site = NoSite /\ profile = {} /\ phase = "idle" /\ shown = "listing"
  /\ read = {} /\ todo = <<>> /\ content = <<>>
  /\ filled = {} /\ missed = {} /\ review = {} /\ sent = FALSE

-----------------------------------------------------------------------------
(***************************************************************************)
(* Selectors and labels.                                                    *)
(***************************************************************************)
Least(S) == CHOOSE n \in S : \A k \in S : n <= k
First(order, text) ==
  LET present == {n \in DOMAIN order : text[order[n]] # ""}
  IN IF present = {} THEN "none" ELSE order[Least(present)]

AttrOrder == <<"id", "name", "automation", "testid", "css">>
RadioGroup(e) == <<"name", IF e.attr.name = "" THEN "unnamed_radio" ELSE e.attr.name>>
Selector(e) ==
  IF e.kind = "radio" THEN RadioGroup(e)
  ELSE LET k == First(AttrOrder, e.attr) IN <<k, e.attr[k]>>

ReadLabel(e, order) ==
  LET k == First(order, e.text) IN IF k = "none" THEN "" ELSE e.text[k]
LabelOrder == <<"aria", "labelledby", "for", "parent", "placeholder", "title", "name">>
Label(e) ==
  LET label == ReadLabel(e, IF e.kind = "radio" THEN <<"legend">> \o LabelOrder ELSE LabelOrder)
  IN IF label = "" THEN "unknown_field" ELSE label
GenericLabel(e) == ReadLabel(e, <<"aria", "for", "parent", "placeholder", "name">>)

Element(i) == site.form[i]
OnPage == IF shown = "form" THEN DOMAIN site.form ELSE {}

InOrder(S, R) ==
  [n \in 1..Cardinality(S) |-> CHOOSE i \in S : Cardinality({k \in S : <<k, i>> \in R}) = n - 1]

\* page.locator(selector).first does not look into frames.
Hits(s) == {i \in OnPage : Element(i).frame = "page" /\ Element(i).attr[s[1]] = s[2]}
Target(s) == Least(Hits(s))

(***************************************************************************)
(* The extractor: context by context, kind by kind, in DOM order, one field *)
(* per selector.  Frames of other sites are never read.                     *)
(***************************************************************************)
Frames == <<"page", "named", "unnamed">>
Sweeps == <<{"text"}, {"number"}, {"select", "combo"}, {"checkbox"}, {"radio"}, {"file"}>>
Rank(e) ==
  << CHOOSE c \in DOMAIN Frames : Frames[c] = e.frame,
     CHOOSE s \in DOMAIN Sweeps : e.kind \in Sweeps[s] >>
Before(i, k) ==
  LET r == Rank(Element(i))  q == Rank(Element(k))
  IN \/ r[1] < q[1]
     \/ r[1] = q[1] /\ r[2] < q[2]
     \/ r = q /\ i < k
Legible(i, contexts) ==
  Element(i).frame \in contexts /\ (Element(i).visible \/ Element(i).kind = "file")
SameField(i, k) ==
  Element(i).frame = Element(k).frame /\ Selector(Element(i)) = Selector(Element(k))
Extracted(contexts) ==
  LET legible == {i \in OnPage : Legible(i, contexts)}
      fields == {i \in legible : ~\E k \in legible : SameField(i, k) /\ Before(k, i)}
  IN InOrder(fields, {p \in fields \X fields : Before(p[1], p[2])})

\* query_selector_all("input:visible, select:visible, textarea:visible")
Detected ==
  LET fields == {i \in OnPage : /\ Element(i).frame = "page" /\ Element(i).visible
                                /\ Element(i).kind # "combo"}
  IN InOrder(fields, {p \in fields \X fields : p[1] < p[2]})

-----------------------------------------------------------------------------
(***************************************************************************)
(* Values.                                                                  *)
(***************************************************************************)
Aliases ==
  [city |-> <<"location", "location_city">>, location |-> <<"city", "location_city">>,
   portfolio |-> <<"portfolio_url", "website_url">>, github |-> <<"github_url">>,
   linkedin |-> <<"linkedin_url">>]
FirstValue(keys) ==
  LET present == SelectSeq(keys, LAMBDA k : k \in profile)
  IN IF present = <<>> THEN "" ELSE Head(present)
Lookup(key) ==
  FirstValue(<<key>> \o IF key \in DOMAIN Aliases THEN Aliases[key] ELSE <<>>)

Fillable(i) == Element(i).kind \in {"text", "number"} /\ Element(i).visible
Fill(i, value) == content' = [content EXCEPT ![i] = value]
\* A dict: the last value claimed for a label stands.
Claim(label, value) == filled' = {c \in filled : c[1] # label} \cup {<<label, value>>}
\* Mutant: a question that could not be answered is not recorded.
Miss_unsaid(label) == UNCHANGED <<missed, filled, content, review>>
Miss(label) == missed' = missed \cup {label} /\ UNCHANGED <<filled, content, review>>
Ask(label) ==
  review' = review \cup {<<"Review custom question", label>>} /\ UNCHANGED <<missed, filled, content>>

-----------------------------------------------------------------------------
(***************************************************************************)
(* The run.                                                                 *)
(***************************************************************************)
Visit(s, p) ==
  /\ phase = "idle"
  /\ site' = s /\ profile' = p /\ phase' = "visit"
  /\ shown' = IF s.listing THEN "listing" ELSE "form"
  /\ content' = [i \in DOMAIN s.form |-> ""]
  /\ UNCHANGED <<read, todo, filled, missed, review, sent>>

Adapter == IF site.greenhouse THEN "standard" ELSE "detect"

\* The first "Apply" of a page that is the form itself sends it, if its own
\* checks let it.
ClickApply ==
  /\ phase = "visit"
  /\ site.apply /\ ~site.greenhouse
  /\ \/ shown = "listing" /\ shown' = "form" /\ UNCHANGED sent
     \/ shown = "form" /\ UNCHANGED <<shown, sent>>
     \/ shown = "form" /\ shown' = "thanks" /\ sent' = TRUE
  /\ phase' = Adapter
  /\ UNCHANGED <<site, profile, read, todo, content, filled, missed, review>>

StayOnPage ==
  /\ phase = "visit"
  /\ ~site.apply \/ site.greenhouse
  /\ phase' = Adapter
  /\ UNCHANGED <<site, profile, shown, read, todo, content, filled, missed, review, sent>>

FieldMap ==
  [first_name |-> "first_name", last_name |-> "last_name", email |-> "email",
   phone |-> "phone", job_application_location |-> "city"]
StandardId(id) == <<"id", id>>

\* Assumed of the constants by the module that instantiates this one: no id of a cover
\* letter is one of the five of FIELD_MAP.
FormsAssumption ==
  /\ \A s \in Sites :
       /\ s.form \in Seq({s.form[i] : i \in DOMAIN s.form})
       /\ \A i \in DOMAIN s.form : s.form[i].kind \in Kinds /\ s.form[i].frame \in Places
  /\ DOMAIN LetterIds = 1..3
  /\ \A n \in 1..3 : LetterIds[n] \cap DOMAIN FieldMap = {}

FillStandard ==
  LET known == {id \in DOMAIN FieldMap :
                  Lookup(FieldMap[id]) # "" /\ Hits(StandardId(id)) # {}}
  IN /\ phase = "standard"
     /\ \A id \in known : Fillable(Target(StandardId(id)))
     /\ content' = [i \in DOMAIN content |->
                      LET ids == {id \in known : Target(StandardId(id)) = i}
                      IN IF ids = {} THEN "" ELSE Lookup(FieldMap[CHOOSE id \in ids : TRUE])]
     /\ filled' = {<<FieldMap[id], Lookup(FieldMap[id])>> : id \in known}
     /\ missed' = {FieldMap[id] : id \in DOMAIN FieldMap \ known}
     /\ phase' = "letter"
     /\ UNCHANGED <<site, profile, shown, read, todo, review, sent>>

LetterHits(n) ==
  {i \in OnPage : /\ Element(i).frame = "page" /\ Element(i).attr.id \in LetterIds[n]
                  /\ n = 2 => Element(i).kind = "text"}
WriteLetter ==
  /\ phase = "letter"
  /\ IF "cover_letter" \notin profile THEN UNCHANGED <<content, filled, missed, review>>
     ELSE LET found == {n \in DOMAIN LetterIds : LetterHits(n) # {}}
          IN IF found = {} THEN Miss("cover_letter")
             ELSE LET i == Least(LetterHits(Least(found)))
                  IN /\ Fillable(i)
                     /\ Fill(i, "cover_letter") /\ Claim("cover_letter", "cover_letter")
                     /\ UNCHANGED <<missed, review>>
  /\ phase' = "extract"
  /\ UNCHANGED <<site, profile, shown, read, todo, sent>>

\* A frame that cannot be read is skipped; a page that cannot be read leaves no
\* question at all.
Extract ==
  /\ phase = "extract"
  /\ \E frames \in SUBSET {"named", "unnamed"} :
       \E contexts \in {{}, {"page"} \cup frames} :
         read' = contexts /\ todo' = Extracted(contexts)
  /\ phase' = "ask"
  /\ UNCHANGED <<site, profile, shown, content, filled, missed, review, sent>>

Reserved(e) ==
  /\ e.frame = "page"
  /\ Selector(e) \in {StandardId(id) : id \in DOMAIN FieldMap \cup
                        {"cover_letter", "job_application_answers_attributes_0_text_value"}}

\* A profile value is neither "yes" nor "true": no box is ever ticked.
FillDynamic(e, value) ==
  LET i == Target(Selector(e))
  IN /\ \/ /\ e.kind \in {"select", "combo"} /\ Element(i).kind = "select"
           /\ Element(i).visible /\ value \in Element(i).options
        \/ e.kind \in {"text", "number"} /\ Fillable(i)
     /\ Fill(i, value) /\ Claim(Label(e), value)
     /\ UNCHANGED <<missed, review>>

Question(e) ==
  IF Reserved(e) \/ e.kind = "file" THEN UNCHANGED <<content, filled, missed, review>>
  ELSE IF Tier1[Label(e)] = "" THEN Ask(Label(e))  \* also when the lookup of learned ones fails
  ELSE LET value == Lookup(Tier1[Label(e)])
       IN IF value = "" THEN Miss(Label(e))
          ELSE /\ e.frame # "unnamed"  \* "iframe[https://..." is no selector
               /\ IF e.frame = "named" \/ Hits(Selector(e)) = {} \/ e.kind = "checkbox"
                  THEN Miss(Label(e)) ELSE FillDynamic(e, value)

AnswerQuestion ==
  /\ phase = "ask" /\ todo # <<>>
  /\ Question(Element(Head(todo)))
  /\ todo' = Tail(todo)
  /\ UNCHANGED <<site, profile, phase, shown, read, sent>>

DetectFields ==
  /\ phase = "detect"
  /\ todo' = Detected
  /\ phase' = "fill"
  /\ UNCHANGED <<site, profile, shown, read, content, filled, missed, review, sent>>

\* What the model answers is "yes", prose, or nothing.
FillField(i, value) ==
  LET e == Element(i)
  IN /\ e.kind # "file"  \* no value is a path
     /\ e.kind = "select" => value \in e.options
     /\ IF e.kind \in {"checkbox", "radio"} /\ value # "yes" THEN UNCHANGED content
        ELSE Fill(i, value)
     /\ Claim(GenericLabel(e), value)

FillGeneric ==
  /\ phase = "fill" /\ todo # <<>>
  /\ LET i == Head(todo)
         label == GenericLabel(Element(i))
         value == FirstValue(Mappings[label])
     IN IF value # "" THEN FillField(i, value) /\ UNCHANGED <<missed, review>>
        ELSE \/ Miss(label)
             \/ /\ Element(i).kind # "file"
                /\ \E answer \in {"yes", "prose"} : FillField(i, answer)
                /\ review' = review \cup {<<"Confirm generated answer", label>>}
                /\ UNCHANGED missed
  /\ todo' = Tail(todo)
  /\ UNCHANGED <<site, profile, phase, shown, read, sent>>

\* What the user is told of a filled form.
ReviewItemsForRun ==
  {<<"Manual confirmation", "">>} \cup review \cup {<<"Provide value", label>> : label \in missed}
Record ==
  /\ phase \in {"ask", "fill"} /\ todo = <<>>
  /\ review' = ReviewItemsForRun
  /\ phase' = "filled"
  /\ UNCHANGED <<site, profile, shown, read, todo, content, filled, missed, sent>>

\* Any call of the browser may raise or time out; the record says nothing then.
RunFails ==
  /\ phase \notin {"idle", "filled", "failed"}
  /\ phase' = "failed"
  /\ filled' = {} /\ missed' = {} /\ review' = {}
  /\ UNCHANGED <<site, profile, shown, read, todo, content, sent>>

CloseBrowser ==
  /\ phase \in {"filled", "failed"}
  /\ site' = NoSite /\ profile' = {} /\ phase' = "idle" /\ shown' = "listing"
  /\ read' = {} /\ todo' = <<>> /\ content' = <<>>
  /\ filled' = {} /\ missed' = {} /\ review' = {} /\ sent' = FALSE

FormsNext ==
  \/ \E s \in Sites, p \in Profiles : Visit(s, p)
  \/ ClickApply \/ StayOnPage
  \/ FillStandard \/ WriteLetter \/ Extract \/ AnswerQuestion
  \/ DetectFields \/ FillGeneric
  \/ Record \/ RunFails \/ CloseBrowser

-----------------------------------------------------------------------------
(***************************************************************************)
(* Names under which the record may speak of an element.                    *)
(***************************************************************************)
Names(i) ==
  LET e == Element(i)
  IN {Label(e), GenericLabel(e)}
     \cup {FieldMap[id] : id \in {k \in DOMAIN FieldMap : e.attr.id = k}}
     \cup {"cover_letter" : n \in {k \in DOMAIN LetterIds : e.attr.id \in LetterIds[k]}}

\* Two elements the selectors do not tell apart.
Contested(i) ==
  /\ site.greenhouse /\ Element(i).frame = "page"
  /\ \/ Hits(Selector(Element(i))) = {} \/ Target(Selector(Element(i))) # i
     \/ \E k \in OnPage \ {i} : i \in Hits(Selector(Element(k)))

\* A field that gets the cover letter, and may get the answer to a question after it:
\* its own selector is not among those the adapter sets aside.
Rewritten(i) ==
  /\ site.greenhouse /\ \E n \in DOMAIN LetterIds : Element(i).attr.id \in LetterIds[n]
  /\ ~Reserved(Element(i))

\* Where neither adapter looks.
Overlooked(i) ==
  LET e == Element(i)
  IN \/ ~e.visible \/ e.frame \in {"foreign"} \cup (IF site.greenhouse THEN {} ELSE {"named", "unnamed"})
     \/ site.greenhouse /\ (e.frame \notin read \/ e.kind = "file" \/ Contested(i))
     \/ site.greenhouse /\ \E k \in OnPage \ {i} : SameField(i, k)
     \/ site.greenhouse /\ Reserved(e) /\ e.attr.id \notin DOMAIN FieldMap
     \/ ~site.greenhouse /\ e.kind \in {"combo", "checkbox", "radio"}

(***************************************************************************)
(* The user who finishes a run by hand can trust its record: a question     *)
(* left empty is on the review list, but for the places no adapter looks    *)
(* at, and a value it claims is in a field of that name, but for boxes of   *)
(* the generic filler, fields that share a selector, and cover letters that *)
(* a question has overwritten (fill_form, GreenhouseBrowserAdapter.apply,   *)
(* _merge_review_items).                                                    *)
(***************************************************************************)
RecordTellsThePage ==
  phase = "filled" =>
    /\ \A i \in OnPage :
         \/ content[i] # "" \/ Overlooked(i)
         \/ \E item \in review : item[2] \in Names(i)
    /\ \A claim \in filled : \E i \in OnPage :
         /\ claim[1] \in Names(i)
         /\ \/ content[i] = claim[2] \/ Contested(i) \/ Rewritten(i)
            \/ ~site.greenhouse /\ Element(i).kind \in {"checkbox", "radio"}
    /\ sent => filled = {} /\ missed = {}
=============================================================================

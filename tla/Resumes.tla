--------------------------------- MODULE Resumes ---------------------------------
(***********************************************************************************)
(* A user's resume versions and the one that is the default (resume/service.py), the  *)
(* applications that name a version (pipeline/service.py, create_application) and the *)
(* letters written from the default one (copilot/service.py).  A request reads the    *)
(* versions it needs, may wait for a model, and writes; setting the default writes    *)
(* the flags that differ from what it has read.                                      *)
(***********************************************************************************)
EXTENDS Integers, FiniteSets

CONSTANTS Versions, Requests

NoVersion == "none"
\* Assumed of the constants by the module that instantiates this one.
VersionsAreVersions == NoVersion \notin Versions /\ IsFiniteSet(Versions)

VARIABLES
    version,   \* those stored: [default, at, text], in the order at; text is FALSE when empty
    named,     \* versions that applications name
    letter,    \* those stored: [from, wellDone]
    req,       \* of each request: [op, at, v, read]: what it does, to which version, and the
               \* versions as it has read them
    clock,
    expected,  \* history: the versions that should be the default ...
    crossed    \* ... unless requests crossed since the last undisturbed choice

resumeVars == <<version, named, letter, req, clock, expected, crossed>>

Resting == [op |-> "none", at |-> "idle", v |-> NoVersion, read |-> [v \in {} |-> 0]]
Done == [Resting EXCEPT !.at = "done"]

\* Some versions have been uploaded one after the other, and none was chosen yet.
ResumesInit ==
    /\ \E V \in SUBSET Versions :
         /\ clock = Cardinality(V)
         /\ version \in [V -> [default : {FALSE}, at : 1..clock, text : {TRUE}]]
         /\ \A v, w \in V : v # w => version[v].at # version[w].at
    /\ named = {} /\ letter = {}
    /\ req = [r \in Requests |-> Resting]
    /\ expected = {} /\ crossed = FALSE

Stored == DOMAIN version
Defaults == {v \in Stored : version[v].default}
Start(r, op, at, v) ==
    /\ req[r].at = "idle"
    /\ req' = [req EXCEPT ![r] = [op |-> op, at |-> at, v |-> v, read |-> version]]
    /\ UNCHANGED <<version, named, letter, clock, expected, crossed>>
Begin(r, op, v) == Start(r, op, "read", v)
Doing(r, op) == req[r].at = "read" /\ req[r].op = op
End(r) == req' = [req EXCEPT ![r] = Done]
\* The version is gone, or the default no longer what the request has read.
Disturbed(r) ==
    \/ req[r].v \notin DOMAIN req[r].read \cap Stored
    \/ {v \in DOMAIN req[r].read \cap Stored : req[r].read[v].default} # Defaults

-----------------------------------------------------------------------------------
(* The versions *)

\* upload_resume: the text is parsed first; what cannot be parsed is stored as it is.  No
\* version has the id of another, be it deleted.
BeginUpload(r, v) == v \notin Stored /\ (\A q \in Requests : req[q].v # v) /\ Begin(r, "upload", v)
Upload(r, text) ==
    /\ Doing(r, "upload") /\ End(r) /\ clock' = clock + 1
    /\ version' = [v \in Stored \cup {req[r].v} |->
                      IF v = req[r].v THEN [default |-> FALSE, at |-> clock', text |-> text]
                      ELSE version[v]]
    /\ UNCHANGED <<named, letter, expected, crossed>>

\* update_version with is_default: the version is loaded, then the list, in which a version
\* that is loaded stays as it was.
BeginChoose(r, v) == v \in Stored /\ Start(r, "choose", "loaded", v)
Listed(r) == [v \in Stored |-> IF v = req[r].v THEN req[r].read[v] ELSE version[v]]
List(r) ==
    /\ req[r].at = "loaded"
    /\ req' = [req EXCEPT ![r] = [op |-> "choose", at |-> "read", v |-> req[r].v,
                                  read |-> Listed(r)]]
    /\ UNCHANGED <<version, named, letter, clock, expected, crossed>>
Flags(r) == [v \in DOMAIN req[r].read |-> v = req[r].v]
Changed(r) == {v \in DOMAIN Flags(r) : Flags(r)[v] # req[r].read[v].default}
Choose(r) ==
    /\ Doing(r, "choose") /\ Changed(r) \subseteq Stored /\ End(r)
    /\ version' = [v \in Stored |-> IF v \in Changed(r)
                                    THEN [version[v] EXCEPT !.default = Flags(r)[v]] ELSE version[v]]
    /\ IF Disturbed(r) THEN crossed' = TRUE /\ UNCHANGED expected
                       ELSE crossed' = FALSE /\ expected' = {req[r].v}
    /\ UNCHANGED <<named, letter, clock>>
\* One of the rows to be changed was deleted meanwhile.
ChooseFails(r) ==
    /\ Doing(r, "choose") /\ ~(Changed(r) \subseteq Stored) /\ End(r)
    /\ UNCHANGED <<version, named, letter, clock, expected, crossed>>

BeginUnset(r, v) == v \in Stored /\ Begin(r, "unset", v)
Unset(r) ==
    LET v == req[r].v
        change == req[r].read[v].default
    IN  /\ Doing(r, "unset") /\ End(r)
        /\ IF change /\ v \in Stored
           THEN /\ version' = [version EXCEPT ![v].default = FALSE]
                /\ expected' = expected \ {v}
           ELSE UNCHANGED <<version, expected>>
        /\ crossed' = (crossed \/ Disturbed(r)) /\ UNCHANGED <<named, letter, clock>>

\* A version that an application names cannot be deleted.
BeginDelete(r, v) == v \in Stored /\ Begin(r, "delete", v)
Delete(r) ==
    /\ Doing(r, "delete") /\ req' = [req EXCEPT ![r] = [Done EXCEPT !.v = req[r].v]]
    /\ version' = IF req[r].v \in named THEN version
                  ELSE [v \in Stored \ {req[r].v} |-> version[v]]
    /\ expected' = expected \cap DOMAIN version'
    /\ UNCHANGED <<named, letter, clock, crossed>>

CreateApplication(v) ==
    /\ v \in Stored \ named /\ named' = named \cup {v}
    /\ UNCHANGED <<version, letter, req, clock, expected, crossed>>

-----------------------------------------------------------------------------------
(* Letters *)

\* The default version, of several the newest; without any, the newest of all.
Foremost(V) ==
    LET best == IF \E v \in DOMAIN V : V[v].default
                THEN {v \in DOMAIN V : V[v].default} ELSE DOMAIN V
    IN  IF best = {} THEN NoVersion
        ELSE CHOOSE v \in best : \A w \in best : V[w].at <= V[v].at

BeginLetter(r) == Begin(r, "letter", Foremost(version))
\* A letter is stored whatever happens: the model's, or a sentence that says why not.
Letter(r, wellDone) ==
    LET v == req[r].v
    IN  /\ Doing(r, "letter") /\ End(r)
        /\ wellDone => v # NoVersion /\ req[r].read[v].text
        /\ letter' = letter \cup {[from |-> v, wellDone |-> wellDone]}
        /\ UNCHANGED <<version, named, clock, expected, crossed>>

ResumesNext ==
    \/ \E r \in Requests :
           \/ \E v \in Versions : BeginUpload(r, v) \/ BeginChoose(r, v) \/ BeginUnset(r, v)
                                  \/ BeginDelete(r, v)
           \/ BeginLetter(r) \/ List(r)
           \/ Choose(r) \/ ChooseFails(r) \/ Unset(r) \/ Delete(r)
           \/ \E text \in BOOLEAN : Upload(r, text) \/ Letter(r, text)
    \/ \E v \in Versions : CreateApplication(v)

ResumesSpec == ResumesInit /\ [][ResumesNext]_resumeVars

-----------------------------------------------------------------------------------
(* Properties *)

ResumesTypeOK ==
    /\ Stored \subseteq Versions /\ named \subseteq Stored /\ expected \subseteq Versions
    /\ \A v \in Stored : version[v].default \in BOOLEAN /\ version[v].text \in BOOLEAN

\* Exactly the chosen version is the default, minus what was unset or deleted since: two
\* defaults, or none after a choice, come only of requests that crossed, and the next
\* undisturbed choice heals them.
DefaultExplained == ~crossed => Defaults = expected
===================================================================================

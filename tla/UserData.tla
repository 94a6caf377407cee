-------------------------------- MODULE UserData ---------------------------------
(***********************************************************************************)
(* The rows users own and share: scrapes that store jobs (scraping/service_parts/   *)
(* persistence.py), requests and applications that point at jobs, and the clearing   *)
(* of a user's data or account (admin/service.py, clear_data; auth/router.py,        *)
(* delete_account), as transactions that overlap.                                    *)
(*                                                                                  *)
(* Job ids and ATS keys are global: whoever stores a posting first owns the row, and *)
(* later scrapes of anybody update it.  A transaction is a session: it sees what is  *)
(* committed and its own writes, a write waits for the locks of other sessions, and  *)
(* the database aborts a session of every cycle of waiting ones.                     *)
(*                                                                                  *)
(* Of a job's columns only the owner, the target it was found by, the ATS key and    *)
(* the count of sightings are kept; a user has one scrape target.  The lookup by key *)
(* and the one by id are one step.                                                   *)
(***********************************************************************************)
EXTENDS Naturals, Sequences, FiniteSets

CONSTANTS
    Users, Ids, Keys,
    Leaving,      \* the users who may ask for an erasure
    Items,        \* what scrapers find: [id, key], with NoKey for postings without one
    NoKey, Nobody, NoJob,
    Batches,      \* what a scrape may find: sequences of items
    Kinds,        \* "referral" (ON DELETE CASCADE), "application" (ON DELETE SET NULL)
    Sessions,
    MaxScrapes, MaxNotes, MaxErasures   \* bounds

ASSUME Found == /\ Items \subseteq [id : Ids, key : Keys \cup {NoKey}]
                /\ Batches \subseteq Seq(Items) /\ Leaving \subseteq Users

VARIABLES
    users,      \* the accounts
    targets,    \* the users whose scrape target exists
    runs,       \* committed run records of each user
    rows,       \* the jobs, <<>> where there is none
    notes,      \* [by, kind, job]: rows of users that point at jobs
    work,       \* what each session does
    dirty,      \* what each session has written and not committed
    sightings,  \* history: committed sightings of each row's posting
    raced,      \* history: rows written from an outdated reading
    overlapped, \* history: the erasing user did something else meanwhile
    verdict,    \* history: what became of the last erasure
    spent       \* bounds: scrapes, notes and erasures so far

vars == <<users, targets, runs, rows, notes, work, dirty, sightings, raced, overlapped,
          verdict, spent>>

Idle == [op |-> "none"]
Nothing == <<>>
Untouched == [i \in {} |-> Nothing]

Init ==
    /\ users = Users /\ targets = Users /\ runs = [u \in Users |-> 0]
    /\ rows = [i \in Ids |-> Nothing] /\ notes = {}
    /\ work = [s \in Sessions |-> Idle] /\ dirty = [s \in Sessions |-> Untouched]
    /\ sightings = [i \in Ids |-> 0] /\ raced = {}
    /\ overlapped = [s \in Sessions |-> FALSE] /\ verdict = "none"
    /\ spent = [scrapes |-> 0, notes |-> 0, erasures |-> 0]

-----------------------------------------------------------------------------------
(* What a session sees, and whom it waits for *)

Scraping(s) == work[s].op = "scrape"
Erasing(s) == work[s].op = "erase"
Touched(s) == DOMAIN dirty[s]
View(s) == [i \in Ids |-> IF i \in Touched(s) THEN dirty[s][i] ELSE rows[i]]
Others(s) == Sessions \ {s}
OwnJobs(u) == {i \in Ids : rows[i] # Nothing /\ rows[i].owner = u}
\* Rows a session has inserted under a user, or hung on a user's target.
InsertedFor(t, u) == {i \in Touched(t) : rows[i] = Nothing /\ dirty[t][i] # Nothing
                                          /\ dirty[t][i].owner = u}
AimedAt(t, u) == {i \in Touched(t) : dirty[t][i] # Nothing /\ dirty[t][i].target = u}

HasKey(row, k) == row # Nothing /\ row.key = k
\* The column a scrape writes: only what differs from what it has read.
Aim(s) == IF work[s].aimed THEN work[s].user ELSE Nobody
Setting(old, read, new) == IF read = new THEN old ELSE new
Key(s) == work[s].pending.item.key
At(s) == work[s].pending.at
Read(s) == work[s].pending.read

BlocksWrite(s, t) ==
    \/ At(s) \in Touched(t)
    \/ Key(s) # NoKey /\ \E i \in Touched(t) : HasKey(rows[i], Key(s)) \/ HasKey(dirty[t][i], Key(s))
    \/ Aim(s) # Nobody /\ Erasing(t) /\ work[t].user = Aim(s) /\ work[t].step = "user"
\* The notes an erasure has deleted, itself or with the jobs they point at.
Taken(t) == IF Erasing(t) THEN work[t].taken \cup {n \in notes : n.job \in Touched(t)} ELSE {}
BlocksErasure(s, t) ==
    LET owner == work[s].user
    IN  CASE work[s].step = "notes" -> \E n \in Taken(t) : n.by = owner
          [] work[s].step = "jobs" -> \/ Touched(t) \cap OwnJobs(owner) # {}
                                      \/ \E n \in Taken(t) : n.job \in OwnJobs(owner)
          [] work[s].step = "targets" ->
                 \/ AimedAt(t, owner) # {}
                 \/ Erasing(t) /\ work[t].user = owner /\ work[t].step = "user"
          [] work[s].step = "user" ->
                 ~work[s].keep /\ (\/ InsertedFor(t, owner) # {}
                                   \/ Scraping(t) /\ work[t].user = owner /\ ~work[t].aimed)
Blockers(s) ==
    {t \in Others(s) : \/ Scraping(s) /\ work[s].pending # Nothing /\ BlocksWrite(s, t)
                       \/ Erasing(s) /\ BlocksErasure(s, t)}
\* In a cycle of waiting sessions, if there is one.
Deadlocked(s) ==
    \E C \in SUBSET Sessions :
        s \in C /\ \A t \in C : Blockers(t) \cap C # {} /\ \E r \in C : t \in Blockers(r)

Go(s, to) == work' = [work EXCEPT ![s] = to]
End(s) == work' = [work EXCEPT ![s] = Idle] /\ dirty' = [dirty EXCEPT ![s] = Untouched]
Committed(s) == rows' = View(s)
\* What a user does while an erasure of the same user goes on.
Disturbed(s, u, t) == overlapped[t] \/ (t # s /\ Erasing(t) /\ work[t].user = u)
Note(s, u) == overlapped' = [t \in Sessions |-> Disturbed(s, u, t)]

-----------------------------------------------------------------------------------
(* Scrapes *)

\* run_scrape inserts its run record first; a target batch has committed one before.
BeginScrape(s, u, aimed, batch) ==
    /\ work[s] = Idle /\ u \in users /\ (aimed => u \in targets)
    /\ spent.scrapes < MaxScrapes /\ spent' = [spent EXCEPT !.scrapes = @ + 1]
    /\ Go(s, [op |-> "scrape", user |-> u, aimed |-> aimed, todo |-> batch,
              pending |-> Nothing, hits |-> [i \in Ids |-> 0]])
    /\ runs' = IF aimed THEN [runs EXCEPT ![u] = @ + 1] ELSE runs
    /\ Note(s, u) /\ UNCHANGED <<users, targets, rows, notes, dirty, sightings, raced, verdict>>

\* The row with the item's key, else the one with its id.
Lookup(s) ==
    /\ Scraping(s) /\ work[s].pending = Nothing /\ work[s].todo # <<>>
    /\ LET item == Head(work[s].todo)
           same == {i \in Ids : item.key # NoKey /\ HasKey(View(s)[i], item.key)}
       IN  \E at \in IF same # {} THEN same ELSE {item.id} :
               Go(s, [work[s] EXCEPT !.todo = Tail(work[s].todo),
                         !.pending = [item |-> item, at |-> at, read |-> View(s)[at]]])
    /\ UNCHANGED <<users, targets, runs, rows, notes, dirty, sightings, raced, overlapped,
                   verdict, spent>>

\* Mutant: a row seen again starts to count anew.
Row_anew(s) ==
    [View(s)[At(s)] EXCEPT !.target = Setting(@, Read(s).target, Aim(s)),
                        !.key = Setting(@, Read(s).key, Key(s)), !.seen = 1]
Row(s) ==
    LET now == View(s)[At(s)]
    IN  [now EXCEPT !.target = Setting(now.target, Read(s).target, Aim(s)),
                    !.key = Setting(now.key, Read(s).key, Key(s)), !.seen = Read(s).seen + 1]
NewRow(s) == [owner |-> work[s].user, target |-> Aim(s), key |-> Key(s), seen |-> 1]

\* Unique keys and ids, foreign keys, and an UPDATE that finds its row.
Accepted(s) ==
    /\ Key(s) # NoKey => \A i \in Ids \ {At(s)} : ~HasKey(View(s)[i], Key(s))
    /\ Aim(s) = Nobody \/ Aim(s) \in targets
    /\ IF Read(s) = Nothing THEN View(s)[At(s)] = Nothing /\ work[s].user \in users
                            ELSE View(s)[At(s)] # Nothing

\* The flush of one item: by the next lookup, or at the end.
Write(s) ==
    /\ Scraping(s) /\ work[s].pending # Nothing /\ Blockers(s) = {} /\ Accepted(s)
    /\ LET i == At(s)
           row == IF Read(s) = Nothing THEN NewRow(s) ELSE Row(s)
       IN  /\ dirty' = [dirty EXCEPT ![s] = [j \in Touched(s) \cup {i} |->
                                                IF j = i THEN row ELSE dirty[s][j]]]
           /\ raced' = IF Read(s) # Nothing /\ Read(s).seen # View(s)[i].seen
                       THEN raced \cup {i} ELSE raced
    /\ Go(s, [work[s] EXCEPT !.pending = Nothing,
                             !.hits = [work[s].hits EXCEPT ![At(s)] = work[s].hits[At(s)] + 1]])
    /\ UNCHANGED <<users, targets, runs, rows, notes, sightings, overlapped, verdict, spent>>

\* A refused flush loses the whole scrape.
ScrapeFails(s) ==
    /\ Scraping(s) /\ work[s].pending # Nothing /\ Blockers(s) = {} /\ ~Accepted(s)
    /\ End(s)
    /\ UNCHANGED <<users, targets, runs, rows, notes, sightings, raced, overlapped, verdict, spent>>

\* Mutant: without a run record there is nothing to complete, and no commit.
Finish_uncommitted(s) ==
    /\ Scraping(s) /\ work[s].pending = Nothing /\ work[s].todo = <<>>
    /\ work' = [work EXCEPT ![s] = Idle] /\ UNCHANGED <<dirty, rows, sightings, runs>>
    /\ Note(s, work[s].user)
    /\ UNCHANGED <<users, targets, notes, raced, verdict, spent>>
Finish(s) ==
    /\ Scraping(s) /\ work[s].pending = Nothing /\ work[s].todo = <<>>
    /\ Committed(s) /\ End(s)
    /\ sightings' = [i \in Ids |-> sightings[i] + work[s].hits[i]]
    /\ runs' = IF work[s].aimed THEN runs ELSE [runs EXCEPT ![work[s].user] = @ + 1]
    /\ Note(s, work[s].user)
    /\ UNCHANGED <<users, targets, notes, raced, verdict, spent>>

\* create_referral_request, create_application: any job's id will do.
Deleting(i) == \E t \in Sessions : Erasing(t) /\ i \in Touched(t)
AddNote(u, kind, i) ==
    /\ u \in users /\ rows[i] # Nothing /\ ~Deleting(i)
    /\ spent.notes < MaxNotes /\ spent' = [spent EXCEPT !.notes = @ + 1]
    /\ notes' = notes \cup {[by |-> u, kind |-> kind, job |-> i]}
    /\ overlapped' = [t \in Sessions |-> overlapped[t] \/ (Erasing(t) /\ work[t].user = u)]
    /\ UNCHANGED <<users, targets, runs, rows, work, dirty, sightings, raced, verdict>>

-----------------------------------------------------------------------------------
(* Erasures: the tables in their order, children first *)

BeginErasure(s, u, keep) ==
    /\ work[s] = Idle /\ u \in users \cap Leaving
    /\ spent.erasures < MaxErasures /\ spent' = [spent EXCEPT !.erasures = @ + 1]
    /\ Go(s, [op |-> "erase", user |-> u, keep |-> keep, step |-> "notes", taken |-> {}, runs |-> 0])
    /\ overlapped' = [t \in Sessions |->
                         IF t # s THEN Disturbed(s, u, t)
                         ELSE \E r \in Others(s) : work[r] # Idle /\ work[r].user = u]
    /\ UNCHANGED <<users, targets, runs, rows, notes, dirty, sightings, raced, verdict>>

EraseNotes(s) ==
    /\ Erasing(s) /\ work[s].step = "notes" /\ Blockers(s) = {}
    /\ Go(s, [work[s] EXCEPT !.step = "jobs", !.taken = {n \in notes : n.by = work[s].user}])
    /\ UNCHANGED <<users, targets, runs, rows, notes, dirty, sightings, raced, overlapped,
                   verdict, spent>>

\* Mutant: the jobs found by the user's target go too, whoever owns them.
EraseJobs_found(s) ==
    /\ Erasing(s) /\ work[s].step = "jobs" /\ Blockers(s) = {}
    /\ dirty' = [dirty EXCEPT ![s] = [i \in {j \in Ids : rows[j] # Nothing
                    /\ work[s].user \in {rows[j].owner, rows[j].target}} |-> Nothing]]
    /\ Go(s, [work[s] EXCEPT !.step = "targets"])
    /\ UNCHANGED <<users, targets, runs, rows, notes, sightings, raced, overlapped, verdict, spent>>
EraseJobs(s) ==
    /\ Erasing(s) /\ work[s].step = "jobs" /\ Blockers(s) = {}
    /\ dirty' = [dirty EXCEPT ![s] = [i \in OwnJobs(work[s].user) |-> Nothing]]
    /\ Go(s, [work[s] EXCEPT !.step = "targets"])
    /\ UNCHANGED <<users, targets, runs, rows, notes, sightings, raced, overlapped, verdict, spent>>

\* Jobs of others that were last found by this user's target.
Shared(s) == {i \in Ids : View(s)[i] # Nothing /\ View(s)[i].target = work[s].user}

EraseTargets(s) ==
    /\ Erasing(s) /\ work[s].step = "targets" /\ Blockers(s) = {} /\ Shared(s) = {}
    /\ Go(s, [work[s] EXCEPT !.step = "user", !.runs = runs[work[s].user]])
    /\ UNCHANGED <<users, targets, runs, rows, notes, dirty, sightings, raced, overlapped,
                   verdict, spent>>

\* The user's rows that the statements so far have not deleted.
Left(s) ==
    \/ \E i \in Ids : View(s)[i] # Nothing /\ View(s)[i].owner = work[s].user
    \/ \E n \in notes \ work[s].taken :
           n.by = work[s].user /\ ~(n.kind = "referral" /\ n.job \in Touched(s))
    \/ runs[work[s].user] # work[s].runs
\* What the deletion of jobs does to the rows that point at them.
Cascaded(s) ==
    LET kept == {n \in notes \ work[s].taken : ~(n.kind = "referral" /\ n.job \in Touched(s))}
    IN  {IF n.job \in Touched(s) THEN [n EXCEPT !.job = NoJob] ELSE n : n \in kept}

EraseUser(s) ==
    /\ Erasing(s) /\ work[s].step = "user" /\ Blockers(s) = {} /\ (work[s].keep \/ ~Left(s))
    /\ Committed(s) /\ End(s) /\ notes' = Cascaded(s)
    /\ runs' = [runs EXCEPT ![work[s].user] = @ - work[s].runs]
    /\ users' = IF work[s].keep THEN users ELSE users \ {work[s].user}
    /\ targets' = targets \ {work[s].user}
    /\ sightings' = [i \in Ids |-> IF i \in Touched(s) THEN 0 ELSE sightings[i]]
    /\ raced' = raced \ Touched(s)
    /\ overlapped' = [overlapped EXCEPT ![s] = FALSE] /\ verdict' = "done" /\ UNCHANGED spent

ErasureFails(s, cause) ==
    /\ End(s) /\ verdict' = IF overlapped[s] THEN "overlapped" ELSE cause
    /\ overlapped' = [overlapped EXCEPT ![s] = FALSE]
    /\ UNCHANGED <<users, targets, runs, rows, notes, sightings, raced, spent>>
\* A foreign key refuses a statement, and everything is rolled back.
EraseRefused(s) ==
    /\ Erasing(s) /\ Blockers(s) = {}
    /\ \/ work[s].step = "targets" /\ Shared(s) # {}
          /\ ErasureFails(s, IF \E i \in Shared(s) : rows[i].owner # work[s].user
                             THEN "shared" ELSE "alone")
       \/ work[s].step = "user" /\ ~work[s].keep /\ Left(s) /\ ErasureFails(s, "alone")

\* The database ends a session of a cycle.
Victim(s) ==
    /\ Deadlocked(s)
    /\ \/ Scraping(s) /\ End(s)
          /\ UNCHANGED <<users, targets, runs, rows, notes, sightings, raced, overlapped,
                         verdict, spent>>
       \/ Erasing(s) /\ ErasureFails(s, "crossed")

Step(s) ==
    \/ Lookup(s) \/ Write(s) \/ ScrapeFails(s) \/ Finish(s)
    \/ EraseNotes(s) \/ EraseJobs(s) \/ EraseTargets(s) \/ EraseUser(s) \/ EraseRefused(s)
    \/ Victim(s)
\* The idle session a new request takes: one is as good as another.
Free == {s \in Sessions : work[s] = Idle}
Next ==
    \/ \E s \in {CHOOSE t \in Free : TRUE : f \in Free}, u \in Users :
           \/ \E aimed \in BOOLEAN, batch \in Batches : BeginScrape(s, u, aimed, batch)
           \/ \E keep \in BOOLEAN : BeginErasure(s, u, keep)
    \/ \E u \in Users, kind \in Kinds, i \in Ids : AddNote(u, kind, i)
    \/ \E s \in Sessions : Step(s)

Spec == Init /\ [][Next]_vars
\* A request that may go on goes on; the database finds every deadlock.
FairSpec == Spec /\ \A s \in Sessions : WF_vars(Step(s))

-----------------------------------------------------------------------------------
(* Properties *)

\* A row counts the items stored in it, unless a scrape has written what it read before
\* another one stored, or before the row was erased and stored anew.
SightingsExplained ==
    \A i \in Ids : rows[i] # Nothing /\ rows[i].seen # sightings[i] => i \in raced

\* An erasure fails only when the user did something else meanwhile, when jobs of
\* others hang on the user's targets, or when it crossed another session's locks.
ErasuresFailForCause == verdict # "alone"

\* Nobody's jobs and applications go but by their owner's erasure, whatever they share.
OthersKeepTheirs ==
    [][/\ \A i \in Ids : rows[i] # Nothing /\ rows'[i] = Nothing =>
              \E s \in Sessions : Erasing(s) /\ work[s].user = rows[i].owner
       /\ \A n \in notes : n.kind = "application" =>
              \/ \E m \in notes' : m.by = n.by /\ m.kind = n.kind /\ m.job \in {n.job, NoJob}
              \/ \E s \in Sessions : Erasing(s) /\ work[s].user = n.by]_vars

\* An erasure takes the user's rows and nobody else's, and fails only for a reason.
ErasuresAreSound == []ErasuresFailForCause /\ OthersKeepTheirs

\* Every scrape and every erasure comes to an end, also when they wait for each other.
EverySessionEnds == \A s \in Sessions : work[s] # Idle ~> work[s] = Idle

\* Clearing a user's data leaves the rows of the others alone.
OnlyOwnDataWiped ==
    [][\A n \in notes :
           \/ \E m \in notes' : m.by = n.by /\ m.kind = n.kind
           \/ \E s \in Sessions : Erasing(s) /\ work[s].user = n.by]_vars
===================================================================================

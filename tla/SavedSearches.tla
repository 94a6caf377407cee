------------------------------ MODULE SavedSearches ------------------------------
(***********************************************************************************)
(* Alerts for saved searches (settings/alerts.py, workers/alert_worker.py).  A pass  *)
(* of the worker loads the enabled searches, checks one after the other and commits  *)
(* all of them at its end; the user's own check is a pass over one search.  Passes   *)
(* overlap: the scheduler enqueues one every half hour under a fresh id, and nothing *)
(* marks a search as being checked.                                                  *)
(*                                                                                  *)
(* A check looks for postings created since the last one.  created_at is the start   *)
(* of the transaction that stores a posting, which others see only at its commit.    *)
(* A search filters on columns that change after that too, a level or a status:      *)
(* which searches match a posting is a choice, at first and again.                    *)
(***********************************************************************************)
EXTENDS Naturals, Sequences, FiniteSets

CONSTANTS
    Searches, Postings,
    Passes,   \* runs of the worker
    Checks,   \* requests to check one search
    Limit,    \* of the query: the newest postings
    MaxTime, MaxEvents   \* bounds: timestamps; deaths, edits and deletions

Workers == Passes \cup Checks
None == 0     \* of last_checked_at: timestamps start at 1
NoHand == "none"

ASSUME SearchesAssumption ==
    /\ NoHand \notin Searches /\ Passes \cap Checks = {} /\ Limit \in Nat \ {0}
    /\ MaxTime \in Nat /\ MaxEvents \in Nat

VARIABLES
    now,       \* the last timestamp taken: no two are equal
    posting,   \* of each posting: [state, at, fits]: at is created_at, fits the searches
               \* whose filters its columns match
    search,    \* of each search: [exists, enabled, readable, checked]: whether the query
               \* can be built from its filters, and last_checked_at
    worker,    \* of each worker: [at, left, seen, hand, stamp, staged, base]
    log,       \* history: the sets of entries committed, in order
    events

searchVars == <<now, posting, search, worker, log, events>>

Resting == [at |-> "idle", left |-> {}, seen |-> [s \in Searches |-> None], hand |-> NoHand,
            stamp |-> None, staged |-> {}, base |-> 0]

SearchesInit ==
    /\ now = 0
    /\ posting = [p \in Postings |-> [state |-> "none", at |-> 0, fits |-> {}]]
    /\ search \in [Searches -> [exists : {TRUE}, enabled : {TRUE}, readable : BOOLEAN,
                                checked : {None}]]
    /\ worker = [w \in Workers |-> Resting]
    /\ log = <<>> /\ events = 0

Passing(w) == worker[w].at = "running"
End(w) == worker' = [worker EXCEPT ![w] = [Resting EXCEPT !.at = "done"]]
Tick == now < MaxTime /\ now' = now + 1
Happens == events < MaxEvents /\ events' = events + 1
Entry(s, stamp, J, lost, base) ==
    [search |-> s, stamp |-> stamp, jobs |-> J, lost |-> lost, base |-> base]

-----------------------------------------------------------------------------------
(* The checks *)

Load(w, S) ==
    /\ worker' = [worker EXCEPT ![w] = [Resting EXCEPT
                    !.at = IF S = {} THEN "done" ELSE "running", !.left = S,
                    !.seen = [s \in Searches |-> search[s].checked], !.base = Len(log)]]
    /\ UNCHANGED <<now, posting, search, log, events>>

BeginPass(w) ==
    /\ w \in Passes /\ worker[w].at = "idle"
    /\ Load(w, {s \in Searches : search[s].exists /\ search[s].enabled})

\* Enabled or not.
BeginCheck(w, s) ==
    /\ w \in Checks /\ worker[w].at = "idle" /\ search[s].exists
    /\ Load(w, {s})

\* checked_at is taken before the query is sent.
Stamp(w, s) ==
    /\ Passing(w) /\ worker[w].hand = NoHand /\ s \in worker[w].left /\ search[s].readable
    /\ Tick /\ worker' = [worker EXCEPT ![w] = [@ EXCEPT !.hand = s, !.stamp = now']]
    /\ UNCHANGED <<posting, search, log, events>>

Visible(p) == posting[p].state = "stored"
New(w, s) == {p \in Postings : /\ Visible(p) /\ s \in posting[p].fits
                               /\ posting[p].at > worker[w].seen[s]}
IsNewest(J, N) ==
    /\ J \subseteq N
    /\ Cardinality(J) = Limit \/ (J = N /\ Cardinality(N) < Limit)
    /\ \A p \in J, q \in N \ J : posting[p].at > posting[q].at

\* What a check passes over: postings of transactions still open, those beyond the limit, and
\* those that the search does not match at this moment.
Lost(w, s, stamp, J) ==
    {p \in Postings :
        /\ posting[p].at <= stamp
        /\ \/ posting[p].state = "written" \/ p \in New(w, s) \ J
           \/ Visible(p) /\ s \notin posting[p].fits /\ posting[p].at > worker[w].seen[s]}
Stage(w, s, stamp, J, lost) ==
    LET entry == Entry(s, stamp, J, lost, worker[w].base)
    IN  worker' = [worker EXCEPT ![w] = [@ EXCEPT !.hand = NoHand, !.left = worker[w].left \ {s},
                                                  !.staged = worker[w].staged \cup {entry}]]

\* Mutant: the date is taken when the pass is done with the search.
Query_stamped_late(w, s, J) ==
    /\ Passing(w) /\ worker[w].hand = s /\ IsNewest(J, New(w, s))
    /\ Stage(w, s, now + 1, J, Lost(w, s, worker[w].stamp, J))
    /\ UNCHANGED <<now, posting, search, log, events>>
Query(w, s, J) ==
    /\ Passing(w) /\ worker[w].hand = s /\ IsNewest(J, New(w, s))
    /\ Stage(w, s, worker[w].stamp, J, Lost(w, s, worker[w].stamp, J))
    /\ UNCHANGED <<now, posting, search, log, events>>

\* The query cannot be built: the worker moves last_checked_at all the same, the request
\* fails.
FailSearch(w, s) ==
    /\ Passing(w) /\ worker[w].hand = NoHand /\ s \in worker[w].left /\ ~search[s].readable
    /\ Tick
    /\ IF w \in Passes
       THEN Stage(w, s, now', {}, {p \in Postings : posting[p].state # "none"})
       ELSE End(w)
    /\ UNCHANGED <<posting, search, log, events>>

\* One commit for the notifications and the rows.
Commit(w) ==
    /\ Passing(w) /\ worker[w].left = {}
    /\ \A e \in worker[w].staged : search[e.search].exists
    /\ search' = [s \in Searches |->
         [search[s] EXCEPT !.checked =
            IF \E e \in worker[w].staged : e.search = s
            THEN (CHOOSE e \in worker[w].staged : e.search = s).stamp ELSE @]]
    /\ log' = Append(log, worker[w].staged)
    /\ End(w) /\ UNCHANGED <<now, posting, events>>

\* The row of a search that was deleted meanwhile cannot be updated: the flush fails, and
\* with it the whole pass.
FlushFails(w) ==
    /\ Passing(w) /\ \E e \in worker[w].staged : ~search[e.search].exists
    /\ End(w) /\ UNCHANGED <<now, posting, search, log, events>>

\* The process dies, the job times out, or the database refuses a statement.
DieChecking(w) ==
    /\ Passing(w) /\ Happens /\ End(w) /\ UNCHANGED <<now, posting, search, log>>

-----------------------------------------------------------------------------------
(* Postings, and the user *)

Write(p, F) ==
    /\ posting[p].state = "none" /\ Tick
    /\ posting' = [posting EXCEPT ![p] = [state |-> "written", at |-> now', fits |-> F]]
    /\ UNCHANGED <<search, worker, log, events>>
Store(p) ==
    /\ posting[p].state = "written"
    /\ posting' = [posting EXCEPT ![p].state = "stored"]
    /\ UNCHANGED <<now, search, worker, log, events>>

\* A star or a status is set, a posting is no longer active, or the enrichment has filled in
\* what was not known.
Change(p, F) ==
    /\ posting[p].state = "stored" /\ F # posting[p].fits /\ Happens
    /\ posting' = [posting EXCEPT ![p].fits = F]
    /\ UNCHANGED <<now, search, worker, log>>

\* Switching the alert off forgets the last check.
Disable(s) ==
    /\ search[s].exists /\ search[s].enabled /\ Happens
    /\ search' = [search EXCEPT ![s] = [@ EXCEPT !.enabled = FALSE, !.checked = None]]
    /\ log' = Append(log, {Entry(s, None, {}, {}, Len(log))})
    /\ UNCHANGED <<now, posting, worker>>
Enable(s) ==
    /\ search[s].exists /\ ~search[s].enabled
    /\ search' = [search EXCEPT ![s].enabled = TRUE]
    /\ UNCHANGED <<now, posting, worker, log, events>>
DeleteSearch(s) ==
    /\ search[s].exists /\ Happens
    /\ search' = [search EXCEPT ![s].exists = FALSE]
    /\ UNCHANGED <<now, posting, worker, log>>

SearchesNext ==
    \/ \E w \in Workers :
           \/ BeginPass(w) \/ Commit(w) \/ FlushFails(w) \/ DieChecking(w)
           \/ \E s \in Searches : BeginCheck(w, s) \/ Stamp(w, s) \/ FailSearch(w, s)
           \/ \E s \in Searches, J \in SUBSET Postings : Query(w, s, J)
    \/ \E p \in Postings : Store(p) \/ \E F \in SUBSET Searches : Write(p, F) \/ Change(p, F)
    \/ \E s \in Searches : Disable(s) \/ Enable(s) \/ DeleteSearch(s)

SearchesSpec == SearchesInit /\ [][SearchesNext]_searchVars

-----------------------------------------------------------------------------------
(* Properties *)

SearchesTypeOK ==
    /\ now \in 0..MaxTime
    /\ posting \in [Postings -> [state : {"none", "written", "stored"}, at : 0..MaxTime,
                              fits : SUBSET Searches]]
    /\ search \in [Searches -> [exists : BOOLEAN, enabled : BOOLEAN, readable : BOOLEAN,
                            checked : 0..MaxTime]]
    /\ \A w \in Workers : worker[w].at \in {"idle", "running", "done"}
    /\ events \in 0..MaxEvents

Committed(s) == {e \in UNION {log[i] : i \in DOMAIN log} : e.search = s}

\* A posting older than the last check of a search has been told, or a check that was
\* committed could not see it, or not within its limit, or not as a match: no crash,
\* overlap, deletion or reset loses an alert.
AlertsAccountedFor ==
    \A s \in Searches, p \in Postings :
        Visible(p) /\ posting[p].at <= search[s].checked =>
            \E e \in Committed(s) : p \in e.jobs \cup e.lost

\* A posting is told a second time only by checks that overlap, after an overlapping check
\* or the user has set the date back, or when it was stored between date and query.
RepeatsExplained ==
    \A j \in DOMAIN log : \A i \in 1..(j - 1) : \A f \in log[j], e \in log[i] :
        \A p \in e.jobs \cap f.jobs : e.search = f.search =>
            \/ f.base < i \/ posting[p].at > e.stamp
            \/ \E k \in (i + 1)..f.base : \E g \in log[k] :
                   g.search = e.search /\ (g.stamp = None \/ g.base < i)

\* Both together: what the user hears of a posting, and how often, has a reason.
AlertsExplained == AlertsAccountedFor /\ RepeatsExplained
===================================================================================

------------------------------ MODULE Enrichment ------------------------------
(***********************************************************************************)
(* The jobs of one user on their way from scraped to searchable: batches of the      *)
(* worker and single requests ask a language model about each job and write its      *)
(* answers in one commit at the end; another worker turns what is written into an     *)
(* embedding; clearing data takes jobs away meanwhile.                              *)
(*                                                                                   *)
(* An answer is its number, and so is what it puts into a column; 0 is NULL, and a  *)
(* job without a summary is one that is not enriched.                               *)
(***********************************************************************************)
EXTENDS Naturals, FiniteSets

CONSTANTS
    Listed,      \* jobs with a description_raw
    Batches,     \* processes that run enrich_batch
    Askers,      \* requests for one job
    BatchSize,   \* limit of enrich_batch
    EmbedSize,   \* limit of embed_jobs_batch
    MaxCalls     \* bound: answers of the model

Enrichers == Batches \cup Askers

EnrichmentAssumption ==
    /\ IsFiniteSet(Listed) /\ Batches \cap Askers = {}
    /\ BatchSize \in Nat \ {0} /\ EmbedSize \in Nat \ {0}

VARIABLES
    job,       \* the committed columns of each job
    present,   \* jobs that still have a row
    enricher,  \* what each process has loaded and what its objects hold
    reading,   \* the summaries the embedding worker has read, by job
    calls,     \* answers given so far
    \* what has happened
    spent,     \* answers that were unusable, lost, overwritten, or of a job that has gone
    twice,     \* jobs that were enriched more than once
    excused    \* jobs two processes held at once, or a request asked about again

enrichmentVars == <<job, present, enricher, reading, calls, spent, twice, excused>>

Columns == {"clean", "summary", "level", "embedding"}
Blank == [c \in Columns |-> 0]
Resting == [todo |-> {}, loaded |-> [j \in {} |-> Blank], held |-> [j \in {} |-> Blank]]

EnrichmentInit ==
    /\ job = [j \in Listed |-> Blank] /\ present = Listed
    /\ enricher = [e \in Enrichers |-> Resting] /\ reading = [j \in {} |-> 0]
    /\ calls = 0 /\ spent = {} /\ twice = {} /\ excused = {}

\* LIMIT without ORDER BY: any so many of the rows.
Some(rows, limit) ==
    {s \in SUBSET rows :
        s # {} /\ (Cardinality(s) = limit \/ (s = rows /\ Cardinality(s) < limit))}
IsResting(e) == DOMAIN enricher[e].loaded = {}
HeldByAny(j) == \E e \in Enrichers : j \in DOMAIN enricher[e].loaded

Load(e, jobs) ==
    LET rows == [j \in jobs |-> job[j]]
    IN /\ enricher' = [enricher EXCEPT ![e] = [todo |-> jobs, loaded |-> rows, held |-> rows]]
       /\ excused' = excused \cup {j \in jobs : HeldByAny(j) \/ job[j].summary # 0}
       /\ UNCHANGED <<job, present, reading, calls, spent, twice>>

Unenriched == {j \in present : job[j].summary = 0}

StartBatch(e) ==
    /\ e \in Batches /\ IsResting(e)
    /\ \E jobs \in Some(Unenriched, BatchSize) : Load(e, jobs)

\* A request asks about a job whether or not it is enriched.
StartRequest(e, j) ==
    /\ e \in Askers /\ IsResting(e) /\ j \in present
    /\ Load(e, {j})

Answers(e) == {enricher[e].held[j].summary : j \in DOMAIN enricher[e].held \ enricher[e].todo}
Rest(e) == enricher' = [enricher EXCEPT ![e] = Resting]
\* A rollback: nothing of what the process holds is written.
GiveUp(e) == Rest(e) /\ spent' = spent \cup (Answers(e) \ {0})

HavingAsked(p, j, row) ==
    [todo |-> p.todo \ {j}, loaded |-> p.loaded, held |-> [p.held EXCEPT ![j] = row]]
WithAnswer(row, n, hasLevel) ==
    [row EXCEPT !.clean = n, !.summary = n,
                !.level = IF @ = 0 /\ hasLevel THEN n ELSE @]

(***********************************************************************************)
(* enrich_job: the descriptions, then the answer's columns, the level only where     *)
(* there is none.                                                                    *)
(***********************************************************************************)
Answer(e, j) ==
    /\ j \in enricher[e].todo /\ calls < MaxCalls
    /\ calls' = calls + 1
    /\ \E hasLevel \in BOOLEAN :
         enricher' = [enricher EXCEPT ![e] =
             HavingAsked(@, j, WithAnswer(@.held[j], calls', hasLevel))]
    /\ UNCHANGED <<job, present, reading, spent, twice, excused>>

\* Mutant: what was set before the failure stays.
Restored_partly(row, answer) == [row EXCEPT !.clean = answer]
\* A failure puts every column back, also those that were set before it.
Restored(row, answer) == row

\* No answer, no JSON, or JSON that is no object: a batch goes on, a request ends.
Unusable(e, j) ==
    /\ j \in enricher[e].todo /\ calls < MaxCalls
    /\ calls' = calls + 1
    /\ enricher' = IF e \in Askers THEN [enricher EXCEPT ![e] = Resting]
                   ELSE [enricher EXCEPT ![e] =
                            HavingAsked(@, j, Restored(@.held[j], calls'))]
    /\ spent' = spent \cup {calls'}
    /\ UNCHANGED <<job, present, reading, twice, excused>>

\* The columns of the objects that differ from what was loaded.
Changed(e) == {j \in DOMAIN enricher[e].held : enricher[e].held[j] # enricher[e].loaded[j]}
Written(e, j) ==
    [c \in Columns |-> IF enricher[e].held[j][c] = enricher[e].loaded[j][c] THEN job[j][c]
                       ELSE enricher[e].held[j][c]]

\* A row that has gone is passed over when several are written at once.
Commit(e) ==
    /\ ~IsResting(e) /\ enricher[e].todo = {}
    /\ Changed(e) \subseteq present \/ Cardinality(Changed(e)) > 1
    /\ LET kept == Changed(e) \cap present
       IN /\ job' = [j \in Listed |-> IF j \in kept THEN Written(e, j) ELSE job[j]]
          /\ twice' = twice \cup {j \in kept : job[j].summary # 0}
          /\ spent' = spent \cup {job[j].summary : j \in {k \in kept : job[k].summary # 0}}
                            \cup {enricher[e].held[j].summary : j \in Changed(e) \ kept}
    /\ Rest(e)
    /\ UNCHANGED <<present, reading, calls, excused>>

\* A value the database refuses or a row that has gone fails the commit of the whole
\* batch; so does the end of the process, at any time.
Fail(e) ==
    /\ ~IsResting(e)
    /\ GiveUp(e)
    /\ UNCHANGED <<job, present, reading, calls, twice, excused>>

(***********************************************************************************)
(* embed_jobs_batch takes enriched jobs whether or not they have an embedding.       *)
(***********************************************************************************)
EmbedRead ==
    /\ DOMAIN reading = {}
    /\ \E jobs \in Some(present \ Unenriched, EmbedSize) :
         reading' = [j \in jobs |-> job[j].summary]
    /\ UNCHANGED <<job, present, enricher, calls, spent, twice, excused>>

EmbedWrite ==
    /\ DOMAIN reading # {}
    /\ \/ UNCHANGED job  \* the update fails and is rolled back
       \/ job' = [j \in Listed |-> IF j \in DOMAIN reading \cap present
                                   THEN [job[j] EXCEPT !.embedding = reading[j]] ELSE job[j]]
    /\ reading' = [j \in {} |-> 0]
    /\ UNCHANGED <<present, enricher, calls, spent, twice, excused>>

\* The user clears the data, or the account is deleted.
ClearJobs ==
    /\ present # {}
    /\ present' = {}
    /\ spent' = spent \cup ({job[j].summary : j \in present} \ {0})
    /\ UNCHANGED <<job, enricher, reading, calls, twice, excused>>

EnrichmentNext ==
    \/ \E e \in Enrichers :
         \/ StartBatch(e) \/ Commit(e) \/ Fail(e)
         \/ \E j \in Listed : StartRequest(e, j) \/ Answer(e, j) \/ Unusable(e, j)
    \/ EmbedRead \/ EmbedWrite \/ ClearJobs
EnrichmentSpec == EnrichmentInit /\ [][EnrichmentNext]_enrichmentVars

-----------------------------------------------------------------------------------
(***********************************************************************************)
(* A job shows one answer, whole, and an embedding of it: what mixes two answers, or *)
(* keeps the embedding of an earlier one, is two processes at one job or a request    *)
(* for another answer; and no batch pays again for an answer that was kept           *)
(* (enrich_job's snapshot, enrich_batch's query, embed_jobs_batch).                  *)
(***********************************************************************************)
AnswersAreWhole ==
    \A j \in present :
        /\ job[j].clean = job[j].summary
        /\ job[j].level \in {0, job[j].summary} \/ j \in excused
        /\ job[j].embedding \in {0, job[j].summary} \/ j \in twice
AnswersAreAccounted ==
    \A a \in 1..calls :
        \/ a \in spent
        \/ \E j \in present : job[j].summary = a
        \/ \E e \in Enrichers : a \in Answers(e)
EnrichmentExplained == AnswersAreWhole /\ AnswersAreAccounted /\ twice \subseteq excused
===================================================================================

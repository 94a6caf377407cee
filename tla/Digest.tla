--------------------------------- MODULE Digest ---------------------------------
(***********************************************************************************)
(* The daily digest (workers/digest_worker.py).  One session serves all active users: *)
(* four queries and perhaps a notification for each, exceptions caught user by user,  *)
(* and one commit at the end.  A notification is inserted when the next query flushes *)
(* the session.                                                                       *)
(*                                                                                  *)
(* A failed query aborts the transaction of PostgreSQL: later statements fail, too,   *)
(* and a COMMIT with nothing left to flush rolls back without an error.  A failed     *)
(* flush ends the session's transaction for good.                                     *)
(***********************************************************************************)
EXTENDS Naturals, FiniteSets

CONSTANTS
    Users, Runs,
    MaxFailures, MaxDeletions   \* bounds: queries that fail, accounts that are deleted

VARIABLES
    account,   \* the users that exist and are active
    active,    \* those with new jobs, changes, or follow-ups due
    run,       \* [at, users, pending, flushed, session, reported]
    told,      \* the notifications that are committed, as [user, run]
    failures

digestVars == <<account, active, run, told, failures>>

Resting == [at |-> "idle", users |-> {}, pending |-> {}, flushed |-> {}, session |-> "open",
            reported |-> {}]

DigestInit ==
    /\ account = Users /\ active \in SUBSET Users
    /\ run = [r \in Runs |-> Resting] /\ told = {} /\ failures = 0

Flushable(r) == run[r].pending \subseteq account
\* Statements go first to a flush, and then to the server.
Works(r) == run[r].session = "open" /\ Flushable(r)

BeginRun(r) ==
    /\ run[r].at = "idle"
    /\ run' = [run EXCEPT ![r] = [Resting EXCEPT !.at = IF account = {} THEN "done" ELSE "users",
                                                 !.users = account]]
    /\ UNCHANGED <<account, active, told, failures>>

New(u) == {u} \cap active \cap account
\* _generate_user_digest goes well.
Generate(r, u) ==
    /\ run[r].at = "users" /\ u \in run[r].users /\ Works(r)
    /\ run' = [run EXCEPT ![r] =
         [run[r] EXCEPT !.users = @ \ {u}, !.flushed = @ \cup run[r].pending,
                   !.pending = New(u), !.reported = @ \cup New(u)]]
    /\ UNCHANGED <<account, active, told, failures>>

\* Mutant: the handler rolls back before it goes on.
GenerateFails_rollsBack(r, u) ==
    /\ run[r].at = "users" /\ u \in run[r].users
    /\ IF Works(r) THEN failures < MaxFailures /\ failures' = failures + 1 ELSE UNCHANGED failures
    /\ run' = [run EXCEPT ![r] = [run[r] EXCEPT !.users = @ \ {u}, !.flushed = {}, !.pending = {}]]
    /\ UNCHANGED <<account, active, told>>
\* A query fails, or must because of what failed before; the loop goes on.
GenerateFails(r, u) ==
    /\ run[r].at = "users" /\ u \in run[r].users
    /\ IF Works(r) THEN failures < MaxFailures /\ failures' = failures + 1 ELSE UNCHANGED failures
    /\ run' = [run EXCEPT ![r] =
         IF Works(r)
         THEN [run[r] EXCEPT !.users = @ \ {u}, !.session = "aborted",
                        !.flushed = @ \cup run[r].pending, !.pending = {}]
         ELSE [run[r] EXCEPT !.users = @ \ {u}, !.session = IF @ = "open" THEN "invalid" ELSE @]]
    /\ UNCHANGED <<account, active, told>>

CommitDigests(r) ==
    /\ run[r].at = "users" /\ run[r].users = {}
    /\ IF Works(r)
       THEN told' = told \cup {[user |-> u, run |-> r] : u \in run[r].flushed \cup run[r].pending}
       ELSE UNCHANGED told
    /\ run' = [run EXCEPT ![r].at =
                 IF Works(r) \/ run[r].session = "aborted" THEN "done" ELSE "failed"]
    /\ UNCHANGED <<account, active, failures>>

\* The process dies, or the job times out.
DieDigesting(r) ==
    /\ run[r].at = "users" /\ run' = [run EXCEPT ![r].at = "failed"]
    /\ UNCHANGED <<account, active, told, failures>>

\* An account is deleted, with its notifications: not while a session holds a flushed row of
\* the user, which locks the account's.
DeleteAccount(u) ==
    /\ u \in account /\ Cardinality(Users \ account) < MaxDeletions
    /\ \A r \in Runs : run[r].at = "users" /\ run[r].session = "open" => u \notin run[r].flushed
    /\ account' = account \ {u} /\ told' = {n \in told : n.user # u}
    /\ UNCHANGED <<active, run, failures>>

DigestNext ==
    \/ \E r \in Runs :
           \/ BeginRun(r) \/ CommitDigests(r) \/ DieDigesting(r)
           \/ \E u \in Users : Generate(r, u) \/ GenerateFails(r, u)
    \/ \E u \in Users : DeleteAccount(u)
DigestSpec == DigestInit /\ [][DigestNext]_digestVars

-----------------------------------------------------------------------------------
(* Properties *)

TellsOf(r) == {n.user : n \in {m \in told : m.run = r}}
\* A run tells all of the users it had something for, or nobody: one user's failure costs
\* everybody the digest, however it happens, and a run that has reported digests without
\* writing them had a query fail.
AllOrNobody ==
    \A r \in Runs :
        /\ TellsOf(r) = {} \/ TellsOf(r) = run[r].reported \cap account
        /\ (run[r].at = "done" /\ TellsOf(r) # run[r].reported \cap account) =>
               run[r].session = "aborted"
===================================================================================

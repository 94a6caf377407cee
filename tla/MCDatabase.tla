-------------------------------- MODULE MCDatabase --------------------------------
\* The database: the rows its users share (UserData) and the schema they live in
\* (Migrations).  One run follows the rows while the schema stands, the other the schema
\* while no request is served; alembic's rows are variables of their own.
EXTENDS UserData

(* Rows.  Two users and two sessions; a posting may be found with its key under either of
   two ids (its title was edited), or without a key.  Only ann leaves: the users are
   alike. *)

CONSTANTS ann, bob, job1, job2, key1, key2

MCItems == [id : {job1, job2}, key : {key1, key2, NoKey}]
\* Both postings in either order, one whose key is not seen, and one with an edited title.
MCBatches == {<<[id |-> job1, key |-> key1], [id |-> job2, key |-> key2]>>,
              <<[id |-> job2, key |-> key2], [id |-> job1, key |-> NoKey]>>,
              <<[id |-> job2, key |-> key1]>>}

(* Migrations *)

VARIABLES db, applied, command, ddl, workApplied, consolidated
M == INSTANCE Migrations WITH work <- ddl
schemaVars == <<db, applied, command, ddl, workApplied, consolidated>>

HeadIsWhatTheModelsDeclare == M!HeadIsWhatTheModelsDeclare
CommandsArePredictable == M!CommandsArePredictable

(* What the runs follow *)

BothInit == Init /\ M!Init
RequestsServed == Next /\ UNCHANGED schemaVars
RowsSpec == BothInit /\ [][RequestsServed]_<<vars, schemaVars>>
FairRowsSpec == RowsSpec /\ \A s \in Sessions : WF_vars(Step(s))

SchemaMigrated == M!Next /\ UNCHANGED vars
MigrationsSpec == BothInit /\ [][SchemaMigrated]_<<vars, schemaVars>>
===================================================================================

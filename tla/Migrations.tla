----------------------------- MODULE Migrations -----------------------------
(***************************************************************************)
(* The migrations of the sqlite database, run before anything else of the  *)
(* service is: migrations.Runner carries out the functions of MigrationFns *)
(* in order and saves a status for each.                                   *)
(*                                                                         *)
(* Every statement of a function, and every save of a status, is committed *)
(* on its own.  The process may die between any two of them, and any call  *)
(* may fail; it is then started again.  The functions of this program save *)
(* no state, so LoadState matters only when it fails.                      *)
(*                                                                         *)
(* Definitions named Faulty are mistakes the code could have made (see     *)
(* EventPipeline).                                                         *)
(***************************************************************************)
EXTENDS Integers, Sequences

CONSTANT MaxFaults  \* bound on crashes and on calls that fail

ASSUME MigrationsAssumption == MaxFaults \in Nat

VARIABLES
  schema,     \* tables, columns and indices there are
  status,     \* table "migrations_status", by number of the migration
  phase,      \* where the process is
  migration,  \* the migration being looked at
  statement,  \* the statement of its function to be executed next, 1 outside it
  failed,     \* the function returned an error
  faults

migrationVars == <<schema, status, phase, migration, statement, failed, faults>>

\* The functions of MigrationFns, by what each of their statements makes.
Initial ==
  <<"events", "events_to_relays", "relays", "public_keys", "contacts_events",
    "contacts_followees", "public_keys_to_monitor">>
CreatePubsubTables   == <<"pubsub">>
AddProcessedAtColumn == <<"processed_at", "idx_events_processed_at">>

Statements == <<Initial, CreatePubsubTables, AddProcessedAtColumn>>

Migrations == DOMAIN Statements
Objects == UNION {{Statements[m][i] : i \in DOMAIN Statements[m]} : m \in Migrations}

\* The tables are created without IF NOT EXISTS.
FaultyCanExecute(object) == object \notin schema

\* ALTER TABLE has no IF NOT EXISTS; the others may be repeated.
CanExecute(object) ==
  CASE object = "processed_at" -> "events" \in schema /\ object \notin schema
    [] object = "idx_events_processed_at" -> "processed_at" \in schema
    [] OTHER -> TRUE

MigrationsInit ==
  /\ schema = {}
  /\ status = [m \in Migrations |-> "none"]
  /\ phase = "down" /\ migration = 1 /\ statement = 1 /\ failed = FALSE
  /\ faults = 0

Fault == faults < MaxFaults /\ faults' = faults + 1

\* ExecuteMigrations is called by run of package main.
Start ==
  /\ phase = "down"
  /\ phase' = "considering"
  /\ migration' = 1
  /\ UNCHANGED <<schema, status, statement, failed, faults>>

\* The loop of Runner.Run goes on to the next migration or is done.
NextMigration ==
  IF migration + 1 \in Migrations
  THEN phase' = "considering" /\ migration' = migration + 1
  ELSE phase' = "migrated" /\ UNCHANGED migration

\* Only a migration without a status is run.
FaultyShouldRun == status[migration] = "none"

ShouldRun == status[migration] # "finished"

RunMigration ==
  /\ phase = "considering"
  /\ ShouldRun
  /\ phase' = "executing"
  /\ UNCHANGED <<schema, status, migration, statement, failed, faults>>

SkipMigration ==
  /\ phase = "considering"
  /\ ~ShouldRun
  /\ NextMigration
  /\ UNCHANGED <<schema, status, statement, failed, faults>>

ExecuteStatement ==
  /\ phase = "executing"
  /\ statement \in DOMAIN Statements[migration]
  /\ LET object == Statements[migration][statement]
     IN  CanExecute(object) /\ schema' = schema \cup {object}
  /\ statement' = statement + 1
  /\ UNCHANGED <<status, phase, migration, failed, faults>>

FunctionReturns(error) ==
  /\ phase' = "saving"
  /\ failed' = error
  /\ statement' = 1
  /\ UNCHANGED <<schema, status, migration>>

FunctionSucceeds ==
  /\ phase = "executing"
  /\ statement \notin DOMAIN Statements[migration]
  /\ FunctionReturns(FALSE)
  /\ UNCHANGED faults

\* sqlite refuses the statement, or something else goes wrong.
StatementFails ==
  /\ phase = "executing"
  /\ statement \in DOMAIN Statements[migration]
  /\ FunctionReturns(TRUE)
  /\ IF CanExecute(Statements[migration][statement]) THEN Fault ELSE UNCHANGED faults

\* The status does not tell whether the function returned an error.
FaultyStatusFromError == "finished"

StatusFromError == IF failed THEN "failed" ELSE "finished"

\* An error of the function ends the process once the status is saved.
SaveStatus ==
  /\ phase = "saving"
  /\ status' = [status EXCEPT ![migration] = StatusFromError]
  /\ IF failed THEN phase' = "down" /\ UNCHANGED migration ELSE NextMigration
  /\ UNCHANGED <<schema, statement, failed, faults>>

\* LoadStatus, LoadState or SaveStatus fails and run of package main returns the
\* error, or the process is killed.
Die ==
  /\ phase \in {"considering", "executing", "saving", "migrated"}
  /\ Fault
  /\ phase' = "down"
  /\ statement' = 1
  /\ UNCHANGED <<schema, status, migration, failed>>

MigrationStep ==
  \/ RunMigration \/ SkipMigration
  \/ ExecuteStatement \/ FunctionSucceeds \/ StatementFails
  \/ SaveStatus

\* The column is there but the migration that adds it is not known to be finished:
\* its ALTER TABLE will fail whenever it is run.
Torn == "processed_at" \in schema /\ status[3] # "finished"

=============================================================================

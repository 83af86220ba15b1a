----------------------------- MODULE MigrateCli -----------------------------
(***************************************************************************)
(* The workspace of a developer and the commands of ruprizzle that keep it *)
(* (crates/cli/src/main.rs:645-1066): schema.ruprizzle, the snapshot of the *)
(* schema migrated to last, the migrations directory and the database with *)
(* its tracking table.  Each command goes from one file, or one            *)
(* transaction, to the next, and may die in between.                       *)
(*                                                                         *)
(* A schema is the set of its tables: what diff and up_sql make of two     *)
(* schemas is in SchemaDiff and SchemaPlan, and what a runner does that is *)
(* stopped within a migration, or meets another, is in Migrator.  One id   *)
(* is later than all before it: no two migrations are made in one second.  *)
(***************************************************************************)
EXTENDS Naturals, FiniteSets, FiniteSetsExt, Folds

CONSTANTS Tables,     \* what schemas are made of
          MaxFiles,   \* bound on the migrations ever written
          Broken      \* a snapshot cut off while it was written; a history that cannot be run

ASSUME CliAssumption == MaxFiles \in Nat /\ \A schema \in SUBSET Tables : schema # Broken

FileIds == 1 .. MaxFiles
NoFile == [add |-> {}, drop |-> {}, destructive |-> FALSE, there |-> FALSE]

VARIABLES wanted,    \* schema.ruprizzle
          snapshot,  \* .ruprizzle/snapshot.ruprizzle; empty if there is none
          files,     \* files[id]: the migration of that id, or NoFile
          written,   \* how many were ever written
          tables,    \* the tables of the database
          recorded,  \* the ids in _ruprizzle_migrations
          op,        \* the command that is running
          stale,     \* history: see Save
          off        \* history: see HistoryReplays

workspace == <<wanted, snapshot, files, written>>
database == <<tables, recorded>>
cvars == <<wanted, snapshot, files, written, tables, recorded, op, stale, off>>

NoOp(outcome) == [cmd |-> "", step |-> "idle", schema |-> {}, accept |-> FALSE, clean |-> FALSE, outcome |-> outcome]
Running(step) == op.step = step
Then(step) == op' = [op EXCEPT !.step = step]
Over(outcome) == op' = IF outcome = "failed" THEN [NoOp(outcome) EXCEPT !.clean = op.clean] ELSE NoOp(outcome)

CliInit ==
  /\ wanted = {} /\ snapshot = {} /\ files = [id \in FileIds |-> NoFile] /\ written = 0
  /\ tables = {} /\ recorded = {}
  /\ op = NoOp("none") /\ stale = FALSE /\ off = FALSE

-----------------------------------------------------------------------------
OnDisk == {id \in FileIds : files[id].there}
PendingFiles == OnDisk \ recorded
Diff(prev, schema) == [add |-> schema \ prev, drop |-> prev \ schema, destructive |-> prev \ schema # {}, there |-> TRUE]

(* The statements of a migration, in one transaction.                       *)
Runs(file, db) == file.add \cap db = {} /\ file.drop \subseteq db
After(file, db) == (db \cup file.add) \ file.drop

(* What a new database is after these migrations, in the order of their ids. *)
Replay(ids) ==
  LET at[n \in 0 .. MaxFiles] ==
        IF n = 0 THEN {}
        ELSE IF n \notin ids \/ at[n - 1] = Broken THEN at[n - 1]
        ELSE IF Runs(files[n], at[n - 1]) THEN After(files[n], at[n - 1]) ELSE Broken
  IN  at[MaxFiles]

\* A command reads the schema, and whether it starts from a workspace in order.
Begin(cmd, step, accept, clean) ==
  op' = [cmd |-> cmd, step |-> step, schema |-> wanted, accept |-> accept, clean |-> clean, outcome |-> "none"]
Refuse == op' = NoOp("stopped")

WriteMigration(file) ==
  /\ written < MaxFiles
  /\ files' = [files EXCEPT ![written + 1] = file]
  /\ written' = written + 1

(* The process dies when up.sql is written and meta.json is not: what is    *)
(* destructive is then read off the text (load_one).                        *)
WriteUpSql(file) == WriteMigration([file EXCEPT !.destructive = file.drop # {}])

-----------------------------------------------------------------------------
(* migrate dev.                                                             *)

InOrderNow == ~stale /\ PendingFiles = {}

MigrateDev(create_only, accept) ==
  /\ Running("idle") /\ snapshot # Broken
  /\ LET change == Diff(snapshot, wanted)
     IN  IF change.destructive /\ ~accept THEN Refuse /\ UNCHANGED <<files, written>>
         ELSE \/ /\ WriteMigration(change)
                 /\ IF create_only THEN op' = NoOp("done") ELSE Begin("dev", "apply", accept, InOrderNow)
              \/ WriteUpSql(change) /\ op' = NoOp("stopped")
  /\ UNCHANGED <<wanted, snapshot, database, stale, off>>

\* Mutant: a migration that cannot be run is passed over.
ApplyNext_SkipsFailed ==
  /\ Running("apply")
  /\ IF PendingFiles = {} THEN Then(IF op.cmd = "deploy" THEN "end" ELSE "generate") /\ UNCHANGED <<database, stale>>
     ELSE LET id == Min(PendingFiles) IN
          IF files[id].destructive /\ ~op.accept THEN Over("stopped") /\ UNCHANGED <<database, stale>>
          ELSE /\ tables' = IF Runs(files[id], tables) THEN After(files[id], tables) ELSE tables
               /\ recorded' = recorded \cup {id} /\ stale' = TRUE /\ UNCHANGED op
  /\ UNCHANGED <<workspace, off>>

(* apply_all: the next pending migration, with its tracking row.            *)
ApplyNext ==
  /\ Running("apply")
  /\ IF PendingFiles = {} THEN Then(IF op.cmd = "deploy" THEN "end" ELSE "generate") /\ UNCHANGED <<database, stale>>
     ELSE LET id == Min(PendingFiles) IN
          IF files[id].destructive /\ ~op.accept THEN Over("stopped") /\ UNCHANGED <<database, stale>>
          ELSE IF ~Runs(files[id], tables) THEN Over("failed") /\ UNCHANGED <<database, stale>>
          ELSE /\ tables' = After(files[id], tables)
               /\ recorded' = recorded \cup {id} /\ stale' = TRUE /\ UNCHANGED op
  /\ UNCHANGED <<workspace, off>>

\* generate_from: of the schema that was read; the client is not modelled.
GenerateClient ==
  /\ Running("generate")
  /\ Then("save") \/ Over("stopped")
  /\ UNCHANGED <<workspace, database, stale, off>>

\* Mutant: schema.ruprizzle is read again.
SaveSnapshot_Reread ==
  /\ Running("save")
  /\ snapshot' = wanted /\ stale' = ~op.clean /\ Over("done")
  /\ UNCHANGED <<wanted, files, written, database, off>>

(* save_snapshot.  The snapshot tells the tables again if it did when the   *)
(* command began, and nothing else was left to be applied.                  *)
SaveSnapshot ==
  /\ Running("save")
  /\ snapshot' = op.schema /\ stale' = ~op.clean /\ Over("done")
  /\ UNCHANGED <<wanted, files, written, database, off>>

-----------------------------------------------------------------------------
(* migrate deploy, resolve, reset.                                          *)

MigrateDeploy ==
  /\ Running("idle") /\ written > 0
  /\ Begin("deploy", "apply", FALSE, FALSE)
  /\ UNCHANGED <<workspace, database, stale, off>>

CommandEnds ==
  /\ Running("end") /\ Over("done")
  /\ UNCHANGED <<workspace, database, stale, off>>

MigrateResolve(id) ==
  /\ Running("idle") /\ id \in OnDisk
  /\ recorded' = recorded \cup {id}
  /\ off' = (off \/ id \notin recorded)
  /\ UNCHANGED <<workspace, tables, op, stale>>

MigrateReset ==
  /\ Running("idle") /\ written > 0
  /\ Begin("reset", "drop", TRUE, wanted = Replay(OnDisk))
  /\ UNCHANGED <<workspace, database, stale, off>>

ResetDrops ==
  /\ Running("drop")
  /\ tables' = {} /\ stale' = TRUE /\ off' = TRUE
  /\ Then("clear")
  /\ UNCHANGED <<workspace, recorded>>

\* Mutant: the tracking table is left for apply_all to complete.
ResetClears_Not ==
  /\ Running("clear")
  /\ off' = FALSE /\ Then("apply")
  /\ UNCHANGED <<workspace, database, stale>>

ResetClears ==
  /\ Running("clear")
  /\ recorded' = {} /\ off' = FALSE
  /\ Then("apply")
  /\ UNCHANGED <<workspace, tables, stale>>

-----------------------------------------------------------------------------
(* migrate squash.                                                          *)

MigrateSquash ==
  /\ Running("idle") /\ written < MaxFiles
  /\ IF PendingFiles # {} \/ recorded \cap OnDisk = {} THEN Refuse
     ELSE Begin("squash", "archive", FALSE, FALSE)
  /\ UNCHANGED <<workspace, database, stale, off>>

(* One migration is renamed into .archive after the other.                  *)
ArchiveOne ==
  /\ Running("archive")
  /\ IF OnDisk = {} THEN Then("baseline") /\ UNCHANGED <<files, off>>
     ELSE files' = [files EXCEPT ![Min(OnDisk)] = NoFile] /\ off' = TRUE /\ UNCHANGED op
  /\ UNCHANGED <<wanted, snapshot, written, database, stale>>

(* The baseline makes the schema, not the database.  It counts as           *)
(* destructive if its down.sql drops a table.                               *)
WriteBaseline ==
  /\ Running("baseline")
  /\ LET file == [add |-> op.schema, drop |-> {}, destructive |-> op.schema # {}, there |-> TRUE]
     IN  \/ WriteMigration(file) /\ Then("forget")
         \/ WriteUpSql(file) /\ Over("stopped")
  /\ UNCHANGED <<wanted, snapshot, database, stale, off>>

ForgetRecorded ==
  /\ Running("forget")
  /\ recorded' = {}
  /\ Then("resolve")
  /\ UNCHANGED <<workspace, tables, stale, off>>

\* Mutant: the baseline is left for the next deploy to be applied.
RecordBaseline_Not ==
  /\ Running("resolve")
  /\ off' = (op.schema # tables) /\ Over("done")
  /\ UNCHANGED <<workspace, database, stale>>

RecordBaseline ==
  /\ Running("resolve")
  /\ recorded' = recorded \cup {written}
  /\ off' = (op.schema # tables)
  /\ Over("done")
  /\ UNCHANGED <<workspace, tables, stale>>

-----------------------------------------------------------------------------
(* db push and db pull.                                                     *)

DbPush(accept) ==
  /\ Running("idle") /\ snapshot # Broken
  /\ IF Diff(snapshot, wanted).destructive /\ ~accept THEN Refuse
     ELSE Begin("push", "execute", accept, ~stale)
  /\ UNCHANGED <<workspace, database, stale, off>>

PushExecutes ==
  /\ Running("execute")
  /\ LET change == Diff(snapshot, op.schema)
     IN  IF ~Runs(change, tables) THEN Over("failed") /\ UNCHANGED <<tables, stale, off>>
         ELSE /\ tables' = After(change, tables)
              /\ stale' = TRUE /\ off' = (off \/ tables' # tables) /\ Then("save")
  /\ UNCHANGED <<workspace, recorded>>

DbPull ==
  /\ Running("idle")
  /\ wanted' = tables
  /\ UNCHANGED <<snapshot, files, written, database, op, stale, off>>

-----------------------------------------------------------------------------
(* The developer edits the schema, also while a command runs; a command     *)
(* dies, and a file it was writing may be cut off.                          *)
EditSchema ==
  /\ \E schema \in SUBSET Tables : schema # wanted /\ wanted' = schema
  /\ UNCHANGED <<snapshot, files, written, database, op, stale, off>>

Dies ==
  /\ ~Running("idle")
  /\ \/ UNCHANGED <<snapshot, stale>>
     \/ Running("save") /\ snapshot' = Broken /\ stale' = TRUE
  /\ Over("stopped")
  /\ UNCHANGED <<wanted, files, written, database, off>>

CliNext ==
  \/ \E accept \in BOOLEAN :
       \/ \E create_only \in BOOLEAN : MigrateDev(create_only, accept)
       \/ DbPush(accept)
  \/ MigrateDeploy
  \/ \E id \in FileIds : MigrateResolve(id)
  \/ ApplyNext \/ GenerateClient \/ SaveSnapshot \/ CommandEnds
  \/ MigrateReset \/ ResetDrops \/ ResetClears
  \/ MigrateSquash \/ ArchiveOne \/ WriteBaseline \/ ForgetRecorded \/ RecordBaseline
  \/ PushExecutes \/ DbPull \/ EditSchema \/ Dies

CliSpec == CliInit /\ [][CliNext]_cvars

-----------------------------------------------------------------------------
(* Properties.                                                              *)

(* Run in their order on a new database, the migrations recorded as applied *)
(* lead to the tables there are, and none of them fails; but for tables     *)
(* that were pushed, a migration that was only resolved, a squash or a      *)
(* reset that was stopped in the middle, and a squash while the schema was  *)
(* ahead of the database, until a reset or another squash ends well         *)
(* (main.rs:838, 868, 965).                                                 *)
HistoryReplays == ~off => recorded \subseteq OnDisk /\ Replay(recorded) = tables

(* The snapshot, from which the next migration leads on, tells the tables   *)
(* of the database, and a command that starts from there, with nothing left *)
(* to be applied, never fails; unless a migration was applied by a command  *)
(* that did not come to save the snapshot: deploy, one that failed or died, *)
(* or one that began where others were left to be applied (main.rs:792).    *)
SnapshotTells ==
  /\ ~stale => snapshot = tables
  /\ op.outcome = "failed" => ~op.clean
=============================================================================

----------------------------- MODULE MCMigrator -----------------------------
(* Migrator with two migrations of two statements.  Two deployers race on  *)
(* each server; or one operator runs every command.  Up.sql files are      *)
(* edited at any time, with and without a meta.json beside them.  In a     *)
(* mode of its own, MigrateCli: the workspace the migrations come from.    *)
EXTENDS Migrator, MigrateCli

CONSTANTS p1, p2

TwoProcs == {p1, p2}
Servers  == {"postgres", "sqlite", "mysql"}

Deployers == [provider : Servers, meta : BOOLEAN, edits : {TRUE},
              procs : {{p1, p2}}, commands : {{"apply"}}]
Operator  == [provider : Servers, meta : BOOLEAN, edits : {TRUE},
              procs : {{p1}}, commands : {Commands}]
Workspace == [provider |-> "postgres", meta |-> FALSE, edits |-> FALSE, procs |-> {}, commands |-> {}]

Sound  == Deployers \cup Operator \cup {Workspace}

MCInit == Init /\ CliInit
MCNext == \/ mode # Workspace /\ Next /\ UNCHANGED cvars
          \/ mode = Workspace /\ CliNext /\ UNCHANGED vars
MCSpec == /\ MCInit /\ [][MCNext]_<<vars, cvars>>
          /\ \A p \in Procs : WF_vars(Step(p)) /\ SF_vars(TakeLock(p))
=============================================================================

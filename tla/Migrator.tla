------------------------------ MODULE Migrator ------------------------------
(***************************************************************************)
(* Migrator of crates/migrate/src/runner.rs: apply_all, rollback, resolve  *)
(* and reset, run by processes that share one database and one migrations  *)
(* directory and may die at any point.  Each statement sent is one action. *)
(*                                                                         *)
(* Migration m has Stmts up statements, none of which can run when its     *)
(* effect is there already, and as many down statements, which undo them   *)
(* in reverse.  A version stands for the text of up.sql and also for its   *)
(* checksum.  ensure_table is idempotent and left out.                     *)
(*                                                                         *)
(* The servers are external.  Postgres and SQLite run DDL in transactions; *)
(* a SQLite transaction that has read cannot write once another has        *)
(* committed, or while another is writing.  MySQL commits each DDL         *)
(* statement at once, and ends the transaction with it.                    *)
(***************************************************************************)
EXTENDS Integers, SequencesExt

CONSTANTS Procs,        \* processes running ruprizzle
          N,            \* number of migrations
          Stmts,        \* statements of each migration
          MaxVersion,   \* bound on the texts an up.sql may have
          Backfill,     \* migrations to be filled in before they can run
          Destructive,  \* migrations that need accept_data_loss
          Modes,        \* the databases and usages to explore, see mode
          None          \* no process; no tracking row; no meta.json

Ids      == 1 .. N
Versions == 0 .. MaxVersion
Commands == {"apply", "rollback", "resolve", "reset"}

ASSUME MigratorAssumption ==
    /\ N \in Nat /\ Stmts \in Nat \ {0} /\ MaxVersion \in Nat
    /\ Backfill \subseteq Ids /\ Destructive \subseteq Ids
    /\ None \notin Procs /\ None \notin Versions
    /\ Modes \subseteq [provider : {"postgres", "sqlite", "mysql"},
                        meta     : BOOLEAN,
                        edits    : BOOLEAN,
                        procs    : SUBSET Procs,
                        commands : SUBSET Commands]

(* mode: the server; whether the directory has meta.json files; whether     *)
(* up.sql files are edited; who runs which commands.                        *)
VARIABLES mode,
          up,        \* up[m]: the version of up.sql
          meta,      \* meta[m]: the checksum in meta.json
          schema,    \* schema[m]: how many of its statements are in effect
          tracking,  \* tracking[m]: its row in _ruprizzle_migrations
          lock,      \* the advisory lock of Postgres, the write lock of SQLite
          proc,      \* proc[p]: the command p is in the middle of
          ran,       \* history: the version that was run, or resolved
          resolved,  \* history: recorded by resolve, not run since
          undoing    \* history: rollback or reset begun and not recorded

vars == <<mode, up, meta, schema, tracking, lock, proc, ran, resolved, undoing>>
disk == <<mode, up, meta>>
history == <<ran, resolved, undoing>>

NoRow == [sum |-> None, back |-> FALSE]
Ended(outcome) == [step |-> "idle", todo |-> <<>>, k |-> 0, stale |-> FALSE,
                   accept |-> FALSE, outcome |-> outcome]

Init == /\ mode \in Modes
        /\ up = [m \in Ids |-> 0]
        /\ meta = [m \in Ids |-> IF mode.meta THEN 0 ELSE None]
        /\ schema = [m \in Ids |-> 0]
        /\ tracking = [m \in Ids |-> NoRow]
        /\ lock = None
        /\ proc = [p \in Procs |-> Ended("none")]
        /\ ran = [m \in Ids |-> 0] /\ resolved = {} /\ undoing = {}

Applied(m) == tracking[m].sum # None /\ ~tracking[m].back
Transactional == mode.provider # "mysql"
Idle(p) == proc[p].step = "idle"
Current(p) == Head(proc[p].todo)

Goto(p, s) == proc' = [proc EXCEPT ![p].step = s]
Free(p) == lock' = IF lock = p THEN None ELSE lock

\* p returns.  Its transaction, if it has one, is rolled back.
End(p, outcome) == /\ proc' = [proc EXCEPT ![p] = Ended(outcome)]
                   /\ Free(p)

\* The migrations of S in the order of their names, which are the ids.
InNameOrder(S) ==
    CHOOSE s \in [1 .. Cardinality(S) -> S] :
        \A i, j \in 1 .. Cardinality(S) : i < j => s[i] < s[j]

May(p, cmd) == Idle(p) /\ p \in mode.procs /\ cmd \in mode.commands

-----------------------------------------------------------------------------
(* apply_all *)

StartApply(p, accept) ==
    /\ May(p, "apply")
    /\ proc' = [proc EXCEPT ![p] = [Ended("none") EXCEPT !.step = "verify", !.accept = accept]]
    /\ UNCHANGED <<disk, schema, tracking, lock, history>>

\* verify_checksums
Verify(p) ==
    /\ proc[p].step = "verify"
    /\ IF \E m \in Ids : Applied(m) /\ tracking[m].sum # up[m]
       THEN End(p, "mismatch")
       ELSE Goto(p, "read") /\ UNCHANGED lock
    /\ UNCHANGED <<disk, schema, tracking, history>>

\* The pending list is read outside any lock, and in the order of the names.
ReadPending(p) ==
    /\ proc[p].step = "read"
    /\ proc' = [proc EXCEPT ![p].step = "next",
                            ![p].todo = InNameOrder({m \in Ids : ~Applied(m)})]
    /\ UNCHANGED <<disk, schema, tracking, lock, history>>

Refused(p, m) == \/ m \in Backfill /\ up[m] = 0
                 \/ m \in Destructive /\ ~proc[p].accept

\* The head of the loop, up to Tx::begin.
NextMigration(p) ==
    /\ proc[p].step = "next"
    /\ IF proc[p].todo = <<>> THEN End(p, "done")
       ELSE IF Refused(p, Current(p)) THEN End(p, "refused")
       ELSE /\ Goto(p, IF mode.provider = "postgres" THEN "lock" ELSE "recheck")
            /\ UNCHANGED lock
    /\ UNCHANGED <<disk, schema, tracking, history>>

\* pg_advisory_xact_lock
TakeLock(p) ==
    /\ proc[p].step = "lock" /\ lock = None
    /\ lock' = p
    /\ Goto(p, "recheck")
    /\ UNCHANGED <<disk, schema, tracking, history>>

\* Mutant: the pending list read before the lock is trusted.
Recheck_Skipped(p) ==
    /\ proc[p].step = "recheck"
    /\ proc' = [proc EXCEPT ![p].step = "run", ![p].k = 0, ![p].stale = FALSE]
    /\ UNCHANGED <<disk, schema, tracking, lock, history>>

\* Mutant: the tracking row is written first, and not in the transaction.
Recheck_RecordsFirst(p) ==
    /\ proc[p].step = "recheck" /\ ~Applied(Current(p))
    /\ tracking' = [tracking EXCEPT ![Current(p)] = [sum |-> up[Current(p)], back |-> FALSE]]
    /\ proc' = [proc EXCEPT ![p].step = "run", ![p].k = 0, ![p].stale = FALSE]
    /\ UNCHANGED <<disk, schema, lock, history>>

\* The migration is looked up again; one applied meanwhile is skipped.
Recheck(p) ==
    /\ proc[p].step = "recheck"
    /\ IF Applied(Current(p))
       THEN /\ proc' = [proc EXCEPT ![p].step = "next", ![p].todo = Tail(@)]
            /\ Free(p)
       ELSE /\ proc' = [proc EXCEPT ![p].step = "run", ![p].k = 0, ![p].stale = FALSE]
            /\ UNCHANGED lock
    /\ UNCHANGED <<disk, schema, tracking, history>>

\* What keeps the next statement of p from running.
InEffect(p) == schema[Current(p)] > proc[p].k
Locked(p) == /\ mode.provider = "sqlite"
             /\ proc[p].stale \/ lock \notin {None, p}

\* Mutant: the loop runs one time too often.
RunStatement_OneMore(p) ==
    /\ proc[p].step = "run" /\ proc[p].k <= Stmts
    /\ ~InEffect(p) /\ ~Locked(p)
    /\ proc' = [proc EXCEPT ![p].k = @ + 1]
    /\ UNCHANGED <<disk, schema, tracking, lock, history>>

\* Mutant: the statements are sent through the pool, not through tx.
RunStatement_OutsideTx(p) ==
    /\ proc[p].step = "run" /\ proc[p].k < Stmts
    /\ ~InEffect(p) /\ ~Locked(p)
    /\ proc' = [proc EXCEPT ![p].k = @ + 1]
    /\ schema' = [schema EXCEPT ![Current(p)] = proc[p].k + 1]
    /\ UNCHANGED <<disk, tracking, lock, history>>

\* One up statement: staged in the transaction, or on MySQL final.
RunStatement(p) ==
    /\ proc[p].step = "run" /\ proc[p].k < Stmts
    /\ ~InEffect(p) /\ ~Locked(p)
    /\ proc' = [proc EXCEPT ![p].k = @ + 1]
    /\ schema' = IF Transactional THEN schema
                 ELSE [schema EXCEPT ![Current(p)] = proc[p].k + 1]
    /\ lock' = IF mode.provider = "sqlite" THEN p ELSE lock
    /\ UNCHANGED <<disk, tracking, history>>

\* StatementFailed: its effect is there, the database is busy, or a mistake.
StatementFails(p) ==
    /\ proc[p].step = "run" /\ proc[p].k < Stmts
    /\ End(p, IF InEffect(p) THEN "exists" ELSE "failed")
    /\ UNCHANGED <<disk, schema, tracking, history>>

\* The checksum apply_all records: that of meta.json, if there is one.
RecordedSum(m) == IF meta[m] = None THEN up[m] ELSE meta[m]

\* Mutant: on conflict only rolled_back_at is cleared.
Commit_KeepsChecksum(p) ==
    /\ proc[p].step = "run" /\ proc[p].k = Stmts
    /\ LET m == Current(p) IN
       /\ schema' = [schema EXCEPT ![m] = Stmts]
       /\ tracking' = [tracking EXCEPT ![m] =
                         [sum |-> IF @.sum = None THEN RecordedSum(m) ELSE @.sum, back |-> FALSE]]
       /\ ran' = [ran EXCEPT ![m] = up[m]]
       /\ resolved' = resolved \ {m}
    /\ proc' = [q \in Procs |->
                  IF q = p THEN [proc[p] EXCEPT !.step = "next", !.todo = Tail(@)]
                  ELSE [proc[q] EXCEPT !.stale = proc[q].step = "run"]]
    /\ Free(p)
    /\ UNCHANGED <<disk, undoing>>

\* Mutant: the lock belongs to the session, which goes back to the pool.
Commit_KeepsLock(p) ==
    /\ proc[p].step = "run" /\ proc[p].k = Stmts
    /\ LET m == Current(p) IN
       /\ schema' = [schema EXCEPT ![m] = Stmts]
       /\ tracking' = [tracking EXCEPT ![m] = [sum |-> RecordedSum(m), back |-> FALSE]]
       /\ ran' = [ran EXCEPT ![m] = up[m]]
       /\ resolved' = resolved \ {m}
    /\ proc' = [proc EXCEPT ![p].step = "next", ![p].todo = Tail(@)]
    /\ UNCHANGED <<disk, undoing, lock>>

\* The tracking row is written and the transaction commits: what it staged
\* takes effect, and the SQLite transactions that have read become stale.
Commit(p) ==
    /\ proc[p].step = "run" /\ proc[p].k = Stmts
    /\ LET m == Current(p) IN
       /\ schema' = [schema EXCEPT ![m] = Stmts]
       /\ tracking' = [tracking EXCEPT ![m] = [sum |-> RecordedSum(m), back |-> FALSE]]
       /\ ran' = [ran EXCEPT ![m] = up[m]]
       /\ resolved' = resolved \ {m}
    /\ proc' = [q \in Procs |->
                  IF q = p THEN [proc[p] EXCEPT !.step = "next", !.todo = Tail(@)]
                  ELSE [proc[q] EXCEPT !.stale = proc[q].step = "run"]]
    /\ Free(p)
    /\ UNCHANGED <<disk, undoing>>

-----------------------------------------------------------------------------
(* rollback: every statement goes to the pool and is final *)

\* Mutant: the oldest migrations are taken first.
StartRollback_OldestFirst(p, n) ==
    /\ May(p, "rollback")
    /\ LET ids == InNameOrder({m \in Ids : Applied(m)}) IN
       proc' = [proc EXCEPT ![p] = [Ended("none") EXCEPT
                  !.step = "down", !.todo = SubSeq(ids, 1, IF n < Len(ids) THEN n ELSE Len(ids))]]
    /\ UNCHANGED <<disk, schema, tracking, lock, history>>

\* The n newest applied migrations, newest first.
StartRollback(p, n) ==
    /\ May(p, "rollback")
    /\ LET ids == Reverse(InNameOrder({m \in Ids : Applied(m)})) IN
       proc' = [proc EXCEPT ![p] = [Ended("none") EXCEPT
                  !.step = "down", !.todo = SubSeq(ids, 1, IF n < Len(ids) THEN n ELSE Len(ids))]]
    /\ UNCHANGED <<disk, schema, tracking, lock, history>>

DownStatement(p) ==
    /\ proc[p].step = "down" /\ proc[p].todo # <<>> /\ proc[p].k < Stmts
    /\ LET m == Current(p) IN
       /\ schema[m] = Stmts - proc[p].k
       /\ schema' = [schema EXCEPT ![m] = @ - 1]
       /\ undoing' = undoing \cup {m}
    /\ proc' = [proc EXCEPT ![p].k = @ + 1]
    /\ UNCHANGED <<disk, tracking, lock, ran, resolved>>

DownFails(p) ==
    /\ proc[p].step = "down" /\ proc[p].todo # <<>> /\ proc[p].k < Stmts
    /\ End(p, "failed")
    /\ UNCHANGED <<disk, schema, tracking, history>>

\* UPDATE ... SET rolled_back_at
MarkRolledBack(p) ==
    /\ proc[p].step = "down" /\ proc[p].todo # <<>> /\ proc[p].k = Stmts
    /\ LET m == Current(p) IN
       /\ tracking' = [tracking EXCEPT ![m].back = TRUE]
       /\ undoing' = undoing \ {m}
       /\ resolved' = resolved \ {m}
    /\ proc' = [proc EXCEPT ![p].todo = Tail(@), ![p].k = 0]
    /\ UNCHANGED <<disk, schema, lock, ran>>

RollbackEnds(p) ==
    /\ proc[p].step = "down" /\ proc[p].todo = <<>>
    /\ End(p, "done")
    /\ UNCHANGED <<disk, schema, tracking, history>>

-----------------------------------------------------------------------------
(* resolve and reset *)

Resolve(p, m) ==
    /\ May(p, "resolve")
    /\ tracking' = [tracking EXCEPT ![m] = [sum |-> up[m], back |-> FALSE]]
    /\ ran' = [ran EXCEPT ![m] = up[m]]
    /\ resolved' = resolved \cup {m}
    /\ UNCHANGED <<disk, schema, lock, proc, undoing>>

StartReset(p) ==
    /\ May(p, "reset")
    /\ Goto(p, "drop")
    /\ UNCHANGED <<disk, schema, tracking, lock, history>>

\* DROP TABLE, all at once when the transaction commits, or one by one.
DropTables(p) ==
    /\ proc[p].step = "drop"
    /\ \E D \in IF Transactional THEN {Ids} ELSE {{m} : m \in Ids} :
         /\ \E m \in D : schema[m] > 0
         /\ schema' = [m \in Ids |-> IF m \in D THEN 0 ELSE schema[m]]
         /\ undoing' = undoing \cup {m \in D : Applied(m)}
    /\ UNCHANGED <<disk, tracking, lock, proc, ran, resolved>>

\* With no table left, DELETE FROM _ruprizzle_migrations.
ClearTracking(p) ==
    /\ proc[p].step = "drop" /\ \A m \in Ids : schema[m] = 0
    /\ tracking' = [m \in Ids |-> NoRow]
    /\ resolved' = {} /\ undoing' = {}
    /\ End(p, "done")
    /\ UNCHANGED <<disk, schema, ran>>

-----------------------------------------------------------------------------
\* A command fails between two statements, or its process dies.
Crash(p) == /\ ~Idle(p)
            /\ End(p, "crashed")
            /\ UNCHANGED <<disk, schema, tracking, history>>

\* Someone edits an up.sql, while no command is reading the directory.
Edit(m) == /\ mode.edits
           /\ \A p \in Procs : Idle(p)
           /\ \E v \in Versions \ {up[m]} : up' = [up EXCEPT ![m] = v]
           /\ UNCHANGED <<mode, meta, schema, tracking, lock, proc, history>>

\* What a command does by itself, once it has been started.
Step(p) == \/ Verify(p) \/ ReadPending(p) \/ NextMigration(p) \/ TakeLock(p) \/ Recheck(p)
           \/ RunStatement(p) \/ StatementFails(p) \/ Commit(p)
           \/ DownStatement(p) \/ DownFails(p) \/ MarkRolledBack(p) \/ RollbackEnds(p)
           \/ DropTables(p) \/ ClearTracking(p)

Next == \/ \E p \in Procs :
              \/ \E accept \in BOOLEAN : StartApply(p, accept)
              \/ \E n \in Ids : StartRollback(p, n)
              \/ \E m \in Ids : Resolve(p, m)
              \/ StartReset(p) \/ Step(p) \/ Crash(p)
        \/ \E m \in Ids : Edit(m)

Spec == Init /\ [][Next]_vars

\* A command that can go on does, and Postgres grants a lock in the order it
\* was asked for.
FairSpec == Spec /\ \A p \in Procs : WF_vars(Step(p)) /\ SF_vars(TakeLock(p))

-----------------------------------------------------------------------------
(* Properties *)

TypeOK ==
    /\ mode \in Modes
    /\ up \in [Ids -> Versions] /\ meta \in [Ids -> Versions \cup {None}]
    /\ schema \in [Ids -> 0 .. Stmts]
    /\ tracking \in [Ids -> [sum : Versions \cup {None}, back : BOOLEAN]]
    /\ lock \in Procs \cup {None}
    /\ proc \in [Procs -> [step : {"idle", "verify", "read", "next", "lock", "recheck",
                                   "run", "down", "drop"},
                           todo : Seq(Ids), k : 0 .. Stmts, stale : BOOLEAN,
                           accept : BOOLEAN,
                           outcome : {"none", "done", "mismatch", "refused", "exists",
                                      "failed", "crashed"}]]
    /\ ran \in [Ids -> Versions]
    /\ resolved \subseteq Ids /\ undoing \subseteq Ids

\* A migration recorded as applied is in effect, whole, whatever failed or died
\* on the way, unless it was only resolved, or a rollback or reset of it was
\* begun and its record not reached (runner.rs:292-334, 366-408).
AppliedInEffect ==
    \A m \in Ids : Applied(m) => schema[m] = Stmts \/ m \in resolved \cup undoing

\* Where DDL is transactional, a migration not recorded as applied has left
\* nothing behind (runner.rs:225).
NothingHalfDone ==
  /\ TypeOK
  /\ Transactional => \A m \in Ids : ~Applied(m) => schema[m] = 0

\* The tracking table tells what is in the database (runner.rs:225, 292-334).
TrackingTrue == AppliedInEffect /\ NothingHalfDone

\* Migrations are applied in the order of their names and rolled back in the
\* reverse order, so those applied come before those pending, resolved ones
\* apart (runner.rs:83, 356).
AppliedInOrder ==
    \A m, e \in Ids : e < m /\ Applied(m) => Applied(e) \/ m \in resolved

\* On Postgres, deployers racing each other never fail because a statement's
\* effect is already there (runner.rs:271-274).
NoneTooMany == mode.provider = "postgres" => \A p \in Procs : proc[p].outcome # "exists"

\* Migrations run in their order, each of them once, whoever deploys
\* (runner.rs:83, 271-274, 356).
InOrder == AppliedInOrder /\ NoneTooMany

\* The migrations edited before they were last run, whose meta.json still has
\* the checksum of the text that was generated (cli/src/main.rs:719-725).
Drifted == {m \in Ids \ resolved : meta[m] \notin {None, ran[m]}}

\* apply_all reports a checksum mismatch exactly when the file of an applied
\* migration has changed since it was applied (crates/migrate/src/error.rs:24).
\* Excepted are the Drifted ones, for which it reports, against that message
\* and docs/MigrationsGuide.md:43, that the file is not the generated one.
MismatchIsEdit ==
    [][\A p \in Procs : Verify(p) =>
          (proc'[p].outcome = "mismatch" <=>
             \E m \in Ids : Applied(m) /\ up[m] # IF m \in Drifted THEN meta[m] ELSE ran[m])]_vars

\* Every command returns: none waits for ever for the advisory lock.
CommandsEnd == \A p \in Procs : ~Idle(p) ~> Idle(p)
=============================================================================

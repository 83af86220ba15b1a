# ruprizzle in TLA+

Models, model checks and proofs of [ruprizzle](../src/README.md), an ORM for
Rust: a schema language, a generator for typed clients, a migration engine, and
a runtime with connection pools, transactions, a query cache and a replica
router. The modules here are translated from the source of one commit; every
definition that stands for code is listed with its lines in `PROJECT.json`
(`map`). Paths below are relative to `src/crates/` unless said.

    tlc -workers 2 -config RusqlitePool.cfg MCRusqlitePool    # check a run
    tlapm RusqlitePoolProofs.tla                              # check proofs

Contents: [1 the system](#1-the-system) · [2 modules](#2-modules-and-the-code) ·
[3 runs](#3-runs) · [4 bounds and fairness](#4-bounds-and-fairness) ·
[5 proofs](#5-proofs) · [6 what the code does not
keep](#6-where-the-code-and-its-documents-differ) · [7 what is left
out](#7-what-is-not-modelled) · [8 plan](#8-plan)

## 1. The system

The workspace has thirteen crates. Part of them keeps state that several actors
share; the rest transforms one thing into another, and is hard because the same
meaning must survive several dialects, drivers and formats.

What keeps state:

| part | where | state it keeps | what makes it hard |
|---|---|---|---|
| native SQLite pool | `runtime/src/rusqlite.rs` | free list, waiter count, a transaction flag per connection in SQLite itself | threads blocking on a condition variable, barging, time-outs, panics under a mutex, a COMMIT that fails and leaves the transaction open |
| native Postgres pool | `runtime/src/tokio_postgres.rs` | deadpool's permits, the Object in a transaction handle, spawned rollbacks | futures dropped at any await, Drop that cannot await, lost sessions |
| transactions and savepoints | `runtime/src/tx.rs` | a savepoint counter, the names whose handles were dropped, the server's stack of savepoints | Drop only queues; the queue is worked off by the next call, whoever makes it |
| query result cache | `runtime/src/cache.rs` | entries, and an index from tags to keys | two maps under two locks, with no lock across both in `set` and `invalidate_tag` |
| replica router | `runtime/src/pool.rs`, `executor.rs` | a health flag and a count per replica, a rotating index | every access is an atomic of its own; health checks await between theirs |
| SELECT queries | `runtime/src/query.rs`, `compile.rs`, `filter.rs`, `join.rs` | the query under construction | the same filter is compiled by many functions; parentheses, numbered placeholders and the soft-delete predicate must come out right in each; a caller reads page by page while others write |
| writing calls | `runtime/src/query.rs`, `nested.rs`, `rel.rs`, `m2m.rs` | the statements still to be sent | one call is a list of statements, some made from the answers of others, with other clients in between; a transaction that lost is tried again |
| includes | `runtime/src/include.rs` | the rows read so far | a relation is read in several statements, without a transaction |
| migrations | `migrate/src/`, `dialect/src/` | migration files, a tracking table, the database | several deployers, crashes, servers with and without transactional DDL, an order of statements that must work for every edit |
| the workspace | `cli/src/main.rs` | schema, snapshot, migrations directory, database | each command writes several of the four, one after another, and may die in between |

What transforms:

| part | where | what must survive |
|---|---|---|
| lowering and generation | `parser/src/lower.rs`, `validate.rs`, `codegen/src/emit.rs` | two ends of a relation, written apart, must be paired, and the helpers generated at each end must lead to the same rows |
| hierarchies | `runtime/src/hierarchy.rs`, `tree_from_root` | the walk must be exact although parents form cycles and rows are deleted or moved |
| advice on schemas | `migrate/src/rename.rs`, `plan.rs` | what is suggested must be possible, and a plan must defer its foreign keys when they form a cycle, in whatever order a hash map has them |
| text of SQL | `migrate/src/runner.rs`, `check/src/validate.rs`, `runtime/src/executor.rs`, `pool.rs` | statements are cut, checked and routed without a parser |
| values | `runtime/src/value.rs`, `decode.rs`, the drivers, generated readers | what one driver wrote another driver reads |
| JSON and array filters | `runtime/src/json.rs`, `col.rs`, `compile.rs` | one filter, three databases with operators of their own |
| aggregates | `runtime/src/aggregate.rs`, `query.rs`, `compile.rs`, `emit.rs` | a positional answer is read by position, into the type the caller said |
| introspection and drift | `migrate/src/introspect.rs`, `drift.rs`, `cli/src/introspect.rs`, `studio/handlers/diff.rs` | a catalog read back as a schema must make the same tables |
| edge clients | `d1/src/`, `turso/src/` | one statement is one HTTP request, which may be lost at either end |

How they interact. A query is compiled to SQL (`query.rs`, `compile.rs`) and
handed to an `Executor`: a pool, a `Tx`, a `Savepoint`, an edge client, or the
router, which hands a read to a replica's pool and all else to the primary's. A
pool lends a connection for one statement or, through `begin`, until the
transaction ends. `Tx` locks its connection for one statement at a time, so
tasks that share a `Tx` interleave between statements. A writing call opens a
transaction of its own when it knows that it has more than one statement.
Includes run after the rows of a query are there. The cache stands beside all
this: callers look a key up, run the query, and store the result under tags.
`ruprizzle migrate dev` parses and lowers the schema, compares it with the
snapshot of the last one (`diff.rs`), plans statements in one fixed order of
phases (`plan.rs`), spelled by the dialect, writes them to `up.sql`, and has the
runner apply them; the runner cuts the file into statements. `db pull` goes the
other way, from the catalog to a schema file.

What makes each part correct:

* *Pools.* A connection has one owner; it is back in the pool only with no
  transaction open on it; no path leaks it; a caller who waits is served or
  told that the pool is exhausted.
* *Transactions.* Savepoints behave as a stack of restore points, and rows written
  under an abandoned savepoint are not committed with the rest, as long as the
  callers use them as a stack; the signatures do not force them to (section 6).
* *Queries.* Every form of a query ranges over the rows its calls describe,
  deleted ones only on request; paging repeats and loses nothing.
* *Writing calls.* A call does all of what it says or nothing, however many
  statements it takes; what it returns is what it did.
* *Includes.* No row is attached to a parent it did not belong to, or twice.
* *Cache.* An entry is never out of the reach of an invalidation of its tags;
  capacity is kept.
* *Router.* Reads follow the flags, and the flags follow the servers; load is
  spread as the strategy says.
* *Migrations.* The tracking table tells the truth about the database, in the
  order of the migrations, whatever fails or dies; for every edit, every
  statement of the plan can run when its turn comes, the end is the target
  schema, what stays keeps its data, and what would be lost is announced.
* *The workspace.* The files on disk, replayed, give the database; the snapshot
  from which the next migration leads on tells what the database has.
* *What transforms.* The answer has the meaning of the question: given by a
  definition that knows nothing of the code, and compared for every input of a
  family.

The other parts of the system are listed in `PROJECT.json` (`components`) and in
section 7, with the reason why they are not modelled. The hazards these
properties are aimed at, each at its line, are `hazards` there.

## 2. Modules and the code

A module with state is one component; `MC<module>` instantiates it for TLC;
`<module>Proofs` has its theorems (`MigratorProofs` also those of `MigrateCli`,
`FunctionProofs` those of the functions). An action is one step that nothing can
interleave with: a critical section, one atomic access, one statement, or the
code between two awaits. Definitions named `X_Something`, right before the
`X` they vary (the letter itself in `WriteQuery` and `IncludeLoad`), are
plausible bugs (mutants): each property is known to fail when one of them
replaces what it varies. Variables and fields marked *history* exist only so that a
property can speak of the past; no action reads them to decide anything.

Functions without state share one shape (`Call`): the function and its
`argument` are chosen in `Init`, one step computes the `answer`, and the
property speaks of both. They are checked together by `MCFunctions`, which has
the families of inputs.

### PoolContract, RusqlitePool, TokioPgPool

`PoolContract` is the promise both native pools make: `Acquire` a free clean
connection, `Use` it, `Release` it clean. Both pools are checked and proved to
implement it.

`RusqlitePool`. `idle` is the free list `conns` (a bag, so that a connection
returned twice would show), `open` is SQLite's own transaction state, `poisoned`
the poison flag of a connection's mutex, `pc`/`held`/`want` the thread,
`waiters` the counter behind `num_waiters`, `expired` the deadline of `pop_conn`.
`Ask`, `Pop`, `Wait`, `Exhausted`, `DeadlinePasses`, `WakeAlone` are the loop of
`pop_conn` (201–248); `Return` and `NotifyOne` are the two halves of
`return_conn` (260–265), which pushes under the mutex and notifies after it;
`Begin`, `BeginFails`, `EndTransaction`, `CommitFails`,
`RollbackAfterFailedCommit`, `QueryPanics`, `TxPanics` are the ways a connection
is used. Which free connection is popped is left open.

`TokioPgPool`. `conn[c]` says where a connection is (pool, caller, spawned
rollback, detached), whether its session lives and whether a transaction is open
on it; `step` is the await each caller is at. deadpool and the server are external (`Get`,
`Discard`, `SessionEnds`); `BeginSucceeds`/`BeginFails`, `Finish`,
`CommitSucceeds`/`CommitFails`/`RollbackEnds`, `DropTx`, `DropTxNoRuntime` and
`RollbackTask` are `begin`, `finish` and the `Drop` of the handle (174–389).
`Cancel` drops a call's future at its await. Whether callers cancel is a choice
made in `Init` (`cancels`).

### NestedTx, TxSavepoint

`NestedTx` is a stack of restore points over a set of rows. `TxSavepoint` is
`tx.rs`: `live` handles, `pending` (the names their `Drop` queued), the counter,
the database's stack `db`, and one call per task (`op`) with the list it still
has to flush. Every operation first takes the pending list (`Call*`), rolls the
names back one by one (`Flush`), and then runs its own statement (`Run`,
`RunFails`, `RunCommit`, `RunAbort`); another task may act between any two of
these. A savepoint is opened through any handle, or the `Tx` itself, and any
handle that nothing borrows is closed or dropped (`Borrowed`): `savepoint` takes
`&self`, so siblings may be side by side. `Cancel` drops a call, `DropTx` the
transaction. The history variable `astray` says that calls have overlapped, that one
was cancelled, or that a handle ended before one opened after it: what the code's
promises do not survive, and the one exception of both properties. Servers differ in what
an error does (`strict`: Postgres aborts the transaction). In the refinement a
dropped handle is discarded at once; here when the next call has flushed it.

### FilterSql, SelectQuery

`FilterSql` has three levels. An *expression* is what the caller writes
(`eq`, `any`, `!`, `posts_some`, `in_subquery`); `Means` is its meaning for a
row, in SQL's three-valued logic, and the reference. `Node` builds the
`FilterNode` that `filter.rs`, `col.rs` and the generated relation filters
build. `PushFilter` and its parts are `compile.rs`: they turn a node into a
statement, a sequence of tokens with the values bound to its placeholders
(1706–1875). `RowsAt` and `Disjunction` are the database (external): they read
the tokens with SQL's precedence and count placeholders as the dialect does, so
a parenthesis or a number in the wrong place changes the rows.

`SelectQuery` is the builder. `Filter`, `OrFilter`, `WithDeleted`,
`OnlyDeleted`, `OrderBy` and `With` are its calls; `asked` records what they
say. `ToSql`, `CountSql`, `ExistsSql`, `AggregateSql`, `SetOpSql` and `JoinSql`
are the forms it is sent in, each with the common table expressions put before
it (`WithCtes`, which renumbers). `JoinSql` joins the children by each kind the
dialect has (`JoinKinds`), under their own name or an alias, with the
soft-delete predicate in ON or in WHERE as `join.rs` puts it; `DecodeJoin` reads
the joined row by position (`offset_row.rs`), where a side that is all NULL is
no row. `StartPages`/`NextPage` are a caller who calls `page` with a growing
offset, `StartCursor`/`NextCursor` one who uses `after` or `before` on the
primary key; `Other` is another client. Rows that ORDER BY does not tell apart
are answered in every order.

### RowStore, WriteQuery, IncludeLoad

`RowStore` is the database under them (external): rows of three related tables
and a join table, transactions that hold the rows they wrote, foreign keys if
`enforced`, and RETURNING if `returning`.

`WriteQuery`: a call is a record built by operators that stand for the builder's
methods (`NewInsert`, `OnConflict`, `NestedWrite`, `WithM2m`, `WithCascade`,
...). `Start` compiles it into `run[c].todo`, the statements in the order in
which `query.rs`, `nested.rs`, `rel.rs` and `m2m.rs` send them; each is an
action, and those that follow from what a SELECT found are put in front of the
rest when it returns. A statement may fail (`failures`), and a call ends in `ok`
or `error`. `Means` is the call as one step on a state of the rows, its
reference. `NewTransaction` is `Db::transaction_retrying` around several calls:
an attempt that fails in a way worth retrying is rolled back and begun again.

`IncludeLoad` is `include.rs`: `ReadParentRows`, then `ReadAll`, `ReadChunk`,
`ReadLinks` and `ReadTargets` fetch the children of a set of parents by the fast
path, by chunks of keys, by windows (`ROW_NUMBER`) or parent by parent;
`Descend` goes into a nested include and `Attach` puts the children to their
parents. `Environment` is other clients, writing in between. `ever` is history:
every row and every link there was at some moment of the read.

### QueryCache

`entries` and `index` are the two maps; every action is one critical section.
`SetEntry`/`SetIndex` are `set`, `InvalidateIndex`/`InvalidateEntries`/
`InvalidatePrune` the three phases of `invalidate_tag`, `PruneCollect`/
`PruneRemove` `prune_expired`, `ClearEntries`/`ClearIndex` `clear`. An entry's
`setter`, `invalid` and `raced` are history: whose `set` has not returned, which of
its tags were invalidated since, and under which of them its `set` came and went
while an earlier entry of the key was dropped and not yet unlisted (`CleansUp`).
`usage` fixes for a behaviour which threads call, with which tags, and whether
anyone clears.

### RoutedPool

`healthy`, `active` and `rr` are the atomics. `StartRead`, `Scan`, `Pick*`,
`Count`, `Start`, `Finish` are a read through `pick_healthy` and `InFlight`
(725–855), one flag or count at a time; `Selected` returns a pool to a caller of
`select_replica`, and `SelectFirst` is that function's last resort, the first
replica although it is marked unhealthy, which the executor refuses
(`PickNone`); `StartCheck`, `Ping`, `Store`,
`EndCheck`, `CancelCheck` are `check_health`, called by the application or by
the background task, which `StopTask` aborts. `steady`, `ever`, `calm` and
`rotation` are history.

### Migrator, MigrateCli

`Migrator` has one process per command. `apply_all` is verify, read pending, and
per migration begin, lock, look again, the statements, the tracking row and
commit; `rollback`, `resolve` and `reset` follow. `mode` fixes the server:
Postgres (transactional DDL and an advisory lock), SQLite (transactional DDL,
one writer, a stale snapshot is refused) or MySQL (each DDL statement commits).
`Crash` ends a command anywhere; `Edit` changes an `up.sql`.

`MigrateCli` is what surrounds it: `wanted` (`schema.ruprizzle`), `snapshot`,
`files` (the migrations directory, with baselines and archived ones), `recorded`
and `tables` (the database), and one command `op` at a time. `MigrateDev`
(also `--create-only` and `--accept-data-loss`), `MigrateDeploy`,
`MigrateResolve`, `MigrateReset`, `MigrateSquash`, `DbPush` and `DbPull` begin
one; `ApplyNext`, `GenerateClient`, `SaveSnapshot`, `ArchiveOne`,
`WriteBaseline`, ... are its steps from one file or transaction to the next.
`EditSchema` may happen at any moment, and `Dies` ends a command anywhere and
may leave the snapshot cut off. A command may also die between the `up.sql` and the
`meta.json` of a migration it writes (`WriteUpSql`): it is then destructive or not
by what its text says. A schema is a set of tables here, for what
`diff` makes of two schemas is the next module.

### SchemaDiff, SchemaPlan, SchemaMigration

`SchemaDiff` is the data of a schema and `diff` as sets: which fields are
added, renamed, kept, dropped, altered, which indexes and relations appear and
vanish, and whether any of it is destructive. `SchemaPlan` is `Planner::plan`
with the statements of Postgres and SQLite, in order, as a sequence of records.
`SchemaMigration` runs such a sequence: `Edit` is `migrate dev` deciding on a
new schema, each `Run*` action executes the next statement on a modelled
database, which may refuse it, and `Commit`/`Rollback` end the migration's
transaction. The database is external: its actions follow what the two servers
document, among them that SQLite ignores `PRAGMA foreign_keys` in a transaction.
A column's `data` says whose values it holds, so that a lost or mixed-up column
shows.

What the planner does wrong (section 6) is written down as named predicates
(`Collides`, `StaleHint`, `StartsLate`, ...), and `Supported` is the absence of
all of them. The properties hold where `Supported` does; so the predicates are a
statement of their own: there is no other reason, within the bounds, for a plan
to fail or to miss its target.

### Functions without state

Each is translated operation by operation and compared with a definition of
what it ought to return. Where the code's answer is known to differ, the
difference has a name (`Lossy`, `Unreadable`, `JsonParts`, `MayFail`, ...) and
the property says that there is no other.

| module | what it is | the reference |
|---|---|---|
| `SchemaLowering` | `lower.rs` pairs the ends of relations and resolves each pair; `validate.rs` judges the schema (`Problems`); `emit.rs` makes of each end an include and a relation filter | a pairing is the only one that the names, columns and join models written allow; the two helpers of a pair are converse, and follow the foreign key |
| `Hierarchy` | ancestors and descendants by a recursive CTE, with order, depth and cycle protection; the generated `tree_from_root`, in two statements | distances in the graph of live rows |
| `SqlSplit` | `split_statements`, character by character (`Scan`) | the pieces the text was put together from |
| `SqlText` | `validate_manifest` of `ruprizzle check`, `is_replica_safe`, `infer_operation_and_table`, the suggestion of a name | the statement as it was meant (`Spelled`), before it was text |
| `SchemaAdvice` | `suggest_renames`; the cycles of foreign keys by Tarjan's algorithm, and which plans defer for them, with which settings | that the suggestion, confirmed, keeps the column; reachability in the graph of keys |
| `Values` | what each driver binds, what the column makes of it, what each reader decodes | the value that was written |
| `JsonFilter` | comparison, containment, keys, the update of a key, and array filters, in each dialect | the meaning on documents and lists |
| `Grouping` | every aggregate, `group_by`, `having`, order and window, decoded as a tuple or the generated struct | groups of rows and sums over them |
| `DbPull` | a catalog pulled as a schema, that schema lowered, and the tables it creates; drift; Studio's comparison | the catalog itself |
| `EdgeClient` | settings, one statement as a request to Turso or D1, every end of it, and the decoding of the answer | what the server did |

They build on each other: `DbPull` reads its schemas with `SchemaLowering`,
whose `Problems` say whether the parser would take them, and `SchemaAdvice` takes
added and dropped columns from `SchemaDiff`.

## 3. Runs

Properties of the same question are conjuncts of one invariant; the names of the
conjuncts are given with it. Each module's `TypeOK` is part of one of them.

| run | shows |
|---|---|
| `rusqlite_pool` | two connections, three callers: `Conserved` (nothing leaked or returned twice), `IdleIsClean`, `OneShotOutsideTx`, `NoLostWakeup` (push and notify are two steps, callers barge in between), `AcquireReturns` (every `pop_conn` ends though transactions may last for ever), and `ImplementsContract` |
| `tokio_pg_pool` | two connections, three callers, with and without cancellation: `NoneLeaked`, `TxNotAutocommitted`, `PermitsReturn` always; `IdleIsClean` and `ImplementsContract` as long as nobody cancels |
| `tokio_pg_cancel` | violation of `ReleasedClean`: with cancellation a connection comes back with a transaction open |
| `tx_savepoint` | three savepoints by one task, two by two tasks, both kinds of server: siblings closed in any order and calls cancelled anywhere: `SavepointsHold` (`DistinctNames`; unless `astray`, `LiveOnStack`: handles nest as their savepoints, and `AbandonedNotCommitted`), `ImplementsNestedTx` |
| `select_query` | two builder calls of every kind on three dialects: `FormsMeanCalls` (`AloneMeansCalls`: rows, count, exists, aggregate; `CombinedMeansBoth`: set operations; `JoinMeansCalls`: what the rows of each kind of join are decoded into, apart from the deleted children that RIGHT and FULL let through, `LeakedChildren`); walks after up to one call: `WalksExact` (`PagesExact` while nobody else writes, `CursorExact` while others do) |
| `writes` | every kind of writing call on four stores, with and without foreign keys and RETURNING. Alone, or beside another client's calls where statements interleave freely: `ErrorsLeaveNothing` (a failed call leaves nothing), `AnswersHoldAtCommit` (what set and connect promise still holds when they commit). Where calls are serial: `CallsAreOneStep` (a call is its meaning, in one step; a transaction that was tried again counts once). A reader beside writers: `IncludesTrue` |
| `functions` | families of inputs for the functions without state: `RelationsExact`, `HierarchyExact`, `TextReadRight` (`SplitExact`, `StatementsRead`, `Suggested`; and of `SchemaAdvice` `RenamesLikely`: a rename that is suggested can be confirmed, one that only changes capitals is suggested; `CyclesDeferred`: a plan defers its keys exactly when it touches a cycle), `ValuesReadBack`, `JsonFiltersMean`, `CatalogRead`, `EdgeAnswersTrue`, `AggregatesTrue` |
| `query_cache` | two threads doing everything, with any tags, or three with one tag: `Reachable` (with the capacity), `InvalidationSettles`; both but for the tags under which an entry was `raced` |
| `migrator` | two deployers, or an operator with every command, on each server, while `up.sql` files change, with `meta.json` and without: `TrackingTrue` (`AppliedInEffect`, `NothingHalfDone`), `InOrder`, `MismatchIsEdit` (a mismatch is reported for a file that changed since it ran; for one edited before that, `Drifted`, when it is not the generated one), `CommandsEnd`. The workspace of one developer: `HistoryReplays` (the recorded migrations rebuild the database), `SnapshotTells` (the snapshot has its tables, and a command that starts in order does not fail) |
| `routed_pool` | five routers, from none to three replicas: `RoutedByFlags`, `Balanced` (`RotationFair`, `LeastLoaded`, `CountsTrue`), `HealthFollows` |
| `schema_migration` | every edit within a family of schemas, one after another, on both servers: `PlanWorks` (`PlanRuns`, `ReachesTarget`), `DataSafe` (`DataKept`, `LossIsFlagged`) |
| `schema_migration_loss` | violation of `NoSilentLoss`: a type change on SQLite deletes the rows of other tables, unannounced |

The comment above each property states it in words.

## 4. Bounds and fairness

* *RusqlitePool*: more callers than connections, so the list runs dry with more
  than one waiter, and a third may barge in. The state space is finite by
  itself.
* *TokioPgPool*: two permits, three callers; a third connection identity stands
  for the replacement of a detached one.
* *TxSavepoint*: `MaxSavepoints` names in all. Three give a nest of two with a
  sibling, which is what order mistakes need; two tasks sharing get two. `shared` is
  a bound only: neither property mentions it.
* *QueryCache*: capacity below the number of keys, so that insertions evict;
  keys are symmetric. Two tags are what a clean-up can confuse: the one invalidated and
  another of the same entry. Three threads have one tag, for the size of it.
* *Migrator*: two migrations of two statements (one may follow the other, one
  half may be done), one with a backfill and marked destructive; an `up.sql`
  has one of `MaxVersion` + 1 texts, the generated one or an edited one, and back.
  *MigrateCli*: one table, and three migration files in all (`MaxFiles`): one is
  squashed or pending while another is written and a third follows. With one table an added and a dropped table
  are already told apart, and a repeated change fails as it would with more.
* *SelectQuery*: two builder calls (`MaxCalls`) give every pair of an AND and an
  OR with each other, with the soft-delete calls and with a CTE, which is what
  parentheses and renumbering can go wrong on; one call before a walk
  (`WalkCalls`). Eleven expressions have one of each constructor and the
  nestings that need parentheses; eight rows have each value, no value, live and
  deleted; five children leave parents with none, live ones and deleted ones. A
  walk reads three or four rows, with equal and missing sort keys, by pages of
  one and two, while one row (`MaxOther`) comes or goes.
* *WriteQuery*, *IncludeLoad*: two authors, two posts, two tags and their links,
  in four stores that have live, deleted, missing, adopted and orphaned rows. A
  call carries up to three operations, so that each can undo what the one before
  it did. `ChunkRows = 1` splits every batch, and `caps` splits every list of
  keys, or none. One statement fails (`MaxFailures`), a transaction is tried
  twice, and two rows (`MaxChanges`) change under a reader. The other client has
  four calls that touch the same rows.
* *RoutedPool*: `changes` bounds how often a server turns or a flag is set by
  hand; `Wrap = 4` stands for 2^64. Three replicas do not divide it, so the wrap
  of the index is met; two do.
* *SchemaMigration*: the constant `Schemas` bounds the family: one model with up
  to two fields in all combinations of column, type, optionality, default, hint,
  index and unique constraint; or up to three models that refer to each other
  with two kinds of action. Behaviours are not bounded: an edit may follow any
  other. A `Field`'s name is its place in `FieldOrder`.
* *Functions*: relations between two models and a join model, any four of
  eighteen usual ends, or two with one of nine that are wrong; tables of three
  rows with every assignment of parents, four for a tree and, where there is no cycle, for a chain
  longer than the default depth of 100 (`DepthCap = 2`); migrations of up to three pieces out of twenty-seven, or
  of five odd ones; every type of field with every writer and reader its
  database has; documents of three levels and arrays of two elements; tables
  of up to four rows with sums up to and past the largest integer (`I64Max = 7`
  stands for 2^63 - 1); catalogs of one or two tables with every type and
  default, every shape of key, and one oddity; every value and every end of a
  request; statements of every shape a statement can have; models that lose and
  gain one or two columns, and foreign keys among three models with every edit
  of one of them, in every order of the hash map. Each family has the smallest
  member of every case that the code tells apart.

Fairness, all of it weak unless said:

* *RusqlitePool*: threads run, deadlines pass and `wait_timeout` returns after
  them. Callers need not ask, nor end their transactions.
* *TokioPgPool*: only the rollback tasks spawned on the runtime.
* *Migrator*: a command that can go on does (`Step`); Postgres queues lock
  requests, so `TakeLock` is strongly fair. A crash needs no help: it ends a
  command.
* *RoutedPool*: a check that can take its next step does, and the background
  ticker ticks. Servers are under no obligation; `HealthFollows` speaks only of
  behaviours in which, from some moment on, none of them hangs and the
  background task is held; that servers stop turning follows from the bound.
* *TxSavepoint*, *QueryCache*, *SelectQuery*, *WriteQuery*, *IncludeLoad*,
  *MigrateCli*, *SchemaMigration*, functions: no liveness is claimed. A call of
  `WriteQuery` ends when its finite list of statements does.

Deadlock is checked except where the system may stop for good: a transaction
that has ended, a caller who has read the last page, calls that are over, a
function that has returned, and a database that has drifted from its schema.

## 5. Proofs

Eight modules hold theorems. Each EXTENDS the module it is about, names its
inductive invariant part by part, has one lemma per action (or per group of actions
that are alike), and at its end the theorems. TLC checked each invariant on the
instance of its run before it was proved.

| what the run checks | theorem | for |
|---|---|---|
| `Conserved`, `IdleIsClean`, `OneShotOutsideTx`, `NoLostWakeup`, `ImplementsContract` | `RusqlitePoolProofs`: `ConservedAlways`, `IdleIsCleanAlways`, `OneShotOutsideTxAlways`, `NoneSleepsInVain`, `RefinesContract` | any finite number of connections and threads |
| `NoneLeaked`, `TxNotAutocommitted` | `TokioPgPoolProofs`: `NoneLeakedAlways`, `TxNotAutocommittedAlways` | any connections, callers and permits, with cancelled calls and lost sessions |
| `IdleIsClean`, `ImplementsContract` | the same: `IdleIsCleanAlways`, `RefinesContract` | the same; both properties speak of behaviours in which nobody cancels |
| `SavepointsHold` | `TxSavepointProofs`: `HandlesHold` | any number of tasks, rows and savepoints; names are always distinct, the rest holds until the callers are `astray` |
| `ImplementsNestedTx` | the same: `RefinesNestedTx` | the same, on both kinds of server; from the step that leads `astray` nothing is claimed |
| `Reachable`, `InvalidationSettles` | `QueryCacheProofs`: `AlwaysReachable`, `NoneOutlivesInvalidation` | any keys, tags, threads and capacity, in every usage |
| `TrackingTrue`, `InOrder` | `MigratorProofs`: `TrackingIsTrue`, `RunInOrder` | any number of processes, migrations and statements, where `Orderly` |
| `MismatchIsEdit` | the same: `MismatchTellsEdit` | the same, in every usage |
| `HistoryReplays`, `SnapshotTells` | the same: `HistoryLeadsHere`, `SnapshotIsTrue` | any tables and any number of migrations |
| `RoutedByFlags`, `Balanced` | `RoutedPoolProofs`: `RoutedByFlagsAlways`, `SpreadFairly` | any number of replicas, readers and checkers |
| `ErrorsLeaveNothing` | `WriteQueryProofs`: `ErrorsLeaveNothingAlways` | any rows, chunk size, failures and number of clients, and every call the builders make, with lists of operations of any length |
| `EdgeAnswersTrue` | `FunctionProofs`: `EdgeAnswersAreTrue` | statements with any number of parameters and columns, under any names |

Beside these: type correctness of each (a theorem of its own, or a conjunct of
one above); `CapacityKept` of the cache, `NamesDistinct` of savepoints and
`RecordedInEffect` of the migrator, which hold in every usage; and five theorems
about `diff`.

### What is assumed

Of the constants, what the modules ASSUME: that finite sets are finite, that
`None` and `Broken` are no connection, thread, version or set of tables, that bounds
are numbers, and the types of the usages. Two are more than that, and are what
the code relies on: `RoutedAssumption` has fewer concurrent reads than usize has
values, so that a count never wraps, and no more replicas than that.
`CallAssumption` says that the calls of `WriteQuery` are among those its builders
make (`InsertCalls`, `ManyCalls`, ...), with lists of operations of any length.

`EdgeAnswersAreTrue` is about `EdgeSpec`, the part of the run's specification that
computes the function `edge`, for any set of requests and anything (`D`) a value may
stand for. `WellFormed` says what a request is: there is a name for every column, a
parameter is NULL exactly if it stands for NULL, and the server does one of the
things it can do. Every request of the run is one. `Distinct` says that the model
values NULL and Error are none of the values and rows.

The theorems about the migrator's order have a hypothesis about the usage, which is
chosen in `Init` and never changes. Without it the property is false; section 6 and the
module's comments say why:

* `Orderly` (migrator): one process, or nothing but `apply_all`. `rollback` and
  `reset` take no lock, so a deployer beside them may apply what is being undone.

The run `migrator` has orderly usages only: what the theorems add is their size.
Where the provisos are part of the property itself (`off` and `stale` of the
workspace, `Drifted` of the migrator, `raced` of a cached entry, `cancels` of the
Postgres pool, `astray` of a transaction) the theorem has no hypothesis.

### The arguments

*RusqlitePool.* `Conserved` is not inductive: it speaks of `idle` and `held`,
while the steps that move a connection look at `pc`, and those that open or end
a transaction change `open`. `IInv` ties the three together: `HeldByPc` (a thread
holds a connection exactly between pop and push), `Conserved` in four parts, and
`OpenIsOwned` (an open transaction belongs to the thread that holds its
connection and is in it, or in the state after a failed COMMIT). Most actions
move no connection and open nothing; they are one `QuietStep`, handled by a
frame lemma. `NoLostWakeup` counts: while threads wait there are as many threads
awake or about to notify (`Helpers`) as there are free connections. A push adds
one to both sides, a pop takes one from both, a notification moves a thread from one
kind of helper to the other; a barging thread takes a connection, never a helper.
For the refinement, the owner of a connection is the thread that holds it
(`OwnerIsHolder`: unique by `OneHolder`).

*TokioPgPool.* `NoneLeaked` counts, while each step moves one connection and looks
at `step`; so the invariant says who holds what (`HeldByStep`, `OneEach`) and keeps
the count of permits apart (`PermitsKept`). `OpenIsOwned` says where an open
transaction can be: with its caller in a transaction, in the spawned rollback, or
detached. The five actions that end a call by dropping its Object are one,
`Returns`, whose conditions say when the transaction may still be open: only for
a cancelled call. In the refinement every step touches one connection, and is
an acquire, a release or a use by what becomes of its user.

*TxSavepoint.* `Named`, always: the counter is above all names on the stack
and in calls under way, and no two of these are equal. Until the callers are `astray`,
`InOrder`: one call is under way at most (`Turns`); a handle was opened through an
older one that is alive (`Opened`); savepoints on the stack ascend, and
remember fewer rows the older they are (`Stacked`); the names still to be flushed
ascend, all newer than any handle, and either all of them are on the stack or, once
the first is rolled back, none (`Queued`): that is why flushing the outermost
first, after which the inner names fail, does no harm then; and a row of an
abandoned savepoint is there only as long as that name is queued and on the
stack (`Clean`). COMMIT runs with the queue empty, so `Clean` gives
`AbandonedNotCommitted`.

The refinement of `NestedTx` maps its points to the handles alive and the one
being closed (`OpenPoints`), in the order of their numbers, and its rows to those
that will be there when the flush is done (`VisibleRows`). It needs one part more
than `InOrder`, `Closing`: the savepoint being closed is on the stack and older than
all that is still to be flushed. Then a call that begins, and a turn of its flush,
is not seen (`CallUnseen`, `FlushUnseen`): what ROLLBACK TO restores were the rows to
be seen since the handle was dropped, and a cut above the oldest queued name leaves
every point as it was (`SnapshotKept`). A drop is `Discard` at once (`DropSeen`),
since the handle dropped is the youngest; an error is `Fail`, and takes the point that
the call had consumed (`ErrorSeen`). That the points are listed in order, and the one
opened last comes last, is counting (`RankedMore`, `NthIs`, `SnapsGrow`), again by
least counterexample.

*QueryCache.* Between the two locks of `set` an entry is not listed yet, and
between those of `invalidate_tag` no longer; so `Listed` is: it is listed, or its
`set` is under way (`Setting` says which call that is), or an invalidation that
has taken it is (`Doomed`). What a clean-up is about to unlist is
no longer cached, or still being set, or raced (`Unlisting`). `Victim`: what was
invalidated and is still there is doomed, or was raced; when nothing is under way
nothing is doomed.

*Migrator.* `ProcOK` of each process: a deployer's list ascends and has all that
is not applied (`Deploys`); a rollback's descends, has the newest applied, and knows
how much of it is undone (`RollsBack`); on Postgres the lock is held from the
second look at the table to the commit (`Holds`). What a deployer has read may be
stale, and is: another may have applied it. That is why `Deploys` says no more
than that all else is applied, and order follows from the second look. `SumTrue`
relates the recorded checksum to what was run (`RanSum`).

*MigrateCli.* `CliInv`: what is recorded comes before all that is left, and replayed
gives the tables (`History`); a snapshot that is not stale has the tables (`Told`);
a command that began in order is on course, step by step (`OnCourse`); and what reset
and squash have done so far (`Resets`, `Squashes`). What a history leads to is a
recursive function, `Replay`. That it depends on the files recorded alone
(`SameHistory`), and that one later file runs after all of them (`OneMore`), is
proved from the existence of the function's graph up to each number
(`PassesExists`), by least counterexample: an induction over numbers, from the
library's facts about well-founded relations.

*RoutedPool.* For each reader the invariant bounds the list it collects from both
sides (`Between`): of the replicas looked at so far it has all that were marked
throughout (`steady`) and none that never was (`ever`). `Listed` makes it a list
without repetition, in ascending order, so that the index of round robin and
random, and the scan of LeastConnections, stay inside it (`Chosen`). `Balanced`
takes three more invariants. `Exact`: a count is the number of its readers.
`InRotation`: what a replica has waited for is bounded by the distance of the index
from its turn, plus a round if the index has wrapped since (`Waited`; the lemmas
`ModNext` and `ModBack` are the arithmetic). `Weighed`: half-way through the scan
the choice is the least of those looked at, as long as nobody else starts or ends.

*WriteQuery.* `ErrorsLeaveNothing` speaks of calls that have ended; what makes it
true is where each running call stands. `StepsAre` says what a call may have to
send: nothing, a single statement, BEGIN, statements and COMMIT (`Whole`), or the
pieces of an insert that opens no transaction (`Pieces`). It rests on one lemma
per builder, and on what `FlattenSeq` joins (`FlattenIsSeq`), by least
counterexample. `IInv` says of every client: in a transaction it has changed nothing for
good, and COMMIT is the last it has left (`Closed`); outside of one it is at
BEGIN, at its one statement, or at a piece, and has changed only rows it was asked
for. A lookup puts statements in front of the COMMIT, never behind it (`ClosedMore`).
The other half is `StoreInv`: rows keep their kinds whatever a statement does
(`EffectFits`), and so do the rows `undo` would put back (`KeepFits`, `RollbackFits`).

*EdgeClient.* An answer is computed in one step, so there is little to be inductive
about; the proof follows a value. `ParamComesBack` and `CellComesBack` take one through
its form on the wire, the server and the reader; `RowComesBack` and `RowIsNamed` put the
row together, where of two columns of one name the last one stays; `ResponseTells`
goes through the ends a request can have.

*SchemaDiff* (any two schemas, of any size): `FieldsPartitioned` (every new field
is added, renamed or kept, and only one), `DroppedOrOrigin` (a field is dropped
exactly when no new field comes from it), `OriginsDistinct` (no two fields come from
one, unless a hint is stale or given twice), `UnflaggedKeeps` (a diff that is not
destructive keeps every model, a successor of every field, and every index and
unique constraint), `SameSchemaNoChange` (a schema has no difference from itself
once its hints are spent).

Two of these proofs found something out about the model. Some CASE expressions had arms
that overlap; TLC takes the first that is true and agrees with the code's `match`,
while in TLA+ the value is any of them: they are disjoint now, in every module. And
the calls of `WriteQuery` had no type: now each kind is a set.

### What is only model-checked

* Liveness: `AcquireReturns`, `PermitsReturn`, `CommandsEnd`, `HealthFollows`. The
  prover has no rules for fairness and ENABLED.
* What RECURSIVE operators compute, which the prover cannot take: `FormsMeanCalls`,
  `WalksExact` (`FilterSql`), `TextReadRight`, `JsonFiltersMean`, `AggregatesTrue`.
* What folds, closures and sorted sequences compute, by induction over data:
  `RelationsExact`, `HierarchyExact`, `CatalogRead`, `PlanWorks`, `DataSafe`.
* Not tried yet: `AnswersHoldAtCommit`, `IncludesTrue`, `ValuesReadBack`.
  `CallsAreOneStep` compares a list of statements with a meaning of
  its own for each kind of call, which TLC enumerates and a proof would have to.

## 6. Where the code and its documents differ

Found by a run (`findings` in `PROJECT.json` quotes the lines):

1. `begin` and `finish` of the native Postgres pool hold the connection as a
   plain object across an await; a future dropped there returns it with its
   transaction open (`tokio_pg_cancel`).
2. The SQLite rebuild's `PRAGMA foreign_keys=OFF` has no effect in the
   migration's transaction, and its DROP TABLE deletes the rows that refer to
   the table with Cascade (`schema_migration_loss`).

The rest is what TLC met while the models were made and a property now names in
a proviso (with the name in parentheses), or what was read in the code and is
outside the shape of a model.

### Pools, transactions, cache, router

* The flush of abandoned savepoints walks the drop order backwards, and for
  nested handles that is outermost first, whatever the comment at `tx.rs:336`
  says; the inner names then fail.
* Handles need not end youngest first (`astray`): `Tx::savepoint` and
  `Savepoint::savepoint` take `&self` (`tx.rs:150`, `567`), so one task may open sp0
  and sp1 side by side, release sp0, and with it, on the server, sp1, whose handle
  lives on. When that handle is dropped, the next call's flush fails on its name and
  has forgotten it by then; on SQLite and MySQL, where an error does not abort the
  transaction, a later commit keeps the rows written under sp1, against
  `tx.rs:321–323`. Without the exception TLC finds this in thirteen steps.
* A `Tx` shared by two tasks (`astray`): one task's operation may slip into the other's
  flush and be undone though it succeeded (`tx.rs:333`). A cancelled operation
  loses the names it had taken, and commit then keeps the abandoned rows
  (`tx.rs:333`, `578`).
* COMMIT of a transaction that Postgres has aborted is answered with a rollback
  and no error: `commit` returns Ok (`tx.rs:200`).
* `transaction_retrying` knows the errors of sqlx and of tokio-postgres: "database
  is locked" from the native SQLite pool is not retried, though its
  documentation says that SQLite contention is. A BEGIN that fails is not retried; a
  failing rollback hides the error before it; a COMMIT whose answer is lost is
  an error though it may have happened.
* An unbuffered Postgres stream that failed runs its query again when it is
  polled again, and its connection is lent to others before its rows are read
  (`tokio_postgres.rs:216–258`).
* With two tags per entry, `invalidate_tag` unlists, in its last phase, entries
  that were cached again since its second (`cache.rs:181`): they are out of the reach
  of those tags until they expire or are set again. Two overlapping
  invalidations of one tag: the second returns while the first is still dropping
  the entries (`cache.rs:156`). `clear` racing with `set` keeps an entry and
  drops its listing (`cache.rs:197`). These are the `raced` entries that `Reachable` and
  `InvalidationSettles` except. `prune_expired` drops entries that were
  refreshed after it noted them (`cache.rs:90`).
* The router collects flags one by one: a read may go to a replica marked down
  meanwhile, or be refused although at each moment some replica was up
  (`RoutedByFlags` claims what lies between `ever` and `steady`, and excepts by
  name the first replica of `select_replica`). Reads that count at the same
  time pile up on one replica (`calm`). A ping
  that hangs stops the checks of all replicas (`pool.rs:775`).
* `is_replica_safe` sends SELECTs of functions with effects (advisory locks,
  functions of the user) to a replica; a word inside a literal makes a read go
  to the primary. `infer_operation_and_table` misses FROM on a new line, behind
  a comment, a WITH or a subquery (metrics only).
* Limits set by `connect` (slow query threshold, include limit) are process-wide:
  the last pool to connect decides for all.

### Queries and aggregates

* `eq(None)` compiles to `col = IS NULL`, which no server accepts, and `ne(None)`
  likewise (`compile.rs:1715–1723`); an empty `in_` list to `IN ()`. ILIKE is sent
  to every server. A raw fragment is not put in parentheses. A relation filter
  on a model's relation to itself compares the inner table with itself.
* `count` and `exists` ignore joins and DISTINCT. The generated `every` filter
  counts a child for which the filter is unknown as satisfying it
  (`codegen/src/emit.rs:2113`; `Means` says so as well). Renumbering also touches
  `$n` inside a literal. `page` never fills in `next_cursor` (`query.rs:918`).
  `is_full_table` ignores joins. `PreparedSelect::bind_many` appends values
  that its documentation says are ignored.
* Pages by offset repeat and skip rows while others write; that is inherent in
  OFFSET, and why `PagesExact` has its proviso.
* Joins: a RIGHT or FULL JOIN returns soft-deleted children, with no parent, as
  their predicate is in ON only (`query.rs:581–592`), although `model.rs:171–173` says
  that a join's right side needs it lest deleted rows leak. `JoinMeansCalls` wants
  them left out and excepts these rows by name (`LeakedChildren`). A
  live child whose only parent is deleted vanishes, as the parent's predicate is
  in WHERE; the filter of the caller is judged on NULLs for a child without
  parent. The native Postgres driver answers every join with an error
  (`join.rs:395`, documented). A composite key is joined on its first column.
* `group_by(..).aggregate(..)` takes the filter as written, without the
  soft-delete predicate (`query.rs:2575`), although `model.rs:171` says that
  every read path must apply it; `aggregate(..).or_filter(f)` goes around the
  predicate, so deleted rows that satisfy `f` are counted (`ReadsDeleted`).
  `or_filter` or `or_having` as the first call is TRUE OR f, and keeps all.
* SUM of BigInt on Postgres, and of any whole number on MySQL, comes as a decimal
  that is not decoded as i64; on SQLite an overflow is an error; OFFSET without
  LIMIT is no SQL on SQLite and MySQL (`MayFail`). `fetch_one` and
  `fetch_optional` overwrite a limit. The generated struct silently has None for
  a column whose name is not in snake case (`emit.rs:1411`).
* JSON (`JsonParts`): a key set on SQLite and MySQL is stored as a string, and
  on Postgres an array or a scalar is an error; SQLite takes TRUE and 1, and
  JSON null and NULL, for the same, and its `contains` looks for keys only
  (documented); MySQL compares booleans, nulls and composites as text, never
  equal, takes `[0]` of a scalar as the scalar, and its containment is wider in
  nested arrays; `has_key` on Postgres also finds strings and elements. Each
  database has an order of kinds of its own. Arrays (`ArrayParts`): an empty list
  is bound as `text[]` on Postgres; Boolean and Json elements are not found on
  MySQL; a NULL array is FALSE or TRUE on SQLite.
* A hierarchy returns its rows in the order of the database unless asked; without
  cycle protection, rows of a cycle come again. `tree_from_root` uses two
  statements without a transaction.

### Writing calls and includes

* An update whose SET touches its own filter looks its parents up afterwards, and
  writes for other rows; a delete with cascades likewise, and its subquery skips
  deleted parents while the delete does not (`LooksTwice`).
* `insert_many` with RETURNING sends its chunks without a transaction, and a
  single insert on MySQL is an INSERT and a read without one (`InPieces`).
  `on_conflict` that does nothing is reported as "INSERT RETURNING returned no
  row".
* `connect` takes children from other parents; `connect_or_create` may create
  twice beside another client, and updates every row its filter keeps.
  `insert_nested_child_batch` with RETURNING names the parent's columns.
  `with_related` called twice replaces the first.
* A many-to-many include by chunks of keys orders and takes per chunk (`Split`).
  While others write, a child may appear under two parents, and links and
  targets are of different moments: `IncludesTrue` promises no more than that
  each was true at some moment. `from_flat` keeps a root that lies on a cycle
  twice; the generated `tree_from_root` filters it.

### Values

* Where the reader and the column do not fit (`Unreadable`): the generated sqlx
  reader takes Uuid, DateTime, Decimal, Date and Time from text columns, which
  native Postgres and MySQL columns are not; enum lists are written by the
  database's name and read by the variant's; `@default(now())` on SQLite has no
  offset and is not read as a DateTime.
* What the driver refuses (`Refused`): NULL is declared as text on sqlx-Postgres
  and not taken by other columns; an enum is bound as text, which a native enum
  column does not take; an empty list is bound as `text[]`.
* `create` leaves out a None, so the column's default comes; `create_many` writes
  NULL (`emit.rs:1282`). NaN becomes NULL on SQLite. Decimal on SQLite is
  compared as text.

### Schema, generator, checker

* A many-to-many relation of a model with itself has both ends in one
  orientation; the partner of an end is not checked to point back (`Crossed`); the
  back end of a one-to-one relation of a model with itself uses swapped
  columns. A single column of a composite key counts as unique, and an implicit
  join uses only the first column of a key; a key over a relation field is not
  refused; a one-to-one relation does not require a unique key. Tables and enums
  of one name are never compared, whatever `validate.rs:128` says.
* `ruprizzle check` keeps the quotes of double-quoted names, so every table of a
  statement compiled for Postgres or SQLite is reported as unknown; and so are
  names behind `FOR UPDATE OF`, `IS DISTINCT FROM`, `EXTRACT(.. FROM`, and those of
  common table expressions. Words of comments are read. A manifest is
  written with an empty schema hash, so it is never found stale.
* `split_statements` knows no double-quoted names, nested comments or `E'\''`, and an
  unterminated comment leaves its last character as a statement.

### Migrations, workspace, introspection

* A migration edited before it is first applied, as the guide asks for backfills
  (`MigrationsGuide.md:43`), applies and is refused ever after: the recorded checksum
  is that of `meta.json`, which has the generated text (`runner.rs:329`,
  `cli/src/main.rs:719`), the verified one that of `up.sql`. The error says that the
  file "has changed since it was applied" (`error.rs:24`), which it has not; and had
  it since been changed back to the generated text, nothing would be reported. These
  migrations are the `Drifted` ones that `MismatchIsEdit` excepts.
* `rollback` and `reset` do not update the tracking table in the transaction of
  their statements; they take no advisory lock, so deployers beside them
  see migrations half undone (`Orderly`); on MySQL a failed migration stays half applied.
* A new model's indexes are never created: `diff` emits one change for the model
  and CREATE TABLE has no indexes (`LosesIndexes`).
* On SQLite a rebuild creates the new indexes and the plan creates them again
  (`IndexesTwice`); a rebuild takes the target as its source while other changes
  of the plan are pending (`StartsLate`, `StartsEarly`); foreign keys and unique
  constraints written in CREATE TABLE are changed by a rebuild only (`Stuck`); a
  table that others refer to cannot be rebuilt harmlessly (`RebuildsParent`).
* Plans fail when a column takes the name of one that goes later (`Reuses`) or
  stays (`Collides`, swapped columns included), when a kept field changes column
  and type at once (`RenamesTwice`), when a dropped column whose name is taken
  over is indexed (`ShadowsIndexed`), when a new required column has a default
  that only the client computes (`Unfilled`), and when a chain of references
  misleads the sort of dropped tables, whose order is not transitive
  (`Unorderly`). A hint that names a field still in use renames its column away
  (`StaleHint`).
* A table's `@@map`, its primary key and a field's own `@unique` are not
  compared by `diff`; a narrowed integer type is not flagged, though
  `docs/MigrationsGuide.md:192–197` lists it.
* The workspace: after `--create-only`, or a dev or deploy that failed or died,
  the snapshot is stale (`stale`), and the next `migrate dev` writes the same
  change again, which then fails for good. `reset` saves the snapshot of the
  edited schema, which the migrations do not make; `squash` makes its baseline of
  the schema file, not of the database, and leaves the snapshot (`off`). `deploy`
  never accepts data loss, although `docs/MigrationsGuide.md:238` says how; a
  baseline's `down.sql` drops tables, so a fresh deploy of any baseline is refused.
  `migrate dev` without a change writes an empty migration. The snapshot is not
  written atomically: cut off, it makes every dev and push fail. Two
  migrations of one second are ordered by their names.
* `db pull` (`Lossy` lists what it loses): on Postgres it always fails, for it
  asks for columns of MySQL's catalog; `@default(now())` on SQLite, and number
  or bare defaults of strings, decimals and booleans, come out as schemas that
  the parser refuses or that mean something else; expression defaults lose
  their parentheses; composite integer keys on SQLite become two autoincrements;
  three foreign keys to one table, or names that differ in punctuation, collide; MySQL
  loses `onDelete`, nobody reads `onUpdate`; expression and descending indexes
  are lost, partial unique ones become whole; generated columns are not seen on
  SQLite. Models get the names of their tables, so that the next `migrate dev`
  drops and creates them. Drift detection has no caller but a test, though the
  help of `migrate status` speaks of drift. Studio calls a required field safe to add whose
  default only the client computes.

### Edge clients

* Rows of the edge clients are read as maps only: the generated readers and
  streams do not take them (`query.rs:784`). Two columns of one name are one. D1
  gives whole floats as integers, blobs as lists, and rounds beyond 2^53
  (documented); it reads the first result of a text with several statements. A
  lost answer leaves open whether the statement ran, and nothing is retried.

## 7. What is not modelled

Within the modelled parts: predicates that compile as a comparison does (LIKE,
full-text, spatial), raw fragments, recursive CTEs outside hierarchies, DISTINCT
and UNION ALL, and comparison with NULL; SQLite's busy handling between processes;
session settings on recycle; the values a JSON setter of an update carries; MySQL
in the planner, enums, extensions, composite keys and indexes, join tables, what
a database does under deferred constraints (`SchemaAdvice` says when they are
deferred), and `down.sql` in `SchemaMigration`; the
grammar and the name derivation of the parser; the Rust text of the generator
apart from relation helpers, readers, aggregates and trees; geometry types and the
variants of `Error`. Time is a flag that a deadline has passed, never a number.

Not at all, with the reason:

* macros: compile-time code generation, checked by the compiler;
* language server: documents are replaced whole, each request is answered from
  the latest text; one map behind a lock;
* sqlx-backed pools: connections, transactions and cancellation are sqlx's own,
  and the code here sets its options;
* test support, benchmarks, `xtask`, `local/`: not part of the program;
* Studio's pages: a local web server over one pool, whose requests share nothing
  else, and whose comparison with the schema is in `DbPull`;
* `generate`, `validate`, `format`, `seed`, `diff` and the parsing of arguments:
  one read and one write of a file.

`PROJECT.json` (`components`) has the list with what each part's module leaves
out.

## 8. Plan

Done: every part of section 1, and the proofs of section 5.

Left, in the order of what they would add:

1. Proofs. `AnswersHoldAtCommit`, `IncludesTrue` (all that a reader holds was
   there at some moment), and `ValuesReadBack`, which is a case distinction.
2. `down.sql` in `SchemaMigration`: up and then down is where one started,
   provided nothing was flagged. MySQL as a third provider; enums and composite keys.
3. Session settings on recycle, and the unbuffered stream of the Postgres pool.

When one property follows from a deeper one, the deeper one is kept; a
difference that is understood is told in section 6, and the property that it
would break names it.

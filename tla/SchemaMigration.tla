--------------------------- MODULE SchemaMigration --------------------------
(***************************************************************************)
(* A database, and the plans that `migrate dev` runs on it: each plan is   *)
(* one transaction (apply_one of crates/migrate/src/runner.rs), so a       *)
(* statement that fails takes all of it back.                              *)
(*                                                                         *)
(* The database is external.  What Postgres and SQLite do with each kind   *)
(* of statement follows their documentation; PRAGMA foreign_keys has no    *)
(* effect in a transaction.  Every table has rows when a plan starts, none *)
(* of them with a null, and the user has filled in every backfill.         *)
(***************************************************************************)
EXTENDS SchemaPlan

CONSTANTS Schemas,   \* the schemas that the user writes
          Cascade, NoAction

ASSUME ActionAssumption == Cascade # NoAction

VARIABLES
    provider,   \* Postgres or Sqlite
    schema,     \* the schema of the snapshot
    next,       \* the schema being migrated to
    todo,       \* the statements that are left
    phase,      \* "idle", "running" or "failed"
    before,     \* the database when the plan started
    db          \* model -> its table

vars == <<provider, schema, next, todo, phase, before, db>>

Empty == [m \in {} |-> 0]

\* A column is [definition, data], data saying which column of the table held
\* its values when the plan started; "null", "default" and "filled" are new.
NewColumns(columns, From(_)) ==
    [c \in DOMAIN columns |-> [definition |-> columns[c], data |-> From(c)]]

\* When a plan is through, the application writes and reads again.
Settled(d) ==
    [m \in DOMAIN d |->
        [d[m] EXCEPT !.rows = TRUE,
                     !.columns = [c \in DOMAIN @ |-> [@[c] EXCEPT !.data = c]]]]

\* Names that exist in a function from names to columns
On(index, c)       == {i \in DOMAIN index : index[i] = c}
Without(f, names)  == [i \in DOMAIN f \ names |-> f[i]]
Moving(index, c, d) == [i \in DOMAIN index |-> IF index[i] = c THEN d ELSE index[i]]

KeyColumns(t) == {k.column : k \in t.fks}
Filled(t, c)  == t.columns[c].data # "null" \/ ~t.rows

-----------------------------------------------------------------------------
(* The database has what the schema says *)

TableMatches(s, m, t) ==
    /\ DOMAIN t.columns = DOMAIN Columns(s[m].fields)
    /\ \A c \in DOMAIN t.columns : t.columns[c].definition = Columns(s[m].fields)[c]
    /\ t.indexes = Targets(s[m].fields, s[m].indexes)
    /\ t.uniques @@ t.unique = Targets(s[m].fields, s[m].uniques)
    /\ t.fks = Keys(s, m)

Matches(s, d) == DOMAIN d = DOMAIN s /\ \A m \in DOMAIN s : TableMatches(s, m, d[m])

-----------------------------------------------------------------------------
Init == /\ provider \in {Postgres, Sqlite}
        /\ schema = Empty /\ next = Empty
        /\ todo = <<>> /\ phase = "idle"
        /\ before = Empty /\ db = Empty

\* migrate_dev, for a database without drift.
Edit(s) ==
    /\ phase = "idle" /\ Matches(schema, db) /\ s # schema
    /\ next' = s
    /\ todo' = Plan(provider, schema, s)
    /\ phase' = "running"
    /\ UNCHANGED <<provider, schema, before, db>>

Finished == phase = "running" /\ todo = <<>>

Commit ==
    /\ Finished
    /\ phase' = "idle" /\ schema' = next
    /\ db' = Settled(db) /\ before' = Settled(db)
    /\ UNCHANGED <<provider, next, todo>>

Rollback ==
    /\ phase = "failed"
    /\ phase' = "idle" /\ next' = schema /\ todo' = <<>> /\ db' = before
    /\ UNCHANGED <<provider, schema, before>>

-----------------------------------------------------------------------------
(* Statements *)

At(op) == phase = "running" /\ todo # <<>> /\ Head(todo).op = op
S == Head(todo)
T == db[S.model]

Execute(can, after) ==
    /\ IF can THEN db' = after /\ todo' = Tail(todo) /\ UNCHANGED phase
              ELSE phase' = "failed" /\ UNCHANGED <<db, todo>>
    /\ UNCHANGED <<provider, schema, next, before>>

Set(t) == [db EXCEPT ![S.model] = t]

WellFormed(body) ==
    /\ \A i \in DOMAIN body.uniques : body.uniques[i] \in DOMAIN body.columns
    /\ \A k \in body.fks : k.column \in DOMAIN body.columns

NewTable(body, rows, From(_)) ==
    [columns |-> NewColumns(body.columns, From), uniques |-> body.uniques, fks |-> body.fks,
     indexes |-> Empty, unique |-> Empty, rows |-> rows]

RunCreateTable ==
    /\ At("CreateTable")
    /\ Execute(S.model \notin DOMAIN db /\ WellFormed(S.body),
               db @@ (S.model :> NewTable(S.body, FALSE, LAMBDA c : "null")))

RunAddColumn ==
    /\ At("AddColumn")
    /\ LET d == S.definition
           column == [definition |-> d, data |-> IF d.default THEN "default" ELSE "null"]
       IN  Execute(/\ S.column \notin DOMAIN T.columns
                   /\ d.optional \/ d.default \/ (provider = Postgres /\ ~T.rows),
                   Set([T EXCEPT !.columns = @ @@ (S.column :> column)]))

RunBackfill ==
    /\ At("Backfill")
    /\ Execute(S.column \in DOMAIN T.columns,
               Set([T EXCEPT !.columns[S.column].data = "filled"]))

\* Postgres drops what is on the column; SQLite refuses.
RunDropColumn ==
    /\ At("DropColumn")
    /\ LET c == S.column
           free == On(T.indexes, c) = {} /\ On(T.unique, c) = {}
                   /\ On(T.uniques, c) = {} /\ c \notin KeyColumns(T)
       IN  Execute(c \in DOMAIN T.columns /\ (provider = Postgres \/ free),
                   Set([T EXCEPT !.columns = Without(@, {c}),
                                 !.indexes = Without(@, On(@, c)),
                                 !.uniques = Without(@, On(@, c)),
                                 !.fks = {k \in @ : k.column # c}]))

\* Postgres only, as are RunAlterColumn and the two of foreign keys
RunRenameColumn ==
    /\ At("RenameColumn")
    /\ LET c == S.column
           d == S.to
           Col(x) == IF x = d THEN c ELSE x
       IN  Execute(c \in DOMAIN T.columns /\ d \notin DOMAIN T.columns,
                   Set([T EXCEPT
                       !.columns = [x \in (DOMAIN @ \ {c}) \cup {d} |-> @[Col(x)]],
                       !.indexes = Moving(@, c, d), !.uniques = Moving(@, c, d),
                       !.fks = {[k EXCEPT !.column = IF @ = c THEN d ELSE @] : k \in @}]))

RunAlterColumn ==
    /\ At("AlterColumn")
    /\ Execute(S.column \in DOMAIN T.columns /\ (S.definition.optional \/ Filled(T, S.column)),
               Set([T EXCEPT !.columns[S.column].definition = S.definition]))

\* Before SQLite drops a table with rows it deletes them: the tables that
\* lose theirs with it, and whether a foreign key forbids it.
Losing(m) ==
    LET lost[n \in 0..Cardinality(DOMAIN db)] ==
            IF n = 0 THEN {x \in {m} : db[x].rows}
            ELSE lost[n - 1] \cup {x \in DOMAIN db : db[x].rows /\ \E k \in db[x].fks :
                                      k.action = Cascade /\ k.target \in lost[n - 1]}
    IN  lost[Cardinality(DOMAIN db)]

Deletable(m) == \A x \in DOMAIN db \ Losing(m) :
                    db[x].rows => \A k \in db[x].fks : k.target \notin Losing(m)

Emptied(m) == [x \in DOMAIN db |-> [db[x] EXCEPT !.rows = @ /\ x \notin Losing(m)]]

\* SQLite only: create, copy, drop, rename, create the indexes.
RunRebuild ==
    /\ At("Rebuild")
    /\ LET Copied(c) == T.columns[S.copy[c]].data
           table == [NewTable(S.body, T.rows, Copied) EXCEPT !.indexes = S.indexes,
                                                             !.unique = S.unique]
       IN  Execute(/\ WellFormed(S.body)
                   /\ \A c \in DOMAIN S.copy : /\ S.copy[c] \in DOMAIN T.columns
                                               /\ \/ S.body.columns[c].optional
                                                  \/ Filled(T, S.copy[c])
                   /\ Deletable(S.model),
                   [Emptied(S.model) EXCEPT ![S.model] = table])

RunDropForeignKey ==
    /\ At("DropForeignKey")
    /\ Execute(S.key.column \in KeyColumns(T),
               Set([T EXCEPT !.fks = {k \in @ : k.column # S.key.column}]))

RunAddForeignKey ==
    /\ At("AddForeignKey")
    /\ Execute(/\ S.key.column \in DOMAIN T.columns \ KeyColumns(T)
               /\ S.key.target \in DOMAIN db,
               Set([T EXCEPT !.fks = @ \cup {S.key}]))

RunDropIndex ==
    /\ At("DropIndex")
    /\ Execute(TRUE, Set([T EXCEPT !.indexes = Without(@, {S.name})]))

\* SQLite drops an index of that name if there is one.
RunDropUnique ==
    /\ At("DropUnique")
    /\ IF provider = Postgres
       THEN Execute(S.name \in DOMAIN T.uniques,
                    Set([T EXCEPT !.uniques = Without(@, {S.name})]))
       ELSE Execute(TRUE, Set([T EXCEPT !.unique = Without(@, {S.name})]))

RunAddUnique ==
    /\ At("AddUnique")
    /\ LET there == S.column \in DOMAIN T.columns
       IN  IF provider = Postgres
           THEN Execute(there /\ S.name \notin DOMAIN T.uniques,
                        Set([T EXCEPT !.uniques = @ @@ (S.name :> S.column)]))
           ELSE Execute(there /\ S.name \notin DOMAIN T.unique,
                        Set([T EXCEPT !.unique = @ @@ (S.name :> S.column)]))

RunCreateIndex ==
    /\ At("CreateIndex")
    /\ Execute(S.column \in DOMAIN T.columns /\ S.name \notin DOMAIN T.indexes,
               Set([T EXCEPT !.indexes = @ @@ (S.name :> S.column)]))

\* Postgres refuses to drop a table that is referenced.
RunDropTable ==
    /\ At("DropTable")
    /\ LET m == S.model
           referenced == \E x \in DOMAIN db \ {m} : \E k \in db[x].fks : k.target = m
       IN  IF provider = Postgres THEN Execute(~referenced, Without(db, {m}))
           ELSE Execute(Deletable(m), Without(Emptied(m), {m}))

Next == \/ \E s \in Schemas : Edit(s)
        \/ Commit
        \/ Rollback
        \/ RunCreateTable
        \/ RunAddColumn
        \/ RunBackfill
        \/ RunDropColumn
        \/ RunRenameColumn
        \/ RunAlterColumn
        \/ RunRebuild
        \/ RunDropForeignKey
        \/ RunAddForeignKey
        \/ RunDropIndex
        \/ RunDropUnique
        \/ RunAddUnique
        \/ RunCreateIndex
        \/ RunDropTable

Spec == Init /\ [][Next]_vars

-----------------------------------------------------------------------------
(* What the planner gets wrong, one definition per reason.  The properties  *)
(* below except these edits and no other; each of the reasons was found by  *)
(* checking them without it.                                                *)

\* A hint names a field that stays.
StaleHint(p, n) == Consumed(p, n) \cap Kept(p, n) # {}

\* A new column takes the name of an old one, and comes before that goes.
Reuses(p, n) ==
    \E f \in AddedColumns(p, n), g \in DOMAIN p.fields : n.fields[f].column = p.fields[g].column

\* A column is renamed to that of a field that stays.
Collides(p, n) ==
    \E f \in Renamed(p, n) \cup Moved(p, n) :
        \E g \in DOMAIN p.fields \ (DroppedColumns(p, n) \cup {Origin(p, n, f)}) :
            n.fields[f].column = p.fields[g].column

\* Both the rename and the change of a kept field start from its old column.
RenamesTwice(p, n) == AlteredColumns(p, n) \cap Moved(p, n) # {}

\* The database cannot fill a required column.
Unfilled(p, n) ==
    \E f \in AddedColumns(p, n) : ~n.fields[f].optional /\ n.fields[f].default = Client

\* A shadowed drop comes before that of the indexes and constraints.
Busy(t, c) == c \in {t.indexes[i] : i \in DOMAIN t.indexes} \cup KeyColumns(t)
                    \cup {t.uniques[i] : i \in DOMAIN t.uniques}
                    \cup {t.unique[i] : i \in DOMAIN t.unique}
ShadowsIndexed(p, n, t) == \E f \in DroppedNames(p, n, TRUE) : Busy(t, p.fields[f].column)

Unorderly == \E i, j \in DOMAIN DropOrder(schema, Dropped(schema, next)) :
    LET order == DropOrder(schema, Dropped(schema, next))
    IN  i < j /\ References(schema, order[j], order[i])

AddsRequired(p, n) == \E f \in AddedColumns(p, n) : Required(n.fields[f])
Reshapes(p, n) == Renamed(p, n) \cup Moved(p, n) \cup AlteredColumns(p, n) # {}
Rebuilds(p, n) == AddsRequired(p, n) \/ Reshapes(p, n)

\* A rebuild creates the new indexes, and so does the plan after it.
IndexesTwice(p, n) ==
    Rebuilds(p, n) /\ Appeared(p.indexes, n.indexes) \cup Appeared(p.uniques, n.uniques) # {}

\* A rebuild for a rename or a change starts from the target, where the
\* dropped column and the column of another rename are missing already.
StartsLate(p, n) ==
    \/ Reshapes(p, n) /\ DroppedNames(p, n, FALSE) # {}
    \/ \E f, g \in Renamed(p, n) \cup Moved(p, n) :
          f # g /\ p.fields[Origin(p, n, f)].column # n.fields[f].column

\* A rebuild for a new column wants the keys and uniques of the target, whose
\* columns may not be there yet.
StartsEarly(prev, m) ==
    LET p == prev[m]
        n == next[m]
    IN  \E f \in AddedColumns(p, n) : Required(n.fields[f]) /\
           LET columns == Columns(SoFar(p, n, f))
           IN  \/ \E k \in Keys(next, m) : k.column \notin DOMAIN columns
               \/ \E i \in DOMAIN n.uniques :
                     TargetColumn(SoFar(p, n, f), n.uniques[i].field) \notin DOMAIN columns

\* Only a rebuild changes foreign keys, and removes what CREATE TABLE said.
Stuck(prev, m) ==
    LET p == prev[m]
        n == next[m]
        embedded == before[m].uniques
    IN  /\ ~Rebuilds(p, n)
        /\ \/ Keys(prev, m) # Keys(next, m)
           \/ Vanished(p.uniques, n.uniques) \cap DOMAIN embedded # {}
           \/ \E f \in DroppedColumns(p, n) : On(embedded, p.fields[f].column) # {}

\* The rows that refer to a table that is rebuilt are deleted, or forbid it.
RebuildsParent(prev, m) ==
    /\ Rebuilds(prev[m], next[m])
    /\ \E r \in Relations(prev) \cup Relations(next) :
          r.owner \in DOMAIN prev \ {m} /\ r.target = m

\* The indexes of a new model are never created.
LosesIndexes == \E m \in Created(schema, next) : next[m].indexes # Empty

Supported ==
    /\ ~LosesIndexes /\ ~Unorderly
    /\ \A m \in Common(schema, next) :
          LET p == schema[m]
              n == next[m]
          IN  /\ ~StaleHint(p, n) /\ ~Reuses(p, n) /\ ~Collides(p, n)
              /\ ~RenamesTwice(p, n) /\ ~Unfilled(p, n) /\ ~ShadowsIndexed(p, n, before[m])
              /\ provider = Sqlite =>
                    /\ ~IndexesTwice(p, n) /\ ~StartsLate(p, n) /\ ~StartsEarly(schema, m)
                    /\ ~Stuck(schema, m) /\ ~RebuildsParent(schema, m)

-----------------------------------------------------------------------------
(* Properties *)

\* Every statement of a plan runs on the database that its predecessors left:
\* a rename finds its column and its new name free, nothing is created or
\* dropped twice, no table goes while it is referenced (Planner::plan).
PlanRuns == phase = "failed" => ~Supported

\* A plan that is through has reached the target: the database has exactly the
\* columns, indexes, constraints and keys of the new schema (diff, plan).
ReachesTarget == Finished /\ Supported => Matches(next, db)

\* Every plan that is supported runs to its end, and to its target
\* (crates/migrate/src/plan.rs).
PlanWorks == PlanRuns /\ ReachesTarget

\* What a model keeps, or renames by a hint, keeps its values, and a table
\* that stays keeps its rows, whatever is rebuilt on the way (rebuild_table).
DataKept ==
    Finished /\ Supported =>
        \A m \in Common(schema, next) :
            /\ db[m].rows
            /\ \A f \in Renamed(schema[m], next[m]) \cup Kept(schema[m], next[m]) :
                  LET old == schema[m].fields[Origin(schema[m], next[m], f)]
                  IN  db[m].columns[next[m].fields[f].column].data = old.column

\* The table, its rows, or the values of one of its columns are gone.
Lost(m) ==
    \/ m \notin DOMAIN db
    \/ ~db[m].rows
    \/ \E c \in DOMAIN before[m].columns : \A d \in DOMAIN db[m].columns : db[m].columns[d].data # c

\* `migrate dev` stops before it loses data, unless it is told to go on: a plan
\* that loses any has a change that is_destructive.  Violated by the rebuild of
\* a SQLite table that others refer to.
NoSilentLoss == Finished /\ (\E m \in DOMAIN before : Lost(m)) => Destructive(schema, next)

\* The same, for what the planner supports.
LossIsFlagged == Supported => NoSilentLoss

\* No data is lost by what is kept, and none by what is not without a warning.
DataSafe == DataKept /\ LossIsFlagged
=============================================================================

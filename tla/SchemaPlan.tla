----------------------------- MODULE SchemaPlan -----------------------------
(***************************************************************************)
(* Planner::plan of crates/migrate/src/plan.rs, upwards, with the          *)
(* statements of the Postgres and SQLite dialects: what `migrate dev`      *)
(* writes to change prev into next.                                        *)
(*                                                                         *)
(* A statement is a record with its op, its model, and what it changes.    *)
(* The rebuild of a SQLite table is one statement: its parts run in one    *)
(* transaction.  The clauses that defer constraints in cyclic schemas are  *)
(* left out.                                                               *)
(***************************************************************************)
EXTENDS SchemaDiff, SequencesExt

CONSTANTS Postgres, Sqlite,
          FieldOrder   \* the order of the fields in the text of a schema

ASSUME ProviderAssumption == Postgres # Sqlite

Ordered(S)    == SelectSeq(FieldOrder, LAMBDA f : f \in S)
Ascending(S)  == SetToSortSeq(S, <)

-----------------------------------------------------------------------------
(* Tables: create_table_body and full_create_table *)

\* column_spec: a default that the client makes up is none to the database.
Definition(f) == [type |-> f.type, optional |-> f.optional, default |-> f.default = Literal]

Columns(fields) ==
    [c \in {fields[f].column : f \in DOMAIN fields} |->
        Definition(fields[CHOOSE f \in DOMAIN fields : fields[f].column = c])]

\* render_index_targets: a field that is not there is taken for a column.
TargetColumn(fields, f) == IF f \in DOMAIN fields THEN fields[f].column ELSE f

Targets(fields, indexes) ==
    [i \in DOMAIN indexes |-> TargetColumn(fields, indexes[i].field)]

Keys(s, m) == {[column |-> r.column, target |-> r.target, action |-> r.action] :
                  r \in {q \in Relations(s) : q.owner = m}}

Body(fields, uniques, fks) ==
    [columns |-> Columns(fields), uniques |-> Targets(fields, uniques), fks |-> fks]

CreateTable(prv, next, m) ==
    [op |-> "CreateTable", model |-> m,
     body |-> Body(next[m].fields, next[m].uniques,
                   IF prv = Sqlite THEN Keys(next, m) ELSE {})]

-----------------------------------------------------------------------------
(* Columns: alter_column of Postgres and rebuild_table of SQLite *)

AddColumn(m, f)        == [op |-> "AddColumn", model |-> m, column |-> f.column,
                           definition |-> Definition(f)]
DropColumn(m, c)       == [op |-> "DropColumn", model |-> m, column |-> c]
RenameColumn(m, c, d)  == [op |-> "RenameColumn", model |-> m, column |-> c, to |-> d]
AlterColumn(m, f)      == [op |-> "AlterColumn", model |-> m, column |-> f.column,
                           definition |-> Definition(f)]
Backfill(m, f)         == [op |-> "Backfill", model |-> m, column |-> f.column]

\* Mutant: a changed column is made anew.
Alter_Anew(m, from, to) == <<DropColumn(m, from.column), AddColumn(m, to)>>

Alter(m, from, to) ==
    (IF from.column = to.column THEN <<>> ELSE <<RenameColumn(m, from.column, to.column)>>)
    \o (IF Definition(from) = Definition(to) THEN <<>> ELSE <<AlterColumn(m, to)>>)

\* The new table has the given fields, the uniques and the indexes of the
\* target (those whose field is there), and copies each column from the one
\* of the same name, to.column from from.column.
Rebuild(next, m, fields, from, to) ==
    LET Key(r) == [r EXCEPT !.column = IF @ = from.column THEN to.column ELSE @]
        there  == {i \in DOMAIN next[m].indexes : next[m].indexes[i].field \in DOMAIN fields}
        unique == {i \in DOMAIN next[m].uniques : next[m].uniques[i].field \in DOMAIN fields}
    IN  [op |-> "Rebuild", model |-> m,
         body |-> Body(fields, next[m].uniques, {Key(r) : r \in Keys(next, m)}),
         copy |-> [c \in DOMAIN Columns(fields) |-> IF c = to.column THEN from.column ELSE c],
         indexes |-> [i \in there |-> TargetColumn(fields, next[m].indexes[i].field)],
         unique  |-> [i \in unique |-> TargetColumn(fields, next[m].uniques[i].field)]]

\* full_alter_column_with_source
Change(prv, next, m, fields, from, to) ==
    IF prv = Sqlite THEN <<Rebuild(next, m, fields, from, to)>> ELSE Alter(m, from, to)

\* columns_to_add.  A required column without a default is added as nullable,
\* filled by the statement the user writes, and made required; the source of
\* that rebuild has the fields of prev and those added so far.
Required(f) == ~f.optional /\ f.default = None

SoFar(p, n, f) ==
    LET added == AddedColumns(p, n)
        place == [g \in added |-> CHOOSE i \in DOMAIN FieldOrder : FieldOrder[i] = g]
        early == {g \in added : place[g] <= place[f]}
    IN  [g \in DOMAIN p.fields \cup early |-> IF g \in early THEN n.fields[g] ELSE p.fields[g]]

AddOne(prv, prev, next, m, f) ==
    LET to == next[m].fields[f]
        nullable == [to EXCEPT !.optional = TRUE]
    IN  IF ~Required(to) THEN <<AddColumn(m, to)>>
        ELSE <<AddColumn(m, nullable), Backfill(m, to)>>
             \o Change(prv, next, m, SoFar(prev[m], next[m], f), nullable, to)

\* columns_to_rename: hinted fields, then the kept ones that moved.
RenameOne(prv, prev, next, m, f) ==
    LET to   == next[m].fields[f]
        from == [to EXCEPT !.column = prev[m].fields[Origin(prev[m], next[m], f)].column]
    IN  Change(prv, next, m, next[m].fields, from, to)

\* columns_to_alter: a renamed field is compared under its new column, a
\* kept one as it was.
AlterOne(prv, prev, next, m, f) ==
    LET to == next[m].fields[f]
        old == prev[m].fields[Origin(prev[m], next[m], f)]
        from == IF f \in Renamed(prev[m], next[m]) THEN [old EXCEPT !.column = to.column] ELSE old
    IN  Change(prv, next, m, next[m].fields, from, to)

\* is_shadowed_drop: a renamed column takes the name of the dropped one.
Shadowed(p, n, c) ==
    \E f \in Renamed(p, n) \cup Moved(p, n) :
        /\ n.fields[f].column = c
        /\ p.fields[Origin(p, n, f)].column # c

DroppedNames(p, n, early) ==
    {f \in DroppedColumns(p, n) : Shadowed(p, n, p.fields[f].column) = early}

-----------------------------------------------------------------------------
(* models_to_create and models_to_drop *)

References(s, a, b) == \E r \in Relations(s) : r.owner = a /\ r.target = b

\* table_dependency_order says Less: not an order when references are chained.
DropBefore(s, a, b) ==
    CASE References(s, a, b) /\ ~References(s, b, a) -> TRUE
      [] References(s, b, a) /\ ~References(s, a, b) -> FALSE
      [] OTHER -> a < b

\* sort_by, an insertion sort on short slices: x moves left past what follows it.
Inserted(s, x, Before(_, _)) ==
    LET stay == {i \in DOMAIN s : ~Before(x, s[i])}
    IN  InsertAt(s, IF stay = {} THEN 1 ELSE Max(stay) + 1, x)

DropOrder(prev, S) ==
    LET Before(a, b) == DropBefore(prev, a, b)
    IN  FoldLeft(LAMBDA s, m : Inserted(s, m, Before), <<>>, Ascending(S))

\* model_dependency_order, the other way round
CreateOrder(next, S) ==
    LET Before(a, b) == \/ References(next, b, a) /\ ~References(next, a, b)
                        \/ References(next, b, a) = References(next, a, b) /\ a < b
    IN  FoldLeft(LAMBDA s, m : Inserted(s, m, Before), <<>>, Ascending(S))

-----------------------------------------------------------------------------
(* The phases of the plan, over the models and fields in their order *)

Each(s, Op(_)) == FlattenSeq([i \in DOMAIN s |-> Op(s[i])])
EachModel(prev, next, Op(_)) == Each(Ascending(Common(prev, next)), Op)

models_to_create(prv, prev, next) ==
    Each(CreateOrder(next, Created(prev, next)), LAMBDA m : <<CreateTable(prv, next, m)>>)

columns_to_add(prv, prev, next) == EachModel(prev, next, LAMBDA m :
    Each(Ordered(AddedColumns(prev[m], next[m])), LAMBDA f : AddOne(prv, prev, next, m, f)))

columns_to_drop(prev, next, early) == EachModel(prev, next, LAMBDA m :
    Each(Ordered(DroppedNames(prev[m], next[m], early)),
         LAMBDA f : <<DropColumn(m, prev[m].fields[f].column)>>))

columns_to_rename(prv, prev, next) == EachModel(prev, next, LAMBDA m :
    Each(Ordered(Renamed(prev[m], next[m])) \o Ordered(Moved(prev[m], next[m])),
         LAMBDA f : RenameOne(prv, prev, next, m, f)))

columns_to_alter(prv, prev, next) == EachModel(prev, next, LAMBDA m :
    LET altered == AlteredColumns(prev[m], next[m])
        hinted  == Renamed(prev[m], next[m])
    IN  Each(Ordered(altered \cap hinted) \o Ordered(altered \ hinted),
             LAMBDA f : AlterOne(prv, prev, next, m, f)))

ForeignKeys(op, S) == Each(SetToSeq(S), LAMBDA r :
    <<[op |-> op, model |-> r.owner,
       key |-> [column |-> r.column, target |-> r.target, action |-> r.action]]>>)

foreign_keys_to_drop(prv, prev, next) ==
    IF prv = Sqlite THEN <<>> ELSE ForeignKeys("DropForeignKey", DroppedRelations(prev, next))

foreign_keys_to_add(prv, prev, next) ==
    IF prv = Sqlite THEN <<>> ELSE ForeignKeys("AddForeignKey", AddedRelations(prev, next))

DropNamed(op, m, S) == Each(SetToSeq(S), LAMBDA i : <<[op |-> op, model |-> m, name |-> i]>>)

AddNamed(op, m, fields, indexes, S) == Each(SetToSeq(S), LAMBDA i :
    <<[op |-> op, model |-> m, name |-> i, column |-> TargetColumn(fields, indexes[i].field)]>>)

indexes_to_drop(prev, next) == EachModel(prev, next, LAMBDA m :
    DropNamed("DropIndex", m, Vanished(prev[m].indexes, next[m].indexes)))

uniques_to_drop(prev, next) == EachModel(prev, next, LAMBDA m :
    DropNamed("DropUnique", m, Vanished(prev[m].uniques, next[m].uniques)))

uniques_to_add(prev, next) == EachModel(prev, next, LAMBDA m :
    AddNamed("AddUnique", m, next[m].fields, next[m].uniques,
             Appeared(prev[m].uniques, next[m].uniques)))

indexes_to_create(prev, next) == EachModel(prev, next, LAMBDA m :
    AddNamed("CreateIndex", m, next[m].fields, next[m].indexes,
             Appeared(prev[m].indexes, next[m].indexes)))

models_to_drop(prev, next) ==
    Each(DropOrder(prev, Dropped(prev, next)), LAMBDA m : <<[op |-> "DropTable", model |-> m]>>)

\* Mutant: columns go before the indexes, constraints and keys on them.
Plan_ColumnsFirst(prv, prev, next) ==
    models_to_create(prv, prev, next)
    \o columns_to_add(prv, prev, next)
    \o columns_to_drop(prev, next, TRUE)
    \o columns_to_rename(prv, prev, next)
    \o columns_to_alter(prv, prev, next)
    \o columns_to_drop(prev, next, FALSE)
    \o foreign_keys_to_drop(prv, prev, next)
    \o indexes_to_drop(prev, next)
    \o uniques_to_drop(prev, next)
    \o uniques_to_add(prev, next)
    \o indexes_to_create(prev, next)
    \o foreign_keys_to_add(prv, prev, next)
    \o models_to_drop(prev, next)

\* Planner::plan
Plan(prv, prev, next) ==
    models_to_create(prv, prev, next)
    \o columns_to_add(prv, prev, next)
    \o columns_to_drop(prev, next, TRUE)
    \o columns_to_rename(prv, prev, next)
    \o columns_to_alter(prv, prev, next)
    \o foreign_keys_to_drop(prv, prev, next)
    \o indexes_to_drop(prev, next)
    \o uniques_to_drop(prev, next)
    \o uniques_to_add(prev, next)
    \o indexes_to_create(prev, next)
    \o foreign_keys_to_add(prv, prev, next)
    \o columns_to_drop(prev, next, FALSE)
    \o models_to_drop(prev, next)
=============================================================================

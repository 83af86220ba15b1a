------------------------------- MODULE DbPull -------------------------------
(***************************************************************************)
(* A database read back: db pull (crates/migrate/src/introspect.rs,        *)
(* crates/cli/src/introspect.rs) makes a schema of the catalog, which the  *)
(* parser of SchemaLowering reads and the dialect creates tables from;     *)
(* drift.rs and the comparison of Studio (studio/handlers/diff.rs) hold a  *)
(* catalog against a schema.                                               *)
(*                                                                         *)
(* A catalog is a set of tables                                            *)
(*   [name, columns, key, indexes, fks]                                    *)
(* with sequences of columns [name, type, notnull, default, increments,    *)
(* generated] and of foreign keys [columns, target, target_columns,        *)
(* on_delete], and a set of indexes [unique, columns], where Null   *)
(* stands for an expression.  Fields of a schema have a `default` here.    *)
(* A default is <<kind>> or <<kind, what>>; the catalog's are none, number,*)
(* word, quoted and call, a bare expression; "parens" is one in            *)
(* parentheses.                                                            *)
(***************************************************************************)
EXTENDS SchemaLowering

CONSTANTS FieldName,  \* the identifier field_name makes of a name in the database
          ModelName,  \* the one pascal_case and identifier make of it
          LowerFirst  \* a model's name with a small initial

NoDefault == <<"none">>
Names(columns) == [i \in DOMAIN columns |-> columns[i].name]
FieldNamesOf(columns) == [i \in DOMAIN columns |-> FieldName[columns[i]]]

-----------------------------------------------------------------------------
(* Creating the tables of a schema (crates/dialect/src).                    *)

SqliteTypes ==
  [type \in Scalars |-> CASE type \in {"Int", "BigInt", "Boolean"} -> "integer"
                          [] type = "Float" -> "real"
                          [] type = "Bytes" -> "blob"
                          [] OTHER -> "text"]
MysqlTypes ==
  [String |-> "varchar(255)", Decimal |-> "decimal(65,30)", DateTime |-> "datetime(6)", Date |-> "date",
   Time |-> "time", Uuid |-> "char(36)", Json |-> "json", Int |-> "int", BigInt |-> "bigint",
   Float |-> "double", Boolean |-> "tinyint(1)", Bytes |-> "blob"]

SqlType(provider, f) ==
  IF provider = "sqlite" THEN SqliteTypes[f.type]
  ELSE IF f.type = "String" /\ f.attrs \cap {"id", "unique"} # {} THEN "varchar(191)"
  ELSE MysqlTypes[f.type]

(* default_sql, literal_sql, bool_sql.                                      *)
DefaultSql(provider, d) ==
  CASE d[1] = "string" -> <<"quoted", d[2]>>
    [] d[1] \in {"int", "float"} -> <<"number", d[2]>>
    [] d[1] = "bool" -> <<"number", IF d[2] THEN 1 ELSE 0>>
    [] d[1] = "db" -> d[2]
    [] d[1] = "fn" /\ d[2] = "now" ->
         IF provider = "sqlite" THEN <<"parens", "datetime('now')">> ELSE <<"call", "now()">>
    [] d[1] = "fn" /\ d[2] = "uuid" /\ provider = "mysql" -> <<"parens", "uuid()">>
    [] OTHER -> NoDefault

Identity(f) == f.default = <<"fn", "autoincrement">>

(* The servers: what the catalog says of a default, and which columns they  *)
(* do not take.  SQLite does not tell AUTOINCREMENT, and any whole INTEGER  *)
(* key increments.                                                          *)
Reported(provider, d) ==
  IF d[1] = "parens" \/ (provider = "mysql" /\ d[1] = "quoted") THEN <<"call", d[2]>> ELSE d
Current == {"current_timestamp", "now()", "datetime('now')"}
Refuses(provider, f, key) ==
  LET d == DefaultSql(provider, f.default)
      type == SqlType(provider, f)
  IN  \/ Identity(f) /\ IF provider = "sqlite" THEN "id" \notin f.attrs ELSE key = << >> \/ key[1] # f.name
      \/ d[1] = "call" /\ ~(provider = "sqlite" /\ d[2] = "current_timestamp")
      \/ provider = "mysql" /\ type \in {"json", "blob"} /\ d[1] \in {"quoted", "number"}

(* column_spec and create_table_body: the key of a model is on its field,   *)
(* or a constraint of several.                                              *)
CreatedColumn(provider, f) ==
  [name |-> f.column, type |-> SqlType(provider, f), notnull |-> f.arity # "optional",
   default |-> Reported(provider, DefaultSql(provider, f.default)),
   increments |-> provider = "mysql" /\ Identity(f), generated |-> FALSE]
CreatedKey(m) ==
  IF Len(PrimaryKey(m)) > 1 THEN PrimaryKey(m)
  ELSE Names(SelectSeq(m.fields, LAMBDA f : "id" \in f.attrs))

ForeignKeys(m, resolved) ==
  SetToSeq({[columns |-> r.owner_cols, target |-> r.target_table, target_columns |-> r.target_cols,
             on_delete |-> r.on_delete] :
              r \in {resolved[at] : at \in {at \in DOMAIN resolved :
                       resolved[at].owner = m.name /\ resolved[at].kind # "ManyToMany"}}})

\* MySQL gives a foreign key an index unless there is one.
Begins(columns, index) == Len(columns) <= Len(index) /\ SubSeq(index, 1, Len(columns)) = columns
Supporting(provider, fks, indexed) ==
  {[unique |-> FALSE, columns |-> k.columns] :
     k \in {k \in Items(fks) : provider = "mysql" /\ ~\E index \in indexed : Begins(k.columns, index)}}

CreatedTable(provider, m, key, fks) ==
  LET Index(unique, names) == [unique |-> unique, columns |-> Columns(m, names)]
      inline == {f.name : f \in {f \in Items(m.fields) : "unique" \in f.attrs /\ "id" \notin f.attrs}}
      declared == {Index(TRUE, names) : names \in Items(m.uniques) \cup {<<n>> : n \in inline}}
                  \cup {Index(FALSE, names) : names \in Items(m.indexes)}
      columned == SelectSeq(m.fields, HasColumn)
  IN  [name |-> m.table, columns |-> [i \in DOMAIN columned |-> CreatedColumn(provider, columned[i])],
       key |-> Columns(m, key), fks |-> fks,
       indexes |-> declared \cup Supporting(provider, fks, {i.columns : i \in declared} \cup {Columns(m, key)})]

Created(provider, out) ==
  IF \E m \in Items(out.models) : \E f \in Items(m.fields) : HasColumn(f) /\ Refuses(provider, f, PrimaryKey(m))
  THEN Error
  ELSE {CreatedTable(provider, m, CreatedKey(m), ForeignKeys(m, out.resolved)) : m \in Items(out.models)}

-----------------------------------------------------------------------------
(* Reading the catalog (pull).                                              *)

\* Bug: a column of a key is taken to be nullable if nothing else is said.
FetchColumn_KeyNullable(provider, t, c) ==
  LET primary == c.name \in Items(t.key)
  IN  [name |-> c.name, type |-> c.type, default |-> c.default, primary |-> primary, nullable |-> ~c.notnull,
       auto |-> IF provider = "sqlite" THEN primary /\ c.type = "integer" ELSE c.increments]

FetchColumn(provider, t, c) ==
  LET primary == c.name \in Items(t.key)
  IN  [name |-> c.name, type |-> c.type, default |-> c.default, primary |-> primary,
       nullable |-> ~c.notnull /\ ~(provider = "sqlite" /\ primary),
       auto |-> IF provider = "sqlite" THEN primary /\ c.type = "integer" ELSE c.increments]

\* PRAGMA table_info does not list generated columns.
Listed(provider, t) == SelectSeq(t.columns, LAMBDA c : provider # "sqlite" \/ ~c.generated)
FetchColumns(provider, t) ==
  LET listed == Listed(provider, t) IN [i \in DOMAIN listed |-> FetchColumn(provider, t, listed[i])]

FetchPrimaryKey(provider, t) ==
  IF provider = "sqlite" THEN SelectSeq(Names(t.columns), LAMBDA n : n \in Items(t.key)) ELSE t.key

\* Bug: the index of the key is not left out.
FetchIndexes_WithKey(provider, t, key) ==
  {[unique |-> i.unique, columns |-> SelectSeq(i.columns, LAMBDA c : c # Null)] :
     i \in t.indexes \cup {[unique |-> TRUE, columns |-> t.key]}}

\* SQLite lists the index behind a key, unless the key is the rowid.
Listing(provider, t) ==
  t.indexes \cup
  IF provider = "sqlite" /\ \/ Len(t.key) > 1
                            \/ \E c \in Items(t.columns) : t.key = <<c.name>> /\ c.type # "integer"
  THEN {[unique |-> TRUE, columns |-> t.key]} ELSE {}
FetchIndexes(provider, t, key) ==
  {i \in {[unique |-> i.unique, columns |-> SelectSeq(i.columns, LAMBDA c : c # Null)] : i \in Listing(provider, t)} :
     i.columns # key}

FetchForeignKeys(provider, t) ==
  [i \in DOMAIN t.fks |-> IF provider = "sqlite" THEN t.fks[i] ELSE [t.fks[i] EXCEPT !.on_delete = ""]]

(* A name that is NULL where one is required ends the pull.                 *)
Unnamed(provider, t) ==
  \/ \E k \in Items(t.fks) : k.target_columns = << >>
  \/ provider = "mysql" /\ \E i \in t.indexes : Null \in Items(i.columns)

IntrospectTable(provider, t) ==
  LET key == FetchPrimaryKey(provider, t)
  IN  [name |-> t.name, columns |-> FetchColumns(provider, t), key |-> key,
       indexes |-> FetchIndexes(provider, t, key), fks |-> FetchForeignKeys(provider, t)]

TableNames(catalog) == SelectSeq(Alphabet, LAMBDA n : \E t \in catalog : t.name = n)
TableNamed(catalog, name) == CHOOSE t \in catalog : t.name = name

Introspect(provider, catalog) ==
  LET names == TableNames(catalog)
  IN  IF \E t \in catalog : Unnamed(provider, t) THEN Error
      ELSE [i \in DOMAIN names |-> IntrospectTable(provider, TableNamed(catalog, names[i]))]

-----------------------------------------------------------------------------
(* Making a schema of it (render_schema).                                   *)

HasPart(text, part) == \E i \in 1..(Len(text) + 1 - Len(part)) : SubSeq(text, i, i + Len(part) - 1) = part
HasAny(text, parts) == \E part \in parts : HasPart(text, part)

(* The first of these that fits.                                            *)
TypeRules(type) ==
  <<<<"Json", HasPart(type, "json")>>,
    <<"Boolean", HasPart(type, "bool") \/ type = "tinyint(1)">>,
    <<"BigInt", HasAny(type, {"bigint", "int8"})>>,
    <<"Int", HasAny(type, {"int", "serial"})>>,
    <<"Decimal", HasAny(type, {"decimal", "numeric", "money"})>>,
    <<"Float", HasAny(type, {"double", "float"}) \/ type = "real">>,
    <<"Date", type = "date">>,
    <<"Time", Len(type) >= 4 /\ SubSeq(type, 1, 4) = "time">>,
    <<"DateTime", HasAny(type, {"timestamp", "datetime"})>>,
    <<"Uuid", HasPart(type, "uuid") \/ type = "char(36)">>,
    <<"Bytes", HasAny(type, {"blob", "binary", "bytea"})>>,
    <<"String", TRUE>>>>
ScalarType(type) == TypeRules(type)[SelectInSeq(TypeRules(type), LAMBDA rule : rule[2])][1]

RenderDefault(column) ==
  LET d == column.default
  IN  IF column.auto THEN <<"fn", "autoincrement">>
      ELSE IF d[1] = "call" /\ d[2] \in Current THEN <<"fn", "now">>
      ELSE CASE d[1] = "none" -> NoDefault
             [] d[1] = "word" -> <<"bool", d[2]>>
             [] d[1] = "number" -> <<"int", d[2]>>
             [] d[1] = "quoted" -> <<"string", d[2]>>
             [] OTHER -> <<"db", d>>

RenderField(t, c) ==
  [name |-> FieldName[c.name], column |-> c.name, type |-> ScalarType(c.type),
   arity |-> IF c.nullable THEN "optional" ELSE "one",
   attrs |-> {"map"} \cup (IF c.primary /\ Len(t.key) = 1 THEN {"id"} ELSE {}),
   rel |-> NoRel, default |-> RenderDefault(c)]

(* unique_model_names: a table whose model's name is taken gets a number.   *)
Fresh(base, used) ==
  IF base \notin used THEN base
  ELSE base \o ToString(CHOOSE k \in 2..(Cardinality(used) + 2) :
                          base \o ToString(k) \notin used /\ \A j \in 2..(k - 1) : base \o ToString(j) \in used)
UniqueModelNames(tables) ==
  FoldLeft(LAMBDA names, t : names @@ (t.name :> Fresh(ModelName[t.name], {names[n] : n \in DOMAIN names})),
           [n \in {} |-> ""], tables)

(* Each foreign key of a known table is a field of its own and a list on    *)
(* the other side, for which names are looked that are not taken.           *)
Reference(t, i) == [from |-> t, key |-> t.fks[i], id |-> ToString(i - 1)]
AllReferences(tables, known) ==
  SelectSeq(FlattenSeq([j \in DOMAIN tables |->
              [i \in DOMAIN tables[j].fks |-> Reference(tables[j], i)]]),
            LAMBDA r : r.key.target \in known)

\* Bug: the other side of a relation is always called like the table.
InverseField_Plain(used, r) == FieldName[r.from.name]

OwnerField(used, models, r) ==
  LET name == LowerFirst[models[r.key.target]]
  IN  IF name \notin used[r.from.name] THEN name ELSE name \o "_by_" \o FieldName[r.key.columns[1]]
InverseField(used, r) ==
  LET name == FieldName[r.from.name]
  IN  IF name \notin used[r.key.target] THEN name ELSE name \o "_relation"

IsOptional(r) ==
  \E c \in Items(r.from.columns) : c.name \in Items(r.key.columns) /\ c.nullable

SpecOf(r, owner, inverse) ==
  [owner_table |-> r.from.name, target_table |-> r.key.target, name |-> r.from.name \o "_" \o r.id,
   owner_field |-> owner, inverse_field |-> inverse, columns |-> r.key.columns,
   target_columns |-> r.key.target_columns, optional |-> IsOptional(r), on_delete |-> r.key.on_delete]
AddInverse(used, specs, r, owner, inverse) ==
  [used |-> [used EXCEPT ![r.key.target] = @ \cup {inverse}], specs |-> Append(specs, SpecOf(r, owner, inverse))]
AddOwner(used, specs, r, owner) == AddInverse(used, specs, r, owner, InverseField(used, r))
AddSpec(models, acc, r) ==
  LET owner == OwnerField(acc.used, models, r)
  IN  AddOwner([acc.used EXCEPT ![r.from.name] = @ \cup {owner}], acc.specs, r, owner)
RelationSpecs(tables, models) ==
  FoldLeft(LAMBDA acc, r : AddSpec(models, acc, r),
           [used |-> [n \in DOMAIN models |-> {FieldName[c.name] : c \in
                        UNION {Items(t.columns) : t \in {t \in Items(tables) : t.name = n}}}],
            specs |-> << >>],
           AllReferences(tables, DOMAIN models)).specs

RelationField(name, type, arity, rel) ==
  [name |-> name, column |-> "", type |-> type, arity |-> arity, attrs |-> {"relation"}, rel |-> rel,
   default |-> NoDefault]
RenderOwner(models, spec) ==
  RelationField(spec.owner_field, models[spec.target_table], IF spec.optional THEN "optional" ELSE "one",
                [NoRel EXCEPT !.name = spec.name, !.fields = FieldNamesOf(spec.columns),
                              !.references = FieldNamesOf(spec.target_columns), !.on_delete = spec.on_delete])
RenderInverse(models, spec) ==
  RelationField(spec.inverse_field, models[spec.owner_table], "list", [NoRel EXCEPT !.name = spec.name])

RenderModel(t, models, specs) ==
  LET owned == SelectSeq(specs, LAMBDA s : s.owner_table = t.name)
      others == SelectSeq(specs, LAMBDA s : s.target_table = t.name)
      OfKind(unique) == SetToSeq({FieldNamesOf(i.columns) : i \in {i \in t.indexes : i.unique = unique /\ i.columns # << >>}})
  IN  [name |-> models[t.name], table |-> t.name,
       fields |-> [i \in DOMAIN t.columns |-> RenderField(t, t.columns[i])]
                  \o [i \in DOMAIN owned |-> RenderOwner(models, owned[i])]
                  \o [i \in DOMAIN others |-> RenderInverse(models, others[i])],
       key |-> IF Len(t.key) > 1 THEN FieldNamesOf(t.key) ELSE << >>,
       uniques |-> OfKind(TRUE), indexes |-> OfKind(FALSE)]

RenderModels(tables, models, specs) == [i \in DOMAIN tables |-> RenderModel(tables[i], models, specs)]
RenderSchemaOf(tables, models) == RenderModels(tables, models, RelationSpecs(tables, models))
RenderSchema(tables) == RenderSchemaOf(tables, UniqueModelNames(tables))

(* Which defaults a field takes (default_matches, rule V09).                *)
DefaultMatches(f) ==
  LET d == f.default
  IN  CASE d[1] \in {"none", "db"} -> TRUE
        [] d[1] = "fn" /\ d[2] = "now" -> f.type \in {"DateTime", "Date", "Time"}
        [] d[1] = "fn" /\ d[2] \in {"uuid", "uuid7"} -> f.type \in {"Uuid", "String"}
        [] d[1] = "fn" /\ d[2] = "autoincrement" -> f.type \in {"Int", "BigInt"}
        [] d[1] = "string" -> f.type \in {"String", "Uuid", "Json", "DateTime", "Date", "Time"}
        [] d[1] = "int" -> f.type \in {"Int", "BigInt", "Float", "Decimal"}
        [] d[1] = "float" -> f.type \in {"Float", "Decimal"}
        [] d[1] = "bool" -> f.type = "Boolean"
Problems(s, diags) ==
  diags \cup UNION {{Diag("DefaultTypeMismatch", m.name, f.name) :
                      f \in {f \in Items(m.fields) : HasColumn(f) /\ ~DefaultMatches(f)}} : m \in Items(s)}

-----------------------------------------------------------------------------
(* Holding a catalog against a schema: detect of drift.rs, and compare of   *)
(* Studio, which says of each change what it risks.  Where there are rows   *)
(* there is one in each table, and `nulls` says whether it is NULL where it *)
(* may be.                                                                  *)

Columned(m) == {f \in Items(m.fields) : HasColumn(f)}
NotNull(provider, t, c) == c.notnull \/ (provider = "sqlite" /\ c.name \in Items(t.key))
ListedNames(provider, t) == Items(Names(Listed(provider, t)))

DetectTable(provider, m, t) ==
  LET listed == ListedNames(provider, t)
      differs == {f \in Columned(m) : \E c \in Items(Listed(provider, t)) :
                    c.name = f.column /\ NotNull(provider, t, c) = (f.arity = "optional")}
  IN  {<<"column not in the snapshot", t.name, c>> : c \in listed \ {f.column : f \in Columned(m)}}
      \cup {<<"column is missing", t.name, f.column>> : f \in {f \in Columned(m) : f.column \notin listed}}
      \cup {<<"nullability", t.name, f.column>> : f \in differs}

Detect(provider, catalog, s) ==
  LET expected == {m.table : m \in Items(s)}
      there == {t.name : t \in catalog}
  IN  {<<"table not in the snapshot", n, "">> : n \in there \ expected}
      \cup {<<"table is missing", n, "">> : n \in expected \ there}
      \cup UNION {DetectTable(provider, m, TableNamed(catalog, m.table)) : m \in {m \in Items(s) : m.table \in there}}

Change(what, table, column, risk) == [what |-> what, table |-> table, column |-> column, risk |-> risk]

AddedColumns(m, t, rows) ==
  {Change("add", t.name, f.column,
          IF f.arity # "optional" /\ f.default = NoDefault /\ rows THEN "caution" ELSE "safe") :
     f \in {f \in Columned(m) : f.column \notin Items(Names(t.columns))}}
DroppedColumns(m, t, rows, nulls) ==
  {Change("drop", t.name, c.name, IF rows /\ ~(nulls /\ c.nullable) THEN "destructive" ELSE "caution") :
     c \in {c \in Items(t.columns) : ~\E f \in Columned(m) : f.column = c.name}}
Nullability(m, t, rows, nulls) ==
  LET Pairs == {<<f, c>> \in Columned(m) \X Items(t.columns) : f.column = c.name}
  IN  {Change("tighten", t.name, p[2].name, IF rows /\ nulls THEN "caution" ELSE "safe") :
         p \in {p \in Pairs : p[2].nullable /\ p[1].arity # "optional"}}
      \cup {Change("relax", t.name, p[2].name, "safe") :
               p \in {p \in Pairs : ~p[2].nullable /\ p[1].arity = "optional"}}
CompareTable(m, t, rows, nulls) ==
  AddedColumns(m, t, rows) \cup DroppedColumns(m, t, rows, nulls) \cup Nullability(m, t, rows, nulls)

Compare(tables, s, rows, nulls) ==
  {Change("create", m.table, "", "safe") : m \in {m \in Items(s) : ~\E t \in Items(tables) : t.name = m.table}}
  \cup {Change("unmanaged", t.name, "", "caution") :
           t \in {t \in Items(tables) : ~\E m \in Items(s) : m.table = t.name}}
  \cup UNION {UNION {CompareTable(m, t, rows, nulls) : t \in {t \in Items(tables) : t.name = m.table}} : m \in Items(s)}

-----------------------------------------------------------------------------
(* db pull, and a migration of what it wrote to an empty database; and what *)
(* is said of the database and the schema `expected`.                       *)

Again(provider, problems, out) == IF problems = {} THEN Created(provider, out) ELSE Error
PullAnswer(call, tables, pulled, out, drift) ==
  LET problems == Problems(pulled, out.diags)
  IN  [problems |-> problems, again |-> Again(call.provider, problems, out), drift |-> drift,
       changes |-> Compare(tables, call.expected, call.rows, call.nulls)]
PullTables(call, tables, drift) ==
  IF tables = Error THEN [problems |-> Error, again |-> Error, drift |-> drift, changes |-> Error]
  ELSE PullAnswer(call, tables, RenderSchema(tables), Lower(RenderSchema(tables)), drift)
PullCall(call) ==
  PullTables(call, Introspect(call.provider, call.catalog), Detect(call.provider, call.catalog, call.expected))

Pull == Called("pull") /\ Return(PullCall(argument))

-----------------------------------------------------------------------------
(* Properties.                                                              *)

(* What the catalog of one table cannot tell, or the schema cannot say.     *)
OwnTypes(provider) ==
  IF provider = "sqlite" THEN {SqliteTypes[type] : type \in Scalars} ELSE {MysqlTypes[type] : type \in Scalars}
ColumnIn(t, name) == CHOOSE c \in Items(t.columns) : c.name = name
InKeyOf(t, c) == t.key = <<c.name>>

LosesColumn(provider, t, c) ==
  \/ c.type \notin OwnTypes(provider) /\ ~(c.type = "varchar(191)" /\ InKeyOf(t, c))
  \/ provider = "mysql" /\ c.type = "varchar(255)" /\ InKeyOf(t, c)
  \/ c.generated
  \/ c.default[1] = "call"                                        \* written back without its parentheses
  \/ c.default[1] = "word"                                        \* true comes back as 1
  \/ provider = "mysql" /\ c.type = "tinyint(1)" /\ c.default[1] = "number"   \* 1 is no Boolean
  \/ provider = "sqlite" /\ c.type \in {"text", "blob"} /\ c.default[1] = "number"  \* nor a String
  \/ provider = "sqlite" /\ c.type # "text" /\ c.default[1] = "quoted"
  \/ provider = "sqlite" /\ c.name \in Items(t.key) /\ ~c.notnull
  \/ provider = "sqlite" /\ c.type = "integer" /\ InKeyOf(t, c) /\ c.default # NoDefault
LosesKey(provider, t) ==
  \/ t.key = << >>
  \/ /\ provider = "sqlite" /\ Len(t.key) > 1
     /\ \/ t.key # SelectSeq(Names(t.columns), LAMBDA n : n \in Items(t.key))
        \/ \E n \in Items(t.key) : ColumnIn(t, n).type = "integer"  \* each becomes autoincrement()
LosesIndex(provider, t) ==
  \E i \in t.indexes : i.columns = t.key \/ Null \in Items(i.columns)
LosesForeignKey(provider, catalog, t, k) ==
  LET nullable == {n \in Items(k.columns) : ~ColumnIn(t, n).notnull}
      target == TableNamed(catalog, k.target)
  IN  \/ k.target_columns = << >>
      \/ k.target \notin {u.name : u \in catalog}
      \/ nullable # {} /\ nullable # Items(k.columns)
      \/ provider = "mysql" /\ k.on_delete # (IF nullable # {} THEN "SetNull" ELSE "Restrict")
      \/ \E i \in DOMAIN k.columns :
            \/ ScalarType(ColumnIn(t, k.columns[i]).type) # ScalarType(ColumnIn(target, k.target_columns[i]).type)
            \/ /\ k.target_columns[i] \notin Items(target.key)      \* of a constraint over several columns
               /\ ~\E x \in target.indexes : x.unique /\ x.columns = <<k.target_columns[i]>>

(* Two lists that come from one table are told apart, three are not; nor    *)
(* two columns whose names differ only in what no identifier may have.      *)
CrowdsNames(catalog, t) ==
  \/ \E c, d \in Items(t.columns) : c # d /\ FieldName[c.name] = FieldName[d.name]
  \/ \E u \in catalog :
        LET from == {i \in DOMAIN u.fks : u.fks[i].target = t.name}
            taken == {c \in Items(t.columns) : FieldName[c.name] = FieldName[u.name]}
        IN  from # {} /\ Cardinality(from) + Cardinality(taken) + (IF u = t THEN 1 ELSE 0) > 2

Lossy(provider, catalog) ==
  \E t \in catalog :
    \/ \E c \in Items(t.columns) : LosesColumn(provider, t, c)
    \/ LosesKey(provider, t) \/ LosesIndex(provider, t) \/ CrowdsNames(catalog, t)
    \/ \E k \in Items(t.fks) : LosesForeignKey(provider, catalog, t, k)

TableSeen(t) == [t EXCEPT !.fks = Items(@)]
Shape(provider, t) == {<<c.name, NotNull(provider, t, c)>> : c \in Items(Listed(provider, t))}

(* What db pull writes is accepted by the parser, and creates the tables it *)
(* was read from: columns, defaults, keys, indexes and foreign keys; but    *)
(* where Lossy says.  Drift detection says nothing of a database exactly if *)
(* it has the tables, columns and nullability the schema would create, and  *)
(* Studio's comparison, which reads the catalog another way, nothing        *)
(* exactly if drift detection does (introspect.rs, diff.rs:88, drift.rs:12).*)
CatalogRead ==
  Returned("pull") =>
    LET catalog == argument.catalog
        provider == argument.provider
    IN  /\ ~Lossy(provider, catalog) =>
             /\ answer.problems = {}
             /\ answer.again # Error
             /\ {TableSeen(t) : t \in answer.again} = {TableSeen(t) : t \in catalog}
        /\ answer.changes # Error => (answer.drift = {}) = (answer.changes = {})
        /\ argument.creates # Error =>
             (answer.drift = {}) = ({<<t.name, Shape(provider, t)>> : t \in argument.creates}
                                    = {<<t.name, Shape(provider, t)>> : t \in catalog})
=============================================================================

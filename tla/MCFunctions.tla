---------------------------- MODULE MCFunctions ----------------------------
(***************************************************************************)
(* Small inputs for the functions without state.                           *)
(***************************************************************************)
EXTENDS DbPull, Hierarchy, SchemaAdvice, Values, JsonFilter, EdgeClient, Grouping

CONSTANTS Tokens, v1, v2

-----------------------------------------------------------------------------
(* Schemas over two models and a join model: any four of the usual ends of  *)
(* relations, and any two with one that has something wrong.                *)

MCAlphabet == <<"A", "B", "J", "p", "u">>

Scalar(name, type, arity, attrs) ==
  [name |-> name, column |-> name, type |-> type, arity |-> arity, attrs |-> attrs, rel |-> NoRel]
Columns4 == <<Scalar("id", "Int", "one", {"id"}), Scalar("ref", "Int", "one", {}),
              Scalar("opt", "Int", "optional", {}), Scalar("txt", "String", "one", {}),
              Scalar("code", "Int", "one", {"unique"})>>

Rel(name, type, arity, rel) ==
  [name |-> name, column |-> "", type |-> type, arity |-> arity, attrs |-> {}, rel |-> rel]
List(rel, name) == [rel EXCEPT !.name = name]
Via(rel, join) == [rel EXCEPT !.through = join]
By(fields, references) == [NoRel EXCEPT !.fields = fields, !.references = references]

\* <<model, field>>
UsualEnds == {
  <<"A", Rel("b", "B", "one", By(<<"ref">>, <<"id">>))>>,
  <<"A", Rel("maybe", "B", "optional", By(<<"opt">>, <<"code">>))>>,
  <<"A", Rel("named", "B", "one", List(By(<<"ref">>, << >>), "n"))>>,
  <<"A", Rel("bs", "B", "list", NoRel)>>,
  <<"A", Rel("nbs", "B", "list", List(NoRel, "n"))>>,
  <<"A", Rel("tbs", "B", "list", Via(NoRel, "J"))>>,
  <<"A", Rel("back", "B", "optional", NoRel)>>,
  <<"A", Rel("parent", "A", "optional", By(<<"opt">>, <<"id">>))>>,
  <<"A", Rel("children", "A", "list", NoRel)>>,
  <<"B", Rel("a", "A", "one", By(<<"code">>, <<"id">>))>>,
  <<"B", Rel("as", "A", "list", NoRel)>>,
  <<"B", Rel("nas", "A", "list", List(NoRel, "n"))>>,
  <<"B", Rel("tas", "A", "list", Via(NoRel, "J"))>>,
  <<"B", Rel("back", "A", "optional", NoRel)>>,
  <<"J", Rel("a", "A", "one", By(<<"ref">>, <<"id">>))>>,
  <<"J", Rel("b", "B", "one", By(<<"code">>, <<"id">>))>>,
  <<"J", Rel("b2", "B", "one", By(<<"ref">>, << >>))>>,
  <<"B", Rel("js", "J", "list", NoRel)>>}

OddEnds == {
  <<"A", Rel("late", "B", "optional", By(<<"ref">>, <<"id">>))>>,
  <<"A", Rel("mixed", "B", "one", By(<<"txt">>, <<"id">>))>>,
  <<"A", Rel("gone", "B", "one", By(<<"nothing">>, <<"id">>))>>,
  <<"A", Rel("plain", "B", "one", By(<<"ref">>, <<"ref">>))>>,
  <<"A", Rel("short", "B", "one", By(<<"ref", "code">>, <<"id">>))>>,
  <<"A", Rel("one", "B", "one", Via(NoRel, "J"))>>,
  <<"A", Rel("both", "B", "list", Via(By(<<"ref">>, <<"id">>), "J"))>>,
  <<"A", Rel("what", "Nobody", "one", NoRel)>>,
  <<"J", Rel("a2", "A", "one", List(By(<<"ref">>, <<"id">>), "n"))>>}

With(ends) ==
  LET Added(model) == SetToSeq({e[2] : e \in {d \in ends : d[1] = model}})
      Model(name) == [name |-> name, table |-> name, fields |-> Columns4 \o Added(name),
                      key |-> << >>, uniques |-> << >>, indexes |-> << >>]
  IN  <<Model("A"), Model("B"), Model("J")>>

\* What may be wrong, or unusual, with a model that has relations.
Variants(s) ==
  {[s EXCEPT ![2].fields[1].attrs = {}],
   [s EXCEPT ![2].key = <<"id">>],
   [s EXCEPT ![2].fields[1].attrs = {}, ![2].key = <<"code", "id">>],
   [s EXCEPT ![2].fields[1].attrs = {}, ![2].key = <<"nothing">>],
   [s EXCEPT ![2].uniques = <<<<"ref">>>>],
   [s EXCEPT ![2].indexes = <<<<"nothing">>>>],
   [s EXCEPT ![2].table = "A"],
   [s EXCEPT ![1].fields[2].column = "id"],
   [s EXCEPT ![1].fields[4].attrs = {"updatedAt"}],
   [s EXCEPT ![1].fields[4].attrs = {"uniqe"}]}

UpTo(n, S) == UNION {kSubset(k, S) : k \in 0..n}
MCSchemas ==
  {With(ends) : ends \in UpTo(4, UsualEnds)}
  \cup {With(ends \cup {e}) : ends \in UpTo(2, UsualEnds), e \in OddEnds}
  \cup UNION {Variants(With(ends)) : ends \in UpTo(2, {e \in UsualEnds : e[2].type # e[1]})}

-----------------------------------------------------------------------------
(* Tables of three rows (and a fourth below them), whose parents are any of *)
(* them, a row that is gone, or nobody.                                     *)

Tables(n) == [parent : [1..n -> 1..n \cup {9, Null}], deleted : SUBSET (1..n)]

(* No cycle: what a query without a limit needs to end; four rows are a     *)
(* chain that is longer than the cap.                                       *)
Downhill(t) == \A n \in DOMAIN t.parent : t.parent[n] \in {Null, 9} \cup (1..(n - 1))

HierarchyCalls ==
  {[table |-> t, query |-> q] : t \in Tables(3), q \in
     [start : {1}, direction : {"ancestors", "descendants"}, max_depth : {Null}, order : {"", "asc", "desc"},
      cycle_protection : {TRUE}, with_deleted : BOOLEAN]
     \cup [start : {1, 9}, direction : {"ancestors", "descendants"}, max_depth : {0, 1, 2}, order : {""},
           cycle_protection : BOOLEAN, with_deleted : {FALSE}]}
  \cup {[table |-> t, query |-> q] : t \in {x \in Tables(4) : Downhill(x) /\ x.deleted \subseteq {2, 3}}, q \in
          [start : {1, 4}, direction : {"ancestors", "descendants"}, max_depth : {Null}, order : {"", "desc"},
           cycle_protection : BOOLEAN, with_deleted : {FALSE}]}

Moves(t) == {t} \cup {[t EXCEPT !.deleted = @ \cup {n}] : n \in {1, 2}}
            \cup {[t EXCEPT !.parent[1] = n] : n \in {2, Null}}
TreeCalls ==
  UNION {{[root |-> 1, before |-> t, after |-> u] : u \in Moves(t)} :
           t \in {x \in Tables(4) : x.deleted \subseteq {1, 2} /\ 9 \notin {x.parent[n] : n \in 1..4}}}

-----------------------------------------------------------------------------
(* Migrations of up to three pieces, and of five of the odder ones.         *)

Piece(is, text) == [is |-> is, text |-> text]
Quoted(inner) == Piece("text", <<"'">> \o inner \o <<"'">>)
Dollar(tag, inner) == Piece("text", tag \o inner \o tag)
Note(inner) == Piece("comment", <<"-", "-">> \o inner \o <<"nl">>)
Block(inner) == Piece("comment", <<"/", "*">> \o inner \o <<"*", "/">>)
Semicolon == Piece("end", <<";">>)

MCPieces ==
  {Semicolon}
  \cup {Piece("text", t) : t \in {<<"a">>, <<" ">>, <<"nl">>, <<"$", "1">>, <<"-", " ">>, <<"*", " ">>}}
  \cup {Quoted(t) : t \in {<< >>, <<";">>, <<"-", "-">>, <<"a", "'", "'", ";">>, <<"/", "*">>, <<"$", "$">>}}
  \cup {Dollar(<<"$", "$">>, t) : t \in {<<";">>, <<"'">>, <<"-", "-">>, <<"$", "1">>}}
  \cup {Dollar(<<"$", "a", "1", "$">>, t) : t \in {<<";">>, <<"$", "$", ";", "'">>}}
  \cup {Note(t) : t \in {<< >>, <<";", "'">>, <<"$", "$">>, <<"/", "*">>}}
  \cup {Block(t) : t \in {<< >>, <<";", "'">>, <<"-", "-">>, <<"*", "$", "$", "nl">>}}
OddPieces == {Semicolon, Quoted(<<"a", "'", "'", ";">>), Dollar(<<"$", "a", "1", "$">>, <<"$", "$", ";", "'">>),
              Note(<<";", "'">>), Piece("text", <<"$", "1">>)}

Migrations == SeqOf(MCPieces, 3) \cup [1..5 -> OddPieces]

-----------------------------------------------------------------------------
(* Every type of field, with every writer and reader its database has; lists *)
(* of up to two elements, where there is a reader for them.                 *)

Types == {"Boolean", "Int", "BigInt", "Float", "String", "Enum", "Json", "Bytes"} \cup Rich
Fields ==
  [type : Types, list : {FALSE}, optional : BOOLEAN, default : {FALSE}]
  \cup [type : {"DateTime", "Int"}, list : {FALSE}, optional : BOOLEAN, default : {TRUE}]
  \cup [type : Types, list : {TRUE}, optional : {FALSE}, default : {FALSE}]
DataOf(f) ==
  LET tokens == Tokens \cup (IF f.type = "Float" THEN {NaN} ELSE {})
  IN  IF f.list THEN SeqOf(tokens, 2) ELSE tokens \cup (IF f.optional \/ f.default THEN {Null} ELSE {})
\* There is no FromValue of an enum, and no generated reader of a list.
Readers(db, f) ==
  (Drivers[db] \cup IF db = "sqlite" THEN {"owned"} ELSE {})
    \ ((IF f.list THEN {"rusqlite"} ELSE {}) \cup (IF f.type = "Enum" THEN {"owned"} ELSE {}))
ValueCalls ==
  UNION {[db : {db}, writer : Drivers[db], reader : Readers(db, f),
          by : {"create", "create_many"}, field : {f}, data : DataOf(f)] : db \in DOMAIN Drivers, f \in Fields}

-----------------------------------------------------------------------------
(* Documents of up to three levels, every filter on them, and arrays of up  *)
(* to two elements of every kind of type.                                   *)

Num(n) == <<"num", n>>
Str(s) == <<"str", s>>
Arr(s) == <<"arr", s>>
Obj(f) == <<"obj", f>>
JScalars == {<<"null">>, <<"bool", TRUE>>, Num(1), Num(2), Str("s"), Str("k"), Str("true")}
Composites == {Arr(<< >>), Arr(<<Num(1)>>), Arr(<<Arr(<<Num(1)>>)>>), Obj([x \in {} |-> x])}
Under(k) == {Obj(k :> d) : d \in JScalars \cup Composites}
Docs == JScalars \cup Composites \cup Under("k")
        \cup {Obj("k" :> d) : d \in {Obj("k" :> Num(1)), Arr(<<Num(2), Str("s")>>)}}
        \cup {Obj([k |-> d, l |-> Num(2)]) : d \in {Num(1), Num(2)}}
        \cup {Arr(<<Obj("k" :> d)>>) : d \in {Num(1), Str("s")}} \cup {Arr(<<Str("k")>>)}
Key == <<"key", "k">>
Index(i) == <<"index", i>>
Paths == {<<Key>>, <<Key, Key>>, <<Index(0)>>, <<Index(1)>>, <<Index(0), Key>>, <<Key, Index(0)>>}
JsonCall(db, column, op, path, text, value) ==
  [db |-> db, column |-> column, op |-> op, path |-> path, text |-> text, value |-> value]
JColumns == Docs \cup {Null}
Databases == {"sqlite", "postgres", "mysql"}
JsonCalls ==
  {JsonCall(db, d, op, p, FALSE, v) :
     db \in Databases, d \in JColumns, op \in {"=", "!="}, p \in Paths,
     v \in JScalars \cup Composites \cup {Obj("k" :> Num(1))}}
  \cup {JsonCall(db, d, op, p, FALSE, Num(1)) : db \in Databases, d \in JColumns, op \in {"<", ">"}, p \in Paths}
  \cup {JsonCall(db, d, op, p, TRUE, v) :
     db \in Databases, d \in JColumns, op \in {"=", "!="}, p \in {<<Key>>, <<Key, Key>>, <<Index(0), Key>>},
     v \in {Str(s) : s \in {"s", "1", "true", "null"}}}
  \cup {JsonCall(db, d, "contains", << >>, FALSE, v) : db \in Databases, d \in JColumns, v \in Docs}
  \cup {JsonCall(db, d, "has_key", << >>, FALSE, Str(k)) : db \in Databases, d \in JColumns, k \in {"k", "l"}}
  \cup {JsonCall(db, d, "set", <<Key>>, FALSE, v) : db \in Databases, d \in JColumns, v \in JScalars \cup Composites}
ElementsOf == [String |-> {Str("s"), Str("k")}, Int |-> {Num(1), Num(2)}, Boolean |-> {<<"bool", b>> : b \in BOOLEAN},
               Json |-> {<<"null">>, Num(1), Str("s"), Arr(<<Num(1)>>), Obj("k" :> Num(1))}]
ArrayFilter(of, ops, columns, values) ==
  [db : Databases, of : {of}, op : ops, column : columns, values : values]
ArrayCalls ==
  UNION {LET elements == ElementsOf[of]
             columns == SeqOf(elements, 2) \cup {Null}
         IN  ArrayFilter(of, {"contains", "contained_by", "overlaps"}, columns, SeqOf(elements, 2))
             \cup ArrayFilter(of, {"has"}, columns, [{1} -> elements])
             \cup ArrayFilter(of, {"is_empty", "is_not_empty"}, columns, {<< >>})
           : of \in DOMAIN ElementsOf}

-----------------------------------------------------------------------------
(* Databases made from schemas of one or two models: every type of column   *)
(* with every default, every shape of key, and foreign keys of every kind;  *)
(* and the same with one thing in them that no schema would have made.      *)

MCFieldName == [n \in {"id", "x", "a", "b", "r", "s", "u", "p", "x_y"} |-> n] @@ ("x y" :> "x_y")
MCModelName == "u" :> "U" @@ "p" :> "P"
MCLowerFirst == "U" :> "u" @@ "P" :> "p"

Declared(name, type, arity, attrs, default) ==
  [name |-> name, column |-> name, type |-> type, arity |-> arity, attrs |-> attrs, rel |-> NoRel, default |-> default]
Plain(name, type) == Declared(name, type, "one", {}, NoDefault)
Id(type) == Declared("id", type, "one", {"id"}, NoDefault)
Related(name, type, arity, rel) ==
  [name |-> name, column |-> "", type |-> type, arity |-> arity, attrs |-> {}, rel |-> rel, default |-> NoDefault]
ModelU(fields, key, uniques, indexes) ==
  [name |-> "User", table |-> "u", fields |-> fields, key |-> key, uniques |-> uniques, indexes |-> indexes]

DefaultsOf(type) ==
  {NoDefault} \cup
  CASE type \in {"Int", "BigInt"} -> {<<"int", 1>>, <<"fn", "autoincrement">>}
    [] type \in {"Float", "Decimal"} -> {<<"int", 1>>}
    [] type = "Boolean" -> {<<"bool", TRUE>>}
    [] type \in {"DateTime", "Date", "Time"} -> {<<"fn", "now">>}
    [] type \in {"String", "Uuid", "Json"} -> {<<"string", "s">>, <<"fn", "uuid">>, <<"db", <<"parens", "e">>>>}
    [] OTHER -> {}
Optionality == {"one", "optional"}
ColumnSchemas ==
  {<<ModelU(<<Id(type), Plain("b", "Int")>>, << >>, << >>, <<<<"b">>>>)>> : type \in Scalars}
  \cup UNION {{<<ModelU(<<Id("Int"), Declared("x", type, arity, attrs, d)>>, << >>, << >>, << >>)>> :
                 arity \in Optionality, attrs \in {{}, {"unique"}}, d \in DefaultsOf(type)} : type \in Scalars}
KeySchemas ==
  {<<ModelU(<<Plain("a", types[1]), Plain("b", types[2])>>, key, uniques, indexes)>> :
     types \in {"Int", "String"} \X {"Uuid", "String"}, key \in {<<"a">>, <<"a", "b">>, <<"b", "a">>},
     uniques \in {<< >>, <<<<"a">>>>, <<<<"b", "a">>>>}, indexes \in {<< >>, <<<<"b">>>>}}

\* <<fields of p, fields of u>>
LinkBy(name, arity, field, ref, action) ==
  [NoRel EXCEPT !.name = name, !.fields = <<field>>, !.references = <<ref>>, !.on_delete = action]
Links == {
  <<<<Related("u", "User", "one", LinkBy("1", "one", "r", "id", "Cascade"))>>,
    <<Related("p1", "Post", "list", [NoRel EXCEPT !.name = "1"])>>>>,
  <<<<Related("v", "User", "one", LinkBy("2", "one", "r", "x", ""))>>,
    <<Related("p2", "Post", "optional", [NoRel EXCEPT !.name = "2"])>>>>,
  <<<<Related("w", "User", "optional", LinkBy("3", "optional", "s", "id", ""))>>,
    <<Related("p3", "Post", "list", [NoRel EXCEPT !.name = "3"])>>>>,
  <<<<Related("up", "Post", "optional", LinkBy("4", "optional", "s", "id", "")),
      Related("down", "Post", "list", [NoRel EXCEPT !.name = "4"])>>, << >>>>}
LinkSchema(links, names) ==
  LET all == SetToSeq(links)
      Side(i) == FlattenSeq([j \in DOMAIN all |-> all[j][i]])
  IN  <<[name |-> "Post", table |-> "p", key |-> << >>, uniques |-> << >>, indexes |-> << >>,
         fields |-> <<Id("Int"), Plain("r", "Int"), Declared("s", "Int", "optional", {}, NoDefault)>> \o Side(1)],
        ModelU(<<Id("Int"), Declared("x", "Int", "one", {"unique"}, NoDefault)>> \o names \o Side(2), << >>, << >>, << >>)>>
LinkSchemas == {LinkSchema(links, names) : links \in SUBSET Links, names \in {<< >>, <<Plain("p", "String")>>}}

Made(provider, s, out) == IF Problems(s, out.diags) = {} THEN Created(provider, out) ELSE Error
Makes(provider, s) == Made(provider, s, Lower(s))

Used(t) == Items(t.key) \cup UNION {Items(i.columns) : i \in t.indexes} \cup UNION {Items(k.columns) : k \in Items(t.fks)}
Oddly(t) ==
  LET last == Len(t.columns)
      c == t.columns[last]
      Odd(d) == [t EXCEPT !.columns[last] = d]
  IN  {Odd([c EXCEPT !.type = type]) : type \in {"timestamp", "point", "bool", "real"}}
      \cup {Odd([c EXCEPT !.default = d]) : d \in {<<"call", "current_timestamp">>, <<"word", TRUE>>}}
      \cup {Odd([c EXCEPT !.generated = TRUE]), [t EXCEPT !.key = << >>]}
      \cup (IF c.name \in Used(t) THEN {} ELSE {Odd([c EXCEPT !.name = "x y"])})
      \cup {[t EXCEPT !.columns = Append(@, [c EXCEPT !.name = name])] : name \in {"x y", "x_y"}}
      \cup {[t EXCEPT !.columns = @ \o <<[c EXCEPT !.name = "x y"], [c EXCEPT !.name = "x_y"]>>]}
      \cup {[t EXCEPT !.indexes = @ \cup {[unique |-> u, columns |-> <<Null>>]}] : u \in BOOLEAN}
\* What SQLite takes and MySQL does not.
OddlyInSqlite(t) ==
  {[t EXCEPT !.columns[1].notnull = FALSE]}
  \cup {[t EXCEPT !.fks = [i \in DOMAIN @ |-> [@[i] EXCEPT !.target_columns = << >>]]]}
  \cup {[t EXCEPT !.fks = [i \in DOMAIN @ |-> [@[i] EXCEPT !.target = "gone"]]]}
OddlyIn(provider, t) == Oddly(t) \cup IF provider = "sqlite" THEN OddlyInSqlite(t) ELSE {}
PullCase(provider, catalog, expected, creates, rows, nulls) ==
  [provider |-> provider, catalog |-> catalog, expected |-> expected, creates |-> creates, rows |-> rows, nulls |-> nulls]
PullCases(provider, s, catalog) ==
  IF catalog = Error THEN {}
  ELSE {PullCase(provider, catalog, s, catalog, rows, FALSE) : rows \in BOOLEAN}
       \cup UNION {{PullCase(provider, (catalog \ {t}) \cup {u}, s, catalog, TRUE, TRUE) : u \in OddlyIn(provider, t)} : t \in catalog}
       \cup {PullCase(provider, catalog \ {t}, s, catalog, TRUE, FALSE) : t \in catalog}
PullCalls ==
  UNION {PullCases(provider, s, Makes(provider, s)) :
           provider \in {"sqlite", "mysql"}, s \in ColumnSchemas \cup KeySchemas \cup LinkSchemas}

-----------------------------------------------------------------------------
(* Every kind of value as a parameter, alone or with another, beside a      *)
(* column the database fills in, with every end a request can come to.      *)

MCPositional == <<"column_0", "column_1", "column_2">>
EdgeValues ==
  {Val("Null", Null), Val("Bytes", v1), Val("Array", v1), Val("I32", v1), Val("Bool", v1)}
  \cup {Val(kind, v1) : kind \in Texts} \cup {Val("I64", n) : n \in {v1, Big}}
  \cup {Val("F64", f) : f \in {v1, Whole, NotFinite}}
StoredCells ==
  {Wire("null", Null), Wire("text", v2), Wire("blob", v2), Wire("real", Whole), Wire("integer", Big)}
Servers(adapter) ==
  {"ok", "refused", "unreachable", "status", "lost", "gateway", "garbled", "empty"}
  \cup IF adapter = "turso" THEN {"skipped", "other", "short", "corrupt"} ELSE {}
Turso(scheme, host) == [url |-> [scheme |-> scheme, host |-> host]]
D1(account, database, token) == [account |-> account, database |-> database, token |-> token]
Settings(adapter) ==
  IF adapter = "turso" THEN {[url |-> Null]} \cup {Turso(scheme, host) : scheme \in {"libsql", "ws", "postgres"}, host \in BOOLEAN}
  ELSE {D1(account, database, token) : account, database, token \in BOOLEAN}
Settled(adapter) == IF adapter = "turso" THEN Turso("libsql", TRUE) ELSE D1(TRUE, TRUE, TRUE)
EdgeCase(adapter, settings, by, names, params, stored, server) ==
  [adapter |-> adapter, settings |-> settings, by |-> by, names |-> names, params |-> params, stored |-> stored, server |-> server]
EdgeNames(adapter) == {"a", "column_1"} \cup IF adapter = "turso" THEN {NoName} ELSE {}
EdgeCalls ==
  UNION {{EdgeCase(adapter, settings, by, <<"a">>, <<Val("Str", v1)>>, << >>, server) :
            settings \in Settings(adapter), by \in {"fetch", "execute", "stream"}, server \in {"ok", "refused", "lost"}}
         \cup {EdgeCase(adapter, Settled(adapter), "fetch", <<"a", "b">>, <<v>>, <<Wire("text", v2)>>, server) :
                  v \in EdgeValues, server \in Servers(adapter)}
         \cup {EdgeCase(adapter, Settled(adapter), "fetch", names, <<v>>, <<c>>, "ok") :
                  names \in [1..2 -> EdgeNames(adapter)], v \in EdgeValues, c \in StoredCells}
         \cup {EdgeCase(adapter, Settled(adapter), "fetch", names, <<Val("Null", Null), Val("Str", v1)>>, <<Wire("text", v2)>>, "ok") :
                  names \in [1..3 -> EdgeNames(adapter)]}
         : adapter \in {"turso", "d1"}}

-----------------------------------------------------------------------------
(* Every aggregate of every small table, alone; and several together, with  *)
(* every filter, order and window.                                          *)

SqlDrivers == {<<"sqlite", "sqlx">>, <<"sqlite", "rusqlite">>, <<"postgres", "sqlx">>, <<"postgres", "tokio">>, <<"mysql", "sqlx">>}
RowG(g, x, deleted_at) == [g |-> g, x |-> x, deleted_at |-> deleted_at]
Called1(how, filter) == [how |-> how, filter |-> filter]
Is(column, value) == [kind |-> "is", column |-> column, value |-> value]
PlainCall == [before |-> << >>, filters |-> << >>, havings |-> << >>, order |-> Null, limit |-> Null, offset |-> Null,
              fetch |-> "all", into |-> "tuple", camel |-> FALSE]
AggregateOf(driver, type, rows, set, group) ==
  [dialect |-> driver[1], driver |-> driver[2], type |-> type, rows |-> rows, set |-> set, group |-> group]
Deleted == RowG("a", 2, TRUE)
SmallTables == SeqOf({RowG(g, x, Null) : g \in {"a", "b"}, x \in {Null, 1, I64Max}}, 2)
               \cup {<<RowG("a", 1, Null), Deleted, RowG(Null, x, Null), RowG("a", 1, Null)>> : x \in {Null, 3}}
ThreeGroups == <<RowG("a", 1, Null), RowG("b", Null, Null), RowG(Null, 3, Null), RowG("a", 3, Null)>>
Sets == {<<Entry("count_distinct", "g"), Entry("avg", "x")>>, <<Entry("max", "x"), Entry("count", "x"), Entry("sum", "x")>>}
FilterCalls == {<< >>} \cup {<<Called1(how, f)>> : how \in {"and", "or"}, f \in {Is("x", 3), Is("g", "a")}}
                \cup {<<Called1("and", Is("g", "a")), Called1("or", Is("x", 3))>>}
HavingCalls == {<< >>, <<Called1("and", Is("g", "a"))>>,
                <<Called1("and", Is("g", "b")), Called1("or", [kind |-> "null", column |-> "g"])>>}
AggregateCalls ==
  {AggregateOf(driver, type, rows, <<e>>, group) @@ PlainCall :
     driver \in SqlDrivers, type \in {"Int", "BigInt", "Float"}, rows \in SmallTables, e \in ToSet(AllFields),
     group \in {<< >>, <<"g">>, <<"x", "g">>}}
  \cup {[before |-> before, filters |-> filters, havings |-> << >>, into |-> into, camel |-> FALSE]
         @@ AggregateOf(driver, "Int", <<Deleted>> \o ThreeGroups, set, << >>) @@ PlainCall :
         before \in FilterCalls, filters \in FilterCalls, into \in {"tuple", "struct"}, driver \in SqlDrivers, set \in Sets}
  \cup {[havings |-> havings, order |-> order, limit |-> window[1], offset |-> window[2], fetch |-> fetch]
         @@ AggregateOf(driver, "Int", ThreeGroups, set, <<"g">>) @@ PlainCall :
         havings \in HavingCalls, order \in {"asc", "desc"}, window \in {Null, 0, 1, 2} \X {Null, 1, 3},
         fetch \in {"all", "one", "optional"}, driver \in SqlDrivers, set \in Sets}
  \cup {[into |-> "struct", camel |-> camel] @@ AggregateOf(driver, type, rows, set, group) @@ PlainCall :
         camel \in BOOLEAN, driver \in SqlDrivers, type \in {"Int", "Float"}, rows \in {<< >>, ThreeGroups}, set \in Sets, group \in {<< >>, <<"g">>}}

-----------------------------------------------------------------------------
(* Statements over two tables and one that is not there, with parameters    *)
(* for fields of every kind; and names of up to three letters.              *)

MCTables == [users |-> {"id", "name"}, posts |-> {"id"}, logs |-> {"name"}]
NoParams == [hash |-> "same", fields |-> {}, params |-> {}]
Spoken == {<<"x">>, <<"x", "FROM", "ghosts">>, <<"x", "DELETE">>}
Spelled(lead, with, verb, table, within, join, ref, lock, said) ==
  [lead |-> lead, with |-> with, verb |-> verb, table |-> table, within |-> within, join |-> join, ref |-> ref,
   lock |-> lock, said |-> said]
PlainStatement == Spelled("none", "none", "SELECT", "users", FALSE, "", << >>, "none", <<"x">>)
Legal(s) == (s.verb = "CALL" => s.with = "none") /\ (s.lock # "none" => s.verb = "SELECT")
MCStatements ==
  {Spelled(lead, with, verb, "users", FALSE, "", << >>, lock, said) @@ NoParams :
     lead \in {"none", "comment", "two"}, with \in {"none", "read", "write"}, lock \in {"none", "update", "share", "mode"},
     verb \in {"SELECT", "NEXTVAL", "COPY", "INSERT", "UPDATE", "DELETE", "TABLE", "CALL"}, said \in Spoken}
  \cup {Spelled("none", with, verb, table, within, join, ref, "none", said) @@ NoParams :
     with \in {"none", "read"}, verb \in {"SELECT", "INSERT", "UPDATE", "DELETE"}, table \in {"users", "ghosts"},
     within \in BOOLEAN, join \in {"", "posts", "logs", "ghosts"}, said \in Spoken,
     ref \in {<< >>, <<"users", "id">>, <<"users", "age">>, <<"users", "*">>, <<"u", "age">>}}
  \cup {[hash |-> hash, fields |-> {[name |-> "f", column |-> "c", type |-> type, optional |-> optional, default |-> default]},
         params |-> {[name |-> name, type |-> "string", nullable |-> nullable], [name |-> "f", type |-> "int", nullable |-> FALSE]}]
         @@ PlainStatement :
     hash \in {"none", "same", "prefix", "other"}, type \in DOMAIN Accepts \cup {"Relation"}, optional \in BOOLEAN,
     default \in BOOLEAN, name \in {"f", "c", "g"}, nullable \in BOOLEAN}
StatementCalls == {[schema |-> MCTables, statement |-> s] : s \in {m \in MCStatements : Legal(m)}}

Names3 == SeqOf({"a", "A", "b"}, 3)
SuggestCalls ==
  {[candidate |-> c, options |-> {o, p}] : c \in {<<"a", "b", "a", "b", "A">>, <<"b", "a">>}, o \in Names3, p \in Names3}
  \cup {[candidate |-> c, options |-> {o}] : c \in Names3, o \in [1..5 -> {"a", "b"}]}

-----------------------------------------------------------------------------
(* Models that lose one or two fields and gain as many, near in name, type  *)
(* or capitals, with one that stays; and models that refer to each other in *)
(* every way, with what an edit changes of one of them.                     *)

Named(column, type, optional, default) ==
  [column |-> column, type |-> type, optional |-> optional, default |-> default, from |-> Null]
Stays == <<"b">> :> Named(<<"b">>, "Int", FALSE, Null)
OldNames == {<<"a", "b", "a">>, <<"A", "b", "A", "b">>, <<"b", "b">>}
NewNames == {<<"a", "b", "a", "b">>, <<"a", "b", "a", "a", "a", "a", "a">>, <<"B", "a">>}
OneOf(names, shapes) == {name :> Named(name, s[1], s[2], s[3]) : name \in names, s \in shapes}
OldShapes == {<<"Int", FALSE, Null>>, <<"list", FALSE, Null>>, <<"String", TRUE, "literal">>}
NewShapes == {<<"Int", FALSE, Null>>, <<"Int", TRUE, Null>>, <<"list", FALSE, Null>>, <<"String", FALSE, "literal">>}
Lost == LET one == OneOf(OldNames, OldShapes) IN one \cup {f @@ g : f \in one, g \in one}
Gained == LET one == OneOf(NewNames, NewShapes) IN one \cup {f @@ g : f \in one, g \in OneOf(NewNames, {<<"Int", FALSE, Null>>})}
RenameCalls ==
  {[prev |-> [fields |-> lost @@ Stays], next |-> [fields |-> gained @@ Stays], order |-> order] :
     lost \in Lost, gained \in Gained, order \in {SetToSeq(OldNames), Reverse(SetToSeq(OldNames))}}

Owning(x, y) ==
  LET to == [c \in {d \in {"x", "y"} : (d = "x" /\ x # "") \/ (d = "y" /\ y # "")} |-> IF c = "x" THEN x ELSE y]
  IN  [fields |-> [c \in DOMAIN to \cup {"n"} |-> Named(c, 1, FALSE, Null)],
       refs |-> [c \in DOMAIN to |-> [target |-> to[c], action |-> "none"]], indexes |-> << >>, uniques |-> << >>]
Referring(ax, ay, bx, cx) == [A |-> Owning(ax, ay), B |-> Owning(bx, ""), C |-> Owning(cx, "")]
Ends3 == {"", "A", "B", "C"}
Graphs3 == {Referring(ax, ay, bx, cx) : ax \in Ends3, ay \in {"", "C"}, bx \in Ends3, cx \in Ends3}
Only(s, models) ==
  [m \in models |-> LET kept == {c \in DOMAIN s[m].refs : s[m].refs[c].target \in models}
                    IN  [s[m] EXCEPT !.refs = [c \in kept |-> s[m].refs[c]]]]
Edits1(s) ==
  {s, Only(s, {}), Only(s, {"B", "C"}), [s EXCEPT !.A.fields["n"].type = 2], [s EXCEPT !.A = Owning("", "")]}
  \cup IF "x" \in DOMAIN s.A.refs
       THEN {[s EXCEPT !.A.fields["x"].type = 2], [s EXCEPT !.A.refs["x"].target = "B"], [s EXCEPT !.A.refs["x"].action = "Cascade"],
             [s EXCEPT !.A.fields = [c \in (DOMAIN @ \ {"x"}) \cup {"z"} |-> IF c = "z" THEN Named("z", 1, FALSE, "x") ELSE @[c]],
                       !.A.refs = [c \in (DOMAIN @ \ {"x"}) \cup {"z"} |-> IF c = "z" THEN @["x"] ELSE @[c]]]}
       ELSE {}
CycleCall(by, prev, next) ==
  [provider |-> by[1], down |-> by[2], prev |-> prev, next |-> next, columns |-> <<"x", "y", "z">>]
CycleCalls ==
  UNION {{CycleCall(by, e, s) : e \in Edits1(s), by \in {<<"sqlite", FALSE>>, <<"mysql", TRUE>>}}
         \cup {CycleCall(by, s, e) : e \in Edits1(s), by \in {<<"postgres", FALSE>>, <<"postgres", TRUE>>, <<"sqlite", TRUE>>}}
         : s \in Graphs3}

-----------------------------------------------------------------------------
MCInit ==
  /\ answer = Pending
  /\ \/ function = "prepare" /\ argument \in MCSchemas
     \/ function = "hierarchy" /\ argument \in HierarchyCalls
     \/ function = "tree" /\ argument \in TreeCalls
     \/ function = "split" /\ argument \in Migrations
     \/ function = "value" /\ argument \in ValueCalls
     \/ function = "json" /\ argument \in JsonCalls
     \/ function = "array" /\ argument \in ArrayCalls
     \/ function = "pull" /\ argument \in PullCalls
     \/ function = "edge" /\ argument \in EdgeCalls
     \/ function = "aggregate" /\ argument \in AggregateCalls
     \/ function = "statement" /\ argument \in StatementCalls
     \/ function = "suggest" /\ argument \in SuggestCalls
     \/ function = "rename" /\ argument \in RenameCalls
     \/ function = "cycles" /\ argument \in CycleCalls

Next == Prepare \/ Query \/ Tree \/ Split \/ Value \/ JsonOp \/ ArrayOp \/ Pull \/ Edge \/ Aggregate \/ ReadSql \/ Suggest
        \/ SuggestRename \/ PlanCycles

Spec == MCInit /\ [][Next]_callvars
=============================================================================

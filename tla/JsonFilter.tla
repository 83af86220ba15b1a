------------------------------ MODULE JsonFilter ------------------------------
(***************************************************************************)
(* Filters on JSON and on array columns, and the update of one key of a    *)
(* document, as each dialect writes them (crates/runtime/src/json.rs,      *)
(* col.rs:449-605, compile.rs:772-810, 999-1490), with what the three      *)
(* databases make of their own operators.                                  *)
(*                                                                         *)
(* A document is <<kind>> or <<kind, content>>: null, bool, num, str, arr  *)
(* with a sequence of documents, obj with a function from keys to them.    *)
(* In a column, and where a path leads nowhere, there may be Null instead. *)
(* A segment of a path is <<"key", k>> or <<"index", i>>.                  *)
(***************************************************************************)
EXTENDS Call, Integers, Sequences, SequencesExt, TLC

(* The text of a document, and its text where it is a string by itself.     *)
Unquoted(d) ==
  CASE d[1] = "null" -> "null"
    [] d[1] = "bool" -> IF d[2] THEN "true" ELSE "false"
    [] d[1] = "str" -> d[2]
    [] OTHER -> ToString(d[2])
Printed(d) == IF d[1] = "str" THEN "\"" \o d[2] \o "\"" ELSE Unquoted(d)

(* SQLite's scalar for a document: what json_extract, ->> and json_each     *)
(* return.                                                                  *)
Native(d) ==
  CASE d[1] = "null" -> Null
    [] d[1] = "bool" -> <<"integer", IF d[2] THEN 1 ELSE 0>>
    [] d[1] = "num" -> <<"integer", d[2]>>
    [] OTHER -> <<"text", Unquoted(d)>>

-----------------------------------------------------------------------------
(* Paths.  In MySQL the first element of what is no array is the thing      *)
(* itself.                                                                  *)

Step(db, d, seg) ==
  IF d = Null THEN Null
  ELSE IF seg[1] = "key" THEN IF d[1] = "obj" /\ seg[2] \in DOMAIN d[2] THEN d[2][seg[2]] ELSE Null
  ELSE IF d[1] = "arr" THEN IF seg[2] < Len(d[2]) THEN d[2][seg[2] + 1] ELSE Null
  ELSE IF db = "mysql" /\ seg[2] = 0 THEN d ELSE Null

\* Bug: an index is written as a key.
Extract_IndexAsKey(db, d, path) ==
  FoldLeft(LAMBDA at, seg : Step(db, at, IF seg[1] = "index" THEN <<"key", ToString(seg[2])>> ELSE seg), d, path)

Extract(db, d, path) == FoldLeft(LAMBDA at, seg : Step(db, at, seg), d, path)

(* push_json_expr: ->, #>, json_extract, JSON_EXTRACT; for a text ->>, #>>, *)
(* JSON_UNQUOTE.                                                            *)
PushJsonExpr(c) ==
  LET at == Extract(c.db, c.column, c.path)
  IN  IF at = Null \/ (c.db = "postgres" /\ c.text /\ at = <<"null">>) THEN Null
      ELSE IF c.db = "sqlite" THEN Native(at)
      ELSE IF c.text THEN <<"text", Unquoted(at)>>
      ELSE <<"json", at>>

-----------------------------------------------------------------------------
(* Comparisons.                                                             *)

\* Bug: on MySQL a string is sent as a document, in quotes.
JsonCmpValue_Quoted(c) ==
  IF c.text THEN <<"text", c.value[2]>>
  ELSE IF c.db = "sqlite" THEN Native(c.value)
  ELSE IF c.db = "postgres" \/ c.value[1] = "num" THEN <<"json", c.value>>
  ELSE <<"json", <<"str", Printed(c.value)>>>>

(* json_cmp_value: the value to compare with.  What MySQL is sent as text   *)
(* it takes for a string.                                                   *)
JsonCmpValue(c) ==
  IF c.text THEN <<"text", c.value[2]>>
  ELSE IF c.db = "sqlite" THEN Native(c.value)
  ELSE IF c.db = "postgres" \/ c.value[1] \in {"str", "num"} THEN <<"json", c.value>>
  ELSE <<"json", <<"str", Printed(c.value)>>>>

(* The order between kinds; the empty array of Postgres is before null.     *)
KindOrder ==
  [sqlite   |-> [integer |-> 1, text |-> 2],
   postgres |-> [null |-> 1, str |-> 2, num |-> 3, bool |-> 4, arr |-> 5, obj |-> 6],
   mysql    |-> [null |-> 1, num |-> 2, str |-> 3, obj |-> 4, arr |-> 5, bool |-> 6]]
Rank(db, x) ==
  IF db = "postgres" /\ x[2] = <<"arr", << >>>> THEN 0
  ELSE KindOrder[db][IF db = "sqlite" THEN x[1] ELSE x[2][1]]
Number(db, x) == IF db = "sqlite" THEN x[2] ELSE x[2][2]

(* y is a number.                                                           *)
Less(db, x, y) == Rank(db, x) < Rank(db, y) \/ (Rank(db, x) = Rank(db, y) /\ Number(db, x) < Number(db, y))
More(db, x, y) == x # y /\ ~Less(db, x, y)

CmpJson(c) ==
  LET x == PushJsonExpr(c)
      y == JsonCmpValue(c)
  IN  IF Null \in {x, y} THEN Null
      ELSE CASE c.op = "=" -> x = y
             [] c.op = "!=" -> x # y
             [] c.op = "<" -> Less(c.db, x, y)
             [] c.op = ">" -> More(c.db, x, y)

-----------------------------------------------------------------------------
(* Containment and keys.                                                    *)

(* @> and JSON_CONTAINS.  In Postgres a scalar is in an array only at the   *)
(* top, in MySQL anything is in an array that one of its elements contains. *)
RECURSIVE Holds(_, _, _, _)
Holds(db, top, d, e) ==
  CASE d[1] = "obj" /\ e[1] = "obj" -> \A k \in DOMAIN e[2] : k \in DOMAIN d[2] /\ Holds(db, FALSE, d[2][k], e[2][k])
    [] d[1] = "arr" /\ e[1] = "arr" -> \A j \in DOMAIN e[2] : \E i \in DOMAIN d[2] : Holds(db, FALSE, d[2][i], e[2][j])
    [] d[1] = "arr" /\ e[1] # "arr" ->
         IF db = "mysql" THEN \E i \in DOMAIN d[2] : Holds(db, FALSE, d[2][i], e)
         ELSE top /\ e[1] # "obj" /\ \E i \in DOMAIN d[2] : d[2][i] = e
    [] OTHER -> d = e

(* push_json_contains.  For SQLite only the keys are looked for.            *)
JsonContains(c) ==
  IF c.db = "sqlite"
  THEN IF c.value[1] = "obj" /\ DOMAIN c.value[2] # {}
       THEN \A k \in DOMAIN c.value[2] : Extract(c.db, c.column, <<<<"key", k>>>>) # Null
       ELSE c.column # Null
  ELSE IF c.column = Null THEN Null ELSE Holds(c.db, TRUE, c.column, c.value)

(* push_json_has_key; Postgres finds a key among strings, too.              *)
JsonHasKey(c) ==
  LET there == Extract(c.db, c.column, <<<<"key", c.value[2]>>>>) # Null
  IN  IF c.db = "sqlite" THEN there
      ELSE IF c.column = Null THEN Null
      ELSE IF c.db = "mysql" THEN there
      ELSE there \/ c.column = c.value \/ (c.column[1] = "arr" /\ c.value \in ToSet(c.column[2]))

(* SetExpr::JsonSet of one key: jsonb_set, json_set, JSON_SET.  The last    *)
(* two take what they are sent as text for a string.                        *)
JsonSet(c) ==
  LET With(d) == <<"obj", (c.path[1][2] :> d) @@ c.column[2]>>
  IN  IF c.column = Null THEN Null
      ELSE IF c.column[1] # "obj" THEN IF c.db = "postgres" THEN Error ELSE c.column
      ELSE With(IF c.db = "postgres" THEN c.value ELSE <<"str", Printed(c.value)>>)

JsonAnswer(c) ==
  CASE c.op \in {"=", "!=", "<", ">"} -> CmpJson(c)
    [] c.op = "contains" -> JsonContains(c)
    [] c.op = "has_key" -> JsonHasKey(c)
    [] c.op = "set" -> JsonSet(c)

-----------------------------------------------------------------------------
(* Array columns (push_array_op): native arrays in Postgres, elsewhere a    *)
(* JSON array.  c.of is the type of the elements, which are documents.      *)

(* A value as an element of JSON_ARRAY.                                     *)
Candidate(c, v) ==
  CASE c.of = "Boolean" -> <<"num", IF v[2] THEN 1 ELSE 0>>
    [] c.of = "Json" -> <<"str", Printed(v)>>
    [] OTHER -> v
PushJsonArray(c) == <<"arr", [i \in DOMAIN c.values |-> Candidate(c, c.values[i])]>>

MysqlArray(c) ==
  LET array == <<"arr", c.column>>
  IN  CASE c.op \in {"has", "contains"} -> Holds("mysql", TRUE, array, PushJsonArray(c))
        [] c.op = "contained_by" -> Holds("mysql", TRUE, PushJsonArray(c), array)
        [] c.op = "overlaps" -> ToSet(c.column) \cap ToSet(PushJsonArray(c)[2]) # {}
        [] c.op = "is_empty" -> c.column = << >>
        [] c.op = "is_not_empty" -> c.column # << >>

PostgresArray(c) ==
  LET column == ToSet(c.column)
      values == ToSet(c.values)
  IN  CASE c.op = "has" -> c.values[1] \in column
        [] c.op = "contains" -> values \subseteq column
        [] c.op = "contained_by" -> column \subseteq values
        [] c.op = "overlaps" -> column \cap values # {}
        [] c.op = "is_empty" -> c.column = << >>
        [] c.op = "is_not_empty" -> c.column # << >>

(* The rows of json_each; none of NULL.                                     *)
Each(c) == IF c.column = Null THEN {} ELSE {Native(c.column[i]) : i \in DOMAIN c.column} \ {Null}
Bound(c) == {IF c.of = "Json" THEN <<"text", Printed(v)>> ELSE Native(v) : v \in ToSet(c.values)}
Length(c) == IF c.column = Null THEN Null ELSE Len(c.column)

\* Bug: a list without values is no special case of contained_by.
SqliteArray_NoEmpty(c) ==
  CASE c.op \in {"has", "overlaps"} -> Each(c) \cap Bound(c) # {}
    [] c.op = "contains" -> Bound(c) \subseteq Each(c)
    [] c.op = "contained_by" -> c.values = << >> \/ Each(c) \subseteq Bound(c)
    [] c.op = "is_empty" -> Length(c) \in {Null, 0}
    [] c.op = "is_not_empty" -> IF Length(c) = Null THEN Null ELSE Length(c) > 0

SqliteArray(c) ==
  CASE c.op \in {"has", "overlaps"} -> Each(c) \cap Bound(c) # {}
    [] c.op = "contains" -> Bound(c) \subseteq Each(c)
    [] c.op = "contained_by" ->
         IF c.values = << >> THEN IF Length(c) = Null THEN Null ELSE Length(c) = 0 ELSE Each(c) \subseteq Bound(c)
    [] c.op = "is_empty" -> Length(c) \in {Null, 0}
    [] c.op = "is_not_empty" -> IF Length(c) = Null THEN Null ELSE Length(c) > 0

(* An empty array is sent to Postgres as one of texts.                      *)
BadArray(c) ==
  c.db = "postgres" /\ c.op \in {"contains", "contained_by", "overlaps"} /\ c.values = << >> /\ c.of # "String"

PushArrayOp(c) ==
  IF c.db = "sqlite" THEN SqliteArray(c)
  ELSE IF BadArray(c) THEN Error
  ELSE IF c.column = Null THEN IF c.op = "is_empty" THEN TRUE ELSE Null
  ELSE IF c.db = "mysql" THEN MysqlArray(c)
  ELSE PostgresArray(c)

JsonOp == Called("json") /\ Return(JsonAnswer(argument))
ArrayOp == Called("array") /\ Return(PushArrayOp(argument))

-----------------------------------------------------------------------------
(* Properties.                                                              *)

(* What the calls mean: the same on every database.                         *)
Children(d) == IF d[1] = "obj" THEN d[2] ELSE [i \in 0..(Len(d[2]) - 1) |-> d[2][i + 1]]
There(c) ==
  FoldLeft(LAMBDA d, seg :
             IF d # Null /\ d[1] = (IF seg[1] = "key" THEN "obj" ELSE "arr") /\ seg[2] \in DOMAIN Children(d)
             THEN Children(d)[seg[2]] ELSE Null, c.column, c.path)
JsonMeans(c) ==
  LET at == There(c)
  IN  CASE c.op = "set" -> IF c.column = Null THEN Null ELSE <<"obj", (c.path[1][2] :> c.value) @@ c.column[2]>>
        [] c.op = "contains" -> IF c.column = Null THEN Null ELSE Holds("postgres", TRUE, c.column, c.value)
        [] c.op = "has_key" -> IF c.column = Null THEN Null ELSE c.column[1] = "obj" /\ c.value[2] \in DOMAIN c.column[2]
        [] c.op \in {"=", "!="} /\ c.text ->
             IF at \in {Null, <<"null">>} THEN Null ELSE (Unquoted(at) = c.value[2]) = (c.op = "=")
        [] c.op \in {"=", "!="} /\ ~c.text -> IF at = Null THEN Null ELSE (at = c.value) = (c.op = "=")
        [] c.op = "<" -> IF at = Null THEN Null ELSE at[2] < c.value[2]
        [] c.op = ">" -> IF at = Null THEN Null ELSE at[2] > c.value[2]

(* Where the databases part.                                                *)
Among(d, kinds) == d # Null /\ d[1] \in kinds
JsonParts(c) ==
  LET at == There(c)
      compares == c.op \in {"=", "!=", "<", ">"}
  IN  \/ c.op \in {"<", ">"} /\ at # Null /\ ~Among(at, {"num"})                    \* each has an order of kinds
      \/ c.op = "set" /\ (c.db # "postgres" \/ (c.column # Null /\ ~Among(c.column, {"obj"})))
      \/ c.db = "sqlite" /\ compares /\ ~c.text /\ (Among(at, {"null"}) \/ c.value = <<"null">>)
      \/ c.db = "sqlite" /\ compares /\ ~c.text /\ {"bool", "num"} = {c.value[1]} \cup (IF at = Null THEN {} ELSE {at[1]})
      \/ c.db = "sqlite" /\ compares /\ c.text /\ Among(at, {"bool", "num"})
      \/ c.db = "sqlite" /\ (c.op = "contains" \/ (c.op = "has_key" /\ c.column = Null))
      \/ c.db = "mysql" /\ compares /\ ~c.text /\ c.value[1] \notin {"str", "num"}
      \/ c.db = "mysql" /\ compares /\ c.text /\ Among(at, {"null"})
      \/ c.db = "mysql" /\ compares /\ Extract("mysql", c.column, c.path) # at        \* [0] of what is no array
      \/ c.db = "mysql" /\ c.op = "contains" /\ Among(c.column, {"arr", "obj"})
      \/ c.db = "postgres" /\ c.op = "has_key" /\ c.column # Null /\ ~Among(c.column, {"obj"})

ArrayMeans(c) ==
  IF c.column = Null THEN IF c.op = "is_empty" THEN TRUE ELSE Null ELSE PostgresArray(c)

ArrayParts(c) ==
  \/ BadArray(c)
  \/ c.db = "mysql" /\ c.of \in {"Boolean", "Json"} /\ c.values # << >> /\ c.column # Null
  \/ c.db = "sqlite" /\ (c.column = Null \/ (c.of = "Json" /\ c.values # << >>))

(* A filter on a JSON or an array column keeps the same rows on all three   *)
(* databases, and so does its negation, but where JsonParts and ArrayParts  *)
(* say; and containment, which SQLite only approximates and MySQL reads     *)
(* more widely, keeps every row that contains what is looked for            *)
(* (compile.rs:999-1030, 1190-1280, 1290-1480).                             *)
JsonFiltersMean ==
  /\ Returned("json") =>
       /\ ~JsonParts(argument) => answer = JsonMeans(argument)
       /\ argument.op = "contains" /\ JsonMeans(argument) = TRUE => answer = TRUE
  /\ Returned("array") /\ ~ArrayParts(argument) => answer = ArrayMeans(argument)
=============================================================================

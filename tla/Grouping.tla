------------------------------ MODULE Grouping ------------------------------
(***************************************************************************)
(* Aggregate queries (crates/runtime/src/aggregate.rs, query.rs            *)
(* GroupedQuery and AggregateQuery, compile.rs aggregate_select) and the   *)
(* struct generated for a model's aggregates (crates/codegen/src/emit.rs). *)
(*                                                                         *)
(* A table is a sequence of rows with the text column g, the numeric       *)
(* column x, whose field has the type call.type, and deleted_at.  A query  *)
(* is the SelectQuery it starts from (its filter, the columns of group_by) *)
(* and what was called on it after.                                        *)
(***************************************************************************)
EXTENDS Call, Integers, Sequences, SequencesExt, FiniteSets, FiniteSetsExt

CONSTANT I64Max     \* the largest BigInt

-----------------------------------------------------------------------------
(* Filters: a comparison, a test for NULL, or a list of filters.            *)

NoFilter == [kind |-> "and", of |-> << >>]
LiveOnly == [kind |-> "null", column |-> "deleted_at"]

RECURSIVE Truth(_, _)
Truth(f, row) ==
  CASE f.kind = "null" -> row[f.column] = Null
    [] f.kind = "is" -> IF row[f.column] = Null THEN Null ELSE row[f.column] = f.value
    [] f.kind = "and" -> LET S == {Truth(f.of[i], row) : i \in DOMAIN f.of}
                         IN  IF FALSE \in S THEN FALSE ELSE IF Null \in S THEN Null ELSE TRUE
    [] f.kind = "or" -> LET S == {Truth(f.of[i], row) : i \in DOMAIN f.of}
                        IN  IF TRUE \in S THEN TRUE ELSE IF Null \in S THEN Null ELSE FALSE

(* filter, or_filter, having and or_having, called one after the other.     *)
Narrowed(start, calls) == FoldLeft(LAMBDA f, c : [kind |-> c.how, of |-> <<f, c.filter>>], start, calls)

-----------------------------------------------------------------------------
(* The query.                                                               *)

Counts == {"count", "count_distinct"}

Entry(kind, column) == [kind |-> kind, column |-> column]
Alias(entry) == <<entry.kind, entry.column>>

(* The struct's fields are named in snake case, its aliases are not.        *)
Field(call, entry) == <<entry.kind, IF call.camel THEN entry.column \o "_snake" ELSE entry.column>>

(* The struct's entries come in the order of its fields, a tuple's in the   *)
(* order they are written.                                                  *)
AllFields ==
  [i \in 1..2 |-> Entry(<<"count", "count_distinct">>[i], "g")]
  \o [i \in 1..6 |-> Entry(<<"count", "count_distinct", "sum", "avg", "min", "max">>[i], "x")]
PushEntries(call) ==
  IF call.into = "tuple" THEN call.set ELSE SelectSeq(AllFields, LAMBDA e : e \in ToSet(call.set))

(* SelectQuery::aggregate, and group_by followed by aggregate, which takes  *)
(* the filter without the one for live rows.                                *)
Grouped(call) ==
  [filter |-> LET own == Narrowed(NoFilter, call.before)
              IN  IF call.group = << >> THEN [kind |-> "and", of |-> <<own, LiveOnly>>] ELSE own,
   group |-> call.group]

AggregateQuery(call) ==
  LET query == Grouped(call)
  IN  [filter |-> Narrowed(query.filter, call.filters), group |-> query.group,
       having |-> Narrowed(NoFilter, call.havings), order |-> call.order,
       limit |-> IF call.fetch = "all" THEN call.limit ELSE 1, offset |-> call.offset]

\* Bug: every COUNT counts what it finds.
PushAggregate_All(entry) ==
  [entry EXCEPT !.kind = IF @ = "count_distinct" THEN "count" ELSE @] @@ [alias |-> Alias(entry), cast |-> entry.kind = "avg"]
\* Bug: the average is taken of the column as it is.
PushAggregate_NoCast(entry) == entry @@ [alias |-> Alias(entry), cast |-> FALSE]

PushAggregate(entry) == entry @@ [alias |-> Alias(entry), cast |-> entry.kind = "avg"]

AggregateStatement(query, entries) == query @@ [items |-> [i \in DOMAIN entries |-> PushAggregate(entries[i])]]

-----------------------------------------------------------------------------
(* The databases.                                                           *)

ColumnTypeOf(type) == CASE type = "Int" -> "int4" [] type = "BigInt" -> "int8" [] type = "Float" -> "float8"
ResultType(dialect, item, type) ==
  LET float == item.cast \/ type = "Float" \/ (dialect = "sqlite" /\ item.kind = "avg")
      whole == dialect = "sqlite" \/ (dialect = "postgres" /\ item.kind = "sum" /\ type = "Int")
  IN  CASE item.kind \in Counts -> "int8"
        [] item.kind \in {"min", "max"} -> ColumnTypeOf(type)
        [] OTHER -> IF float THEN "float8" ELSE IF whole THEN "int8" ELSE "numeric"

Present(rows, group, column) == {i \in group : rows[i][column] # Null}
Total(rows, group, column) == FoldSet(LAMBDA i, n : n + rows[i][column], 0, Present(rows, group, column))
Ratio(n, of) == [sum |-> n, count |-> of]
Computed(item, rows, group) ==
  LET present == Present(rows, group, item.column)
      values == {rows[i][item.column] : i \in present}
  IN  IF item.kind \notin Counts /\ present = {} THEN Null
      ELSE CASE item.kind = "count" -> Cardinality(present)
             [] item.kind = "count_distinct" -> Cardinality(values)
             [] item.kind = "sum" -> Total(rows, group, item.column)
             [] item.kind = "avg" -> Ratio(Total(rows, group, item.column), Cardinality(present))
             [] item.kind = "min" -> Min(values)
             [] item.kind = "max" -> Max(values)

KeyOf(row, columns) == [i \in DOMAIN columns |-> row[columns[i]]]
GroupsOf(statement, rows) ==
  LET kept == {i \in DOMAIN rows : Truth(statement.filter, rows[i]) = TRUE}
      Same(i) == {j \in kept : KeyOf(rows[j], statement.group) = KeyOf(rows[i], statement.group)}
  IN  IF statement.group = << >> THEN {kept} ELSE {Same(i) : i \in kept}

(* Where NULL sorts, from the smallest.                                     *)
PlaceOf(dialect, name) ==
  CASE name = Null -> IF dialect = "postgres" THEN 9 ELSE 0
    [] name = "a" -> 1
    [] name = "b" -> 2
Precedes(dialect, order, x, y) ==
  IF order = "asc" THEN PlaceOf(dialect, x) < PlaceOf(dialect, y) ELSE PlaceOf(dialect, y) < PlaceOf(dialect, x)
NameOfGroup(rows, group) == rows[CHOOSE i \in group : TRUE].g
InOrderOf(dialect, order, rows, groups) ==
  IF order = Null THEN SetToSeq(groups)
  ELSE SetToSortSeq(groups, LAMBDA u, v : Precedes(dialect, order, NameOfGroup(rows, u), NameOfGroup(rows, v)))

Least(m, n) == IF m < n THEN m ELSE n
Window(s, limit, offset) ==
  LET rest == IF offset = Null THEN s ELSE SubSeq(s, offset + 1, Len(s))
  IN  IF limit = Null THEN rest ELSE SubSeq(rest, 1, Least(limit, Len(rest)))

Shown(call, statement, groups) ==
  Window(InOrderOf(call.dialect, statement.order, call.rows, groups), statement.limit, statement.offset)
Overflows(call, statement, groups) ==
  /\ call.dialect = "sqlite" /\ call.type # "Float"
  /\ \E item \in ToSet(statement.items), group \in groups :
       item.kind = "sum" /\ Total(call.rows, group, item.column) > I64Max
Cells(call, items, group) ==
  [i \in DOMAIN items |-> [type |-> ResultType(call.dialect, items[i], call.type), is |-> Computed(items[i], call.rows, group)]]
Execute(call, statement) ==
  LET groups == {g \in GroupsOf(statement, call.rows) :
                   statement.group = << >> \/ Truth(statement.having, call.rows[CHOOSE i \in g : TRUE]) = TRUE}
      shown == Shown(call, statement, groups)
  IN  IF statement.offset # Null /\ statement.limit = Null /\ call.dialect # "postgres" THEN Error
      ELSE IF Overflows(call, statement, groups) THEN Error
      ELSE [i \in DOMAIN shown |-> Cells(call, statement.items, shown[i])]

-----------------------------------------------------------------------------
(* The answer.                                                              *)

(* What a Column's aggregates return, without the Option.                   *)
Returns(kind, type) ==
  CASE kind \in Counts -> "int8"
    [] kind = "avg" -> "float8"
    [] kind = "sum" -> IF type = "Float" THEN "float8" ELSE "int8"
    [] OTHER -> ColumnTypeOf(type)

(* The native Postgres driver looks at the type of a NULL too.  SQLite      *)
(* tells a whole number's width by its value.                               *)
ReadCell(call, kind, cell) ==
  IF call.driver # "tokio" /\ cell.is = Null THEN Null
  ELSE IF cell.type = Returns(kind, call.type) THEN cell.is
  ELSE IF call.dialect = "sqlite" /\ {cell.type, Returns(kind, call.type)} = {"int4", "int8"} THEN cell.is
  ELSE Error

(* A tuple is read by position; a field of the struct by its name, and a    *)
(* field there is no column for is None.                                    *)
FromTuple(call, entries, row) == [i \in DOMAIN row |-> ReadCell(call, entries[i].kind, row[i])]
FromStruct(call, items, row) ==
  [entry \in ToSet(AllFields) |->
     LET at == {i \in DOMAIN items : items[i].alias = Field(call, entry)}
     IN  IF at = {} THEN Null ELSE ReadCell(call, entry.kind, row[Min(at)])]
DecodeRow(call, items, row) ==
  IF call.into = "tuple" THEN FromTuple(call, items, row) ELSE FromStruct(call, items, row)
DecodeRows(call, items, result) ==
  LET decoded == [i \in DOMAIN result |-> DecodeRow(call, items, result[i])]
  IN  IF \E i \in DOMAIN decoded : \E j \in DOMAIN decoded[i] : decoded[i][j] = Error THEN Error ELSE decoded

FetchOne(rows) == IF rows = << >> THEN Error ELSE rows
Fetched(call, statement, result) ==
  LET rows == IF result = Error THEN Error ELSE DecodeRows(call, statement.items, result)
  IN  IF rows # Error /\ call.fetch = "one" THEN FetchOne(rows) ELSE rows

Fetch(call, statement) == Fetched(call, statement, Execute(call, statement))
AggregateCall(call) == Fetch(call, AggregateStatement(AggregateQuery(call), PushEntries(call)))

Aggregate == Called("aggregate") /\ Return(AggregateCall(argument))

-----------------------------------------------------------------------------
(* Property.                                                                *)

LiveRows(call) == {i \in DOMAIN call.rows : call.rows[i].deleted_at = Null}

(* Behind group_by, and after an or_filter on the AggregateQuery, deleted   *)
(* rows count as well.                                                      *)
ReadsDeleted(call) ==
  /\ LiveRows(call) # DOMAIN call.rows
  /\ call.group # << >> \/ \E i \in DOMAIN call.filters : call.filters[i].how = "or"

Wanted(call) ==
  {i \in LiveRows(call) : Truth(Narrowed(NoFilter, call.before \o call.filters), call.rows[i]) = TRUE}
Alike(call, i, j) == \A c \in ToSet(call.group) : call.rows[i][c] = call.rows[j][c]
Asked(call) ==
  {{j \in Wanted(call) : Alike(call, i, j)} :
     i \in {i \in Wanted(call) : Truth(Narrowed(NoFilter, call.havings), call.rows[i]) = TRUE}}
  \cup IF call.group = << >> THEN {Wanted(call)} ELSE {}

IsRight(entry, rows, group, value) ==
  LET present == {i \in group : rows[i][entry.column] # Null}
      values == {rows[i][entry.column] : i \in present}
      total == MapThenSumSet(LAMBDA i : rows[i][entry.column], present)
  IN  IF entry.kind \notin {"count", "count_distinct"} /\ present = {} THEN value = Null
      ELSE CASE entry.kind = "count" -> value = Cardinality(present)
             [] entry.kind = "count_distinct" -> value = Cardinality(values)
             [] entry.kind = "sum" -> value = total
             [] entry.kind = "avg" -> value.sum * Cardinality(present) = value.count * total
             [] entry.kind = "min" -> value \in values /\ \A v \in values : value <= v
             [] entry.kind = "max" -> value \in values /\ \A v \in values : v <= value

IsRowOf(call, group, row) ==
  IF call.into = "tuple" THEN \A i \in DOMAIN call.set : IsRight(call.set[i], call.rows, group, row[i])
  ELSE \A e \in DOMAIN row : IF e \in ToSet(call.set) THEN IsRight(e, call.rows, group, row[e]) ELSE row[e] = Null

Skipped(call) == IF call.offset = Null THEN 0 ELSE call.offset
RowCount(call, groups) ==
  LET left == IF Skipped(call) < Cardinality(groups) THEN Cardinality(groups) - Skipped(call) ELSE 0
  IN  IF call.fetch # "all" THEN Least(left, 1) ELSE IF call.limit = Null THEN left ELSE Least(left, call.limit)

(* Each row of the answer is the row of a group of its own, in the order    *)
(* asked for.                                                               *)
AreRowsOf(call, groups, rows) ==
  \E group \in [DOMAIN rows -> groups] : \A i \in DOMAIN rows :
    /\ IsRowOf(call, group[i], rows[i])
    /\ IF call.order = Null THEN \A j \in DOMAIN rows : group[i] = group[j] => i = j
       ELSE i + Skipped(call) - 1 =
              Cardinality({g \in groups : Precedes(call.dialect, call.order, NameOfGroup(call.rows, g), NameOfGroup(call.rows, group[i]))})

MayFail(call, groups) ==
  \/ \E i \in DOMAIN call.set :
       /\ call.set[i].kind = "sum" /\ call.type # "Float"
       /\ CASE call.dialect = "mysql" -> TRUE
            [] call.dialect = "postgres" -> call.type = "BigInt"
            [] OTHER -> \E g \in groups : Total(call.rows, g, "x") > I64Max
  \/ call.offset # Null /\ call.limit = Null /\ call.fetch = "all" /\ call.dialect # "postgres"
  \/ call.fetch = "one" /\ RowCount(call, groups) = 0

(* An aggregate query returns one row for every group of the live rows its  *)
(* filters keep, or one row when nothing is grouped, with the exact count,  *)
(* sum, average or extreme of what is not NULL, in the place the caller     *)
(* reads it from (aggregate.rs:110, emit.rs:1403, query.rs:2575).  What may *)
(* fail are the sum of whole numbers that the server gives another type, or *)
(* cannot hold; OFFSET without LIMIT; and fetch_one without a row.  The     *)
(* struct of a model loses the columns whose names are not in snake case.   *)
AggregatesTrue ==
  Returned("aggregate") /\ ~ReadsDeleted(argument) =>
    LET call == argument
        groups == Asked(call)
    IN  IF answer = Error THEN MayFail(call, groups)
        ELSE /\ Len(answer) = RowCount(call, groups)
             /\ (call.into = "struct" /\ call.camel) \/ AreRowsOf(call, groups, answer)
=============================================================================

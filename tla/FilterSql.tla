------------------------------ MODULE FilterSql ------------------------------
(***************************************************************************)
(* Filters and the SQL they are compiled to                                *)
(* (crates/runtime/src/filter.rs, col.rs, compile.rs).                     *)
(*                                                                         *)
(* There are three levels.  An expression is what the caller wrote with    *)
(* Column::eq, all, any, `!`, posts_some, in_subquery.  A node is the      *)
(* FilterNode the constructors build from it.  A statement is what         *)
(* compile.rs makes of the node: a sequence of tokens and the values bound *)
(* to its placeholders.  Means gives an expression its meaning directly;   *)
(* RowsAt is what a database makes of a statement, reading the tokens with *)
(* the precedence SQL gives them and counting the placeholders the way the *)
(* dialect does.                                                           *)
(*                                                                         *)
(* A table is a set of rows, a row a record with the columns id, fk, a and *)
(* deleted_at.  The model M reads the table "parents", and its relation    *)
(* leads to "children" by children.fk = parents.id.  Both models have a    *)
(* @deletedAt column.  LIKE, JSON, array, full-text and spatial predicates *)
(* compile as a comparison does and are left out.                          *)
(***************************************************************************)
EXTENDS Integers, Sequences, SequencesExt, FiniteSets, TLC

CONSTANT Null       \* SQL's NULL, as a value and as a truth value

-----------------------------------------------------------------------------
(* Three-valued logic.                                                      *)

Not3(x) == IF x = Null THEN Null ELSE ~x
And3(S) == IF FALSE \in S THEN FALSE ELSE IF Null \in S THEN Null ELSE TRUE
Or3(S) == IF TRUE \in S THEN TRUE ELSE IF Null \in S THEN Null ELSE FALSE

Compare(op, x, y) ==
  IF Null \in {x, y} THEN Null
  ELSE CASE op = "=" -> x = y
         [] op = "!=" -> x # y
         [] op = ">" -> x > y
         [] op = ">=" -> x >= y
         [] op = "<" -> x < y
         [] op = "<=" -> x <= y

InSet(x, S) == Or3({Compare("=", x, y) : y \in S})

-----------------------------------------------------------------------------
(* The meaning of an expression for one row of `parents` (or of `children`, *)
(* inside a relation filter), three-valued.                                 *)

(* A query sees the live rows of a model with a @deletedAt column.  A model *)
(* over a common table expression has none.                                 *)
SoftDeletable(table) == table \in {"parents", "children"}
IsLive(table, row) == SoftDeletable(table) => row.deleted_at = Null

RECURSIVE Means(_, _, _)
Means(e, row, tables) ==
  CASE e.kind = "cmp" -> Compare(e.op, row[e.col], e.val)
    [] e.kind = "null" -> (row[e.col] = Null) # e.negated
    [] e.kind = "between" -> And3({Compare(">=", row[e.col], e.lo), Compare("<=", row[e.col], e.hi)})
    [] e.kind = "in" -> IF e.negated THEN Not3(InSet(row[e.col], ToSet(e.vals)))
                        ELSE InSet(row[e.col], ToSet(e.vals))
    [] e.kind = "all" -> And3({Means(e.of[i], row, tables) : i \in DOMAIN e.of})
    [] e.kind = "any" -> Or3({Means(e.of[i], row, tables) : i \in DOMAIN e.of})
    [] e.kind = "not" -> Not3(Means(e.of, row, tables))
    [] e.kind \in {"some", "none", "every"} ->
         LET live == {c \in tables["children"] : c.fk = row.id /\ c.deleted_at = Null}
             said == {Means(e.of, c, tables) : c \in live}
         IN  \/ e.kind = "some" /\ TRUE \in said
             \/ e.kind = "none" /\ TRUE \notin said
             \/ e.kind = "every" /\ FALSE \notin said      \* no live child is known to fail it
    [] e.kind = "in_query" ->       \* col [NOT] IN (a query of another model, its live rows)
         LET found == {r[e.get] : r \in {r \in tables[e.table] :
                         IsLive(e.table, r) /\ Means(e.of, r, tables) = TRUE}}
         IN  IF e.negated THEN Not3(InSet(row[e.col], found)) ELSE InSet(row[e.col], found)

-----------------------------------------------------------------------------
(* Statements under construction.  Tokens are tuples: <<"AND">>,            *)
(* <<"col", table, column>>, <<"op", op>>, <<"$", 2>>, <<"?">>.             *)

Empty == [sql |-> << >>, binds |-> << >>]

Emit(c, tokens) == [c EXCEPT !.sql = @ \o tokens]

Numbered(dialect) == dialect = "postgres"

(* dialect.placeholder(i), which takes a 0-based index and adds one.        *)
Placeholder(dialect, i) == IF Numbered(dialect) THEN <<"$", i + 1>> ELSE <<"?">>

PushBind(dialect, c, v) ==
  [sql |-> Append(c.sql, Placeholder(dialect, Len(c.binds))), binds |-> Append(c.binds, v)]

Shift(sql, offset) ==
  [i \in DOMAIN sql |-> IF sql[i][1] = "$" THEN <<"$", sql[i][2] + offset>> ELSE sql[i]]

(* Mutant: forgets where the statement ends up.                             *)
Renumbered_NotShifted(sub, offset) == sub

(* CompiledSql::renumbered.                                                 *)
Renumbered(sub, offset) == [sub EXCEPT !.sql = Shift(@, offset)]

(* A compiled statement inside another: its placeholders go on where the    *)
(* outer statement's stopped.                                               *)
PushSubquery(dialect, c, sub) ==
  [sql |-> c.sql \o (IF Numbered(dialect) THEN Shift(sub.sql, Len(c.binds)) ELSE sub.sql),
   binds |-> c.binds \o sub.binds]

PushValues(dialect, c, vals) ==
  FoldLeftDomain(LAMBDA acc, i :
                   PushBind(dialect, IF i = 1 THEN acc ELSE Emit(acc, << <<",">> >>), vals[i]),
                 c, vals)

RECURSIVE PushFilter(_, _, _)

(* Mutant: no parentheses.                                                  *)
PushGroup_Bare(dialect, c, nodes, word, unit) ==
  IF nodes = << >> THEN Emit(c, << <<unit>> >>)
  ELSE FoldLeftDomain(LAMBDA acc, i :
                        PushFilter(dialect, IF i = 1 THEN acc ELSE Emit(acc, << <<word>> >>), nodes[i]),
                      c, nodes)

(* The children of an And or an Or: in parentheses when there are several.  *)
PushGroup(dialect, c, nodes, word, unit) ==
  IF nodes = << >> THEN Emit(c, << <<unit>> >>)
  ELSE IF Len(nodes) = 1 THEN PushFilter(dialect, c, nodes[1])
  ELSE Emit(FoldLeftDomain(LAMBDA acc, i :
                             PushFilter(dialect, IF i = 1 THEN acc ELSE Emit(acc, << <<word>> >>),
                                        nodes[i]),
                           Emit(c, << <<"(">> >>), nodes),
            << <<")">> >>)

IsTrivial(node) == node.kind = "And" /\ node.of = << >>

Negation(node) == IF node.negated THEN << <<"NOT">> >> ELSE << >>

(* A correlated EXISTS; an empty inner filter adds nothing to the           *)
(* correlation.                                                             *)
PushInner(dialect, c, node) ==
  IF IsTrivial(node) THEN c ELSE PushFilter(dialect, Emit(c, << <<"AND">> >>), node)

PushExists(dialect, c, node) ==
  Emit(PushInner(dialect,
         Emit(c, Negation(node) \o
                 << <<"EXISTS">>, <<"(">>, <<"SELECT", "1">>, <<"FROM", node.child>>, <<"WHERE">>,
                    <<"col", node.child, node.childcol>>, <<"op", "=">>,
                    <<"col", node.parent, node.parentcol>> >>),
         node.of),
       << <<")">> >>)

PushNot(dialect, c, node) ==
  Emit(PushFilter(dialect, Emit(c, << <<"NOT">>, <<"(">> >>), node.of), << <<")">> >>)

(* Compiler::push_filter.  A comparison with NULL is the caller's is_null,  *)
(* see the README.                                                          *)
PushFilter(dialect, c, node) ==
  CASE node.kind = "Cmp" ->
         PushBind(dialect, Emit(c, << <<"col", node.table, node.col>>, <<"op", node.op>> >>), node.val)
    [] node.kind = "Null" ->
         Emit(c, << <<"col", node.table, node.col>>,
                    IF node.negated THEN <<"IS NOT NULL">> ELSE <<"IS NULL">> >>)
    [] node.kind = "Between" ->
         LET low == PushBind(dialect, Emit(c, << <<"col", node.table, node.col>>, <<"BETWEEN">> >>), node.lo)
         IN  PushBind(dialect, Emit(low, << <<"AND">> >>), node.hi)
    [] node.kind = "In" ->
         Emit(PushValues(dialect, Emit(c, << <<"col", node.table, node.col>> >> \o Negation(node) \o
                                          << <<"IN">>, <<"(">> >>), node.vals),
              << <<")">> >>)
    [] node.kind = "InSubquery" ->
         Emit(PushSubquery(dialect, Emit(c, << <<"col", node.table, node.col>> >> \o Negation(node) \o
                                            << <<"IN">>, <<"(">> >>), node.sub),
              << <<")">> >>)
    [] node.kind = "ColumnCmp" ->
         Emit(c, << <<"col", node.table, node.col>>, <<"op", node.op>>,
                    <<"col", node.right, node.rightcol>> >>)
    [] node.kind = "And" -> PushGroup(dialect, c, node.of, "AND", "TRUE")
    [] node.kind = "Or" -> PushGroup(dialect, c, node.of, "OR", "FALSE")
    [] node.kind = "Not" -> PushNot(dialect, c, node)
    [] node.kind = "Exists" -> PushExists(dialect, c, node)

-----------------------------------------------------------------------------
(* The nodes the constructors build.                                        *)

Flatten(kind, nodes) ==
  [kind |-> kind,
   of |-> FlattenSeq([i \in DOMAIN nodes |-> IF nodes[i].kind = kind THEN nodes[i].of ELSE <<nodes[i]>>])]

AndNode(nodes) == Flatten("And", nodes)     \* flatten_and
OrNode(nodes) == Flatten("Or", nodes)       \* flatten_or
NotNode(node) == [kind |-> "Not", of |-> node]

NullNode(table, col, negated) == [kind |-> "Null", table |-> table, col |-> col, negated |-> negated]

(* model.rs live_rows_node.                                                 *)
LiveNode(table) == NullNode(table, "deleted_at", FALSE)

(* compile.rs select: the part of a SELECT that chooses rows.  An empty And *)
(* has no WHERE.                                                            *)
PushWhere(dialect, c, node) ==
  IF IsTrivial(node) THEN c ELSE PushFilter(dialect, Emit(c, << <<"WHERE">> >>), node)

SelectSql(dialect, what, table, node) ==
  PushWhere(dialect, Emit(Empty, << <<"SELECT", what>>, <<"FROM", table>> >>), node)

(* The relation filters codegen writes: the child's soft-delete predicate   *)
(* joins the inner filter, for `every` the negated one.                     *)
RelationNode(e, inner) ==
  [kind |-> "Exists", child |-> "children", childcol |-> "fk", parent |-> "parents", parentcol |-> "id",
   of |-> AndNode(<<IF e.kind = "every" THEN NotNode(inner) ELSE inner, LiveNode("children")>>),
   negated |-> e.kind # "some"]

RECURSIVE Node(_, _, _)
Node(dialect, table, e) ==
  CASE e.kind = "cmp" -> [kind |-> "Cmp", table |-> table, col |-> e.col, op |-> e.op, val |-> e.val]
    [] e.kind = "null" -> NullNode(table, e.col, e.negated)
    [] e.kind = "between" -> [kind |-> "Between", table |-> table, col |-> e.col, lo |-> e.lo, hi |-> e.hi]
    [] e.kind = "in" -> [kind |-> "In", table |-> table, col |-> e.col, vals |-> e.vals, negated |-> e.negated]
    [] e.kind = "all" -> AndNode([i \in DOMAIN e.of |-> Node(dialect, table, e.of[i])])
    [] e.kind = "any" -> OrNode([i \in DOMAIN e.of |-> Node(dialect, table, e.of[i])])
    [] e.kind = "not" -> NotNode(Node(dialect, table, e.of))
    [] e.kind \in {"some", "none", "every"} -> RelationNode(e, Node(dialect, "children", e.of))
    [] e.kind = "in_query" ->
         [kind |-> "InSubquery", table |-> table, col |-> e.col, negated |-> e.negated,
          sub |-> SelectSql(dialect, e.get, e.table,
                            AndNode(<<Node(dialect, e.table, e.of)>> \o
                                    IF SoftDeletable(e.table) THEN <<LiveNode(e.table)>> ELSE << >>))]

-----------------------------------------------------------------------------
(* The database: a statement read with SQL's precedence, OR below AND below *)
(* NOT below the predicates.  scope gives the row each table name stands    *)
(* for at a place in the statement.                                         *)

(* The closing parenthesis of the one at i.                                 *)
Close(sql, i) ==
  LET RECURSIVE From(_, _)
      From(j, depth) ==
        IF sql[j] = <<"(">> THEN From(j + 1, depth + 1)
        ELSE IF sql[j] # <<")">> THEN From(j + 1, depth)
        ELSE IF depth = 1 THEN j ELSE From(j + 1, depth - 1)
  IN  From(i + 1, 1)

IsToken(st, i, word) == i <= Len(st.sql) /\ st.sql[i] = <<word>>

(* A value: a column, a numbered placeholder, or the next unnumbered one.   *)
Operand(st, scope, i) ==
  LET t == st.sql[i]
  IN  CASE t[1] = "col" -> scope[t[2]][t[3]]
        [] t[1] = "$" -> st.binds[t[2]]
        [] t[1] = "?" -> st.binds[Cardinality({k \in 1..i : st.sql[k] = <<"?">>})]

RECURSIVE Disjunction(_, _, _, _)

(* The rows of the SELECT at i, its table's name standing for each of them. *)
RowsAt(st, tables, scope, i) ==
  LET from == st.sql[i + 1][2]
  IN  IF IsToken(st, i + 2, "WHERE")
        THEN {r \in tables[from] : Disjunction(st, tables, (from :> r) @@ scope, i + 3).is = TRUE}
        ELSE tables[from]

(* [NOT] IN ( values or a SELECT ) at i, where i is the parenthesis.        *)
ListAt(st, tables, scope, i) ==
  IF st.sql[i + 1][1] = "SELECT"
    THEN {r[st.sql[i + 1][2]] : r \in RowsAt(st, tables, scope, i + 1)}
    ELSE {Operand(st, scope, k) : k \in {k \in (i + 1)..(Close(st.sql, i) - 1) : st.sql[k] # <<",">>}}

Predicate(st, tables, scope, i) ==
  LET t == st.sql[i]
      next == st.sql[i + 1]
  IN  CASE t[1] = "(" -> [is |-> Disjunction(st, tables, scope, i + 1).is, next |-> Close(st.sql, i) + 1]
        [] t[1] = "TRUE" -> [is |-> TRUE, next |-> i + 1]
        [] t[1] = "FALSE" -> [is |-> FALSE, next |-> i + 1]
        [] t[1] = "EXISTS" -> [is |-> RowsAt(st, tables, scope, i + 2) # {}, next |-> Close(st.sql, i + 1) + 1]
        [] t[1] \in {"col", "$", "?"} /\ next[1] = "op" ->
             [is |-> Compare(next[2], Operand(st, scope, i), Operand(st, scope, i + 2)), next |-> i + 3]
        [] t[1] = "col" /\ next[1] = "IS NULL" -> [is |-> Operand(st, scope, i) = Null, next |-> i + 2]
        [] t[1] = "col" /\ next[1] = "IS NOT NULL" -> [is |-> Operand(st, scope, i) # Null, next |-> i + 2]
        [] t[1] = "col" /\ next[1] = "BETWEEN" ->
             [is |-> And3({Compare(">=", Operand(st, scope, i), Operand(st, scope, i + 2)),
                           Compare("<=", Operand(st, scope, i), Operand(st, scope, i + 4))}),
              next |-> i + 5]
        [] t[1] = "col" /\ next[1] = "IN" ->
             [is |-> InSet(Operand(st, scope, i), ListAt(st, tables, scope, i + 2)),
              next |-> Close(st.sql, i + 2) + 1]
        [] t[1] = "col" /\ next[1] = "NOT" ->
             [is |-> Not3(InSet(Operand(st, scope, i), ListAt(st, tables, scope, i + 3))),
              next |-> Close(st.sql, i + 3) + 1]

Negated(part) == [part EXCEPT !.is = Not3(@)]

Negatable(st, tables, scope, i) ==
  IF IsToken(st, i, "NOT") THEN Negated(Predicate(st, tables, scope, i + 1))
  ELSE Predicate(st, tables, scope, i)

Both(is, rest) == [rest EXCEPT !.is = And3({is, @})]
Either(is, rest) == [rest EXCEPT !.is = Or3({is, @})]

RECURSIVE AndMore(_, _, _, _)
AndMore(st, tables, scope, left) ==
  IF IsToken(st, left.next, "AND")
    THEN Both(left.is, AndMore(st, tables, scope, Negatable(st, tables, scope, left.next + 1)))
    ELSE left

Conjunction(st, tables, scope, i) == AndMore(st, tables, scope, Negatable(st, tables, scope, i))

OrMore(st, tables, scope, left) ==
  IF IsToken(st, left.next, "OR")
    THEN Either(left.is, Disjunction(st, tables, scope, left.next + 1))
    ELSE left

Disjunction(st, tables, scope, i) == OrMore(st, tables, scope, Conjunction(st, tables, scope, i))

NoScope == [t \in {} |-> Null]
=============================================================================

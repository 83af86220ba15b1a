----------------------------- MODULE SelectQuery -----------------------------
(***************************************************************************)
(* The SELECT builder (crates/runtime/src/query.rs, compile.rs, page.rs)   *)
(* for the model over `parents`: the calls that build a query, the forms   *)
(* it is sent in (rows, count, exists, aggregate, join, set operation,     *)
(* with or without common table expressions), and a caller who walks       *)
(* through the result page by page or with a cursor while another client   *)
(* inserts and deletes rows.                                               *)
(*                                                                         *)
(* asked is what the calls say, as an expression: it is compared with what *)
(* the database does on receiving the SQL.                                 *)
(***************************************************************************)
EXTENDS FilterSql, FiniteSetsExt

CONSTANTS
  Dialects,     \* of "sqlite", "postgres", "mysql"
  FilterArgs,   \* the expressions the caller may pass to filter and or_filter
  CteArgs,      \* and to the query behind with()
  Orders,       \* the order_by arguments: [col, desc]
  Universe,     \* rows of `parents` a query is judged on
  Children,     \* the rows of `children`
  Ids,          \* the primary keys of `parents`, positive numbers
  Tables,       \* the contents of `parents` a walk may begin with
  Arrivals,     \* the rows the other client may insert
  Sizes,        \* page sizes
  MaxCalls,     \* bound: builder calls
  WalkCalls,    \* bound: builder calls before a walk
  MaxOther      \* bound: rows the other client inserts or deletes

ASSUME IdsPositive == Ids \subseteq Nat \ {0}

VARIABLES
  dialect,      \* of the executor behind the query
  query,        \* SelectQuery: filter, with_deleted, only_deleted, order, limit, offset, ctes
  asked,        \* the expression the calls add up to, and those of the CTEs
  calls,        \* number of builder calls so far
  rows,         \* the contents of `parents` while the caller reads
  walk          \* the pages the caller has read

vars == <<dialect, query, asked, calls, rows, walk>>

NoWalk == [kind |-> "none", size |-> 0, seen |-> << >>, from |-> 0, done |-> FALSE,
           stable |-> {}, others |-> 0]

New == [filter |-> AndNode(<< >>), with_deleted |-> FALSE, only_deleted |-> FALSE,
        order |-> << >>, limit |-> Null, offset |-> Null, ctes |-> << >>]

Everything == [kind |-> "all", of |-> << >>]

Init ==
  /\ dialect \in Dialects
  /\ query = New
  /\ asked = [where |-> Everything, ctes |-> << >>]
  /\ calls = 0
  /\ rows = {}
  /\ walk = NoWalk

-----------------------------------------------------------------------------
(* Compiling a query.                                                       *)

(* SelectQuery::effective_filter.                                           *)
EffectiveFilter(q) ==
  IF q.with_deleted THEN q.filter
  ELSE AndNode(<<q.filter, NullNode("parents", "deleted_at", q.only_deleted)>>)

(* The text of ORDER BY, LIMIT and OFFSET.                                  *)
PushTail(c, q) ==
  Emit(c, (IF q.order = << >> THEN << >> ELSE << <<"ORDER BY", q.order>> >>) \o
          (IF q.limit = Null THEN << >> ELSE << <<"LIMIT", q.limit>> >>) \o
          (IF q.offset = Null THEN << >> ELSE << <<"OFFSET", q.offset>> >>))

(* to_sql_without_cte for a query without a join.                           *)
MainSql(q) == PushTail(SelectSql(dialect, "*", "parents", EffectiveFilter(q)), q)

(* with_cte_prefix: the CTEs' binds come first, everything after them is    *)
(* renumbered.                                                              *)
WithCtes(ctes, main) ==
  LET Add(c, cte) ==
        LET shifted == Renumbered(cte.compiled, Len(c.binds))
        IN  [sql |-> c.sql \o << <<"CTE", cte.name>>, <<"(">> >> \o shifted.sql \o << <<")">> >>,
             binds |-> c.binds \o shifted.binds]
      prefix == FoldLeft(Add, Emit(Empty, << <<"WITH">> >>), ctes)
      shifted == Renumbered(main, Len(prefix.binds))
  IN  IF ctes = << >> THEN main
      ELSE [sql |-> prefix.sql \o shifted.sql, binds |-> prefix.binds \o shifted.binds]

ToSql(q) == WithCtes(q.ctes, MainSql(q))

(* compile.rs count and exists.  Neither has a tail of the query's own.     *)
Count(filter) == SelectSql(dialect, "COUNT(*)", "parents", filter)
Exists(filter) == Emit(SelectSql(dialect, "1", "parents", filter), << <<"LIMIT", 1>> >>)

(* Mutant: counts the deleted rows too.                                     *)
CountSql_AllRows(q) == WithCtes(q.ctes, Count(q.filter))

(* SelectQuery::count and exists.                                           *)
CountSql(q) == WithCtes(q.ctes, Count(EffectiveFilter(q)))
ExistsSql(q) == WithCtes(q.ctes, Exists(EffectiveFilter(q)))

(* SelectQuery::aggregate without group_by.  The tail applies to the row of *)
(* the result.                                                              *)
Aggregate(q) ==
  [filter |-> EffectiveFilter(q), order |-> q.order, limit |-> q.limit, offset |-> q.offset, ctes |-> q.ctes]
AggregateSql(agg) ==
  WithCtes(agg.ctes, PushTail(SelectSql(dialect, "SUM(a)", "parents", agg.filter), agg))

(* compile.rs set_op.  SQLite takes no parenthesised operand.               *)
SetOp(op, ctes, left, right) ==
  LET r == Renumbered(right, Len(left.binds))
      Side(sql) == (IF dialect = "sqlite" THEN << <<"SELECT * FROM">> >> ELSE << >>) \o
                   << <<"(">> >> \o sql \o << <<")">> >>
  IN  WithCtes(ctes, [sql |-> Side(left.sql) \o << <<op>> >> \o Side(r.sql),
                      binds |-> left.binds \o r.binds])

(* SetOpQuery::new and to_sql: each side is compiled by itself, without its *)
(* CTEs, which go before the whole.                                         *)
SetOpSql(op, left, right) == SetOp(op, left.ctes \o right.ctes, MainSql(left), MainSql(right))

SetOps == IF dialect = "mysql" THEN {"UNION"} ELSE {"UNION", "INTERSECT", "EXCEPT"}

(* check_join_support.                                                      *)
JoinKinds ==
  {"INNER", "LEFT"} \cup (IF dialect = "sqlite" THEN {} ELSE {"RIGHT"})
                    \cup (IF dialect = "postgres" THEN {"FULL"} ELSE {})

(* The names the joined table goes by: its own, or the alias of the         *)
(* ..._join_aliased calls.                                                  *)
Aliases == {"children", "c2"}

(* Mutant: joins deleted children too.                                      *)
JoinOn_KeepsDeleted(q, alias) ==
  [kind |-> "ColumnCmp", table |-> "parents", col |-> "id", op |-> "=", right |-> alias, rightcol |-> "fk"]

(* A join to `children` on the foreign key.  The right side's soft-delete   *)
(* predicate is part of ON.                                                 *)
JoinOn(q, alias) ==
  LET on == [kind |-> "ColumnCmp", table |-> "parents", col |-> "id", op |-> "=",
             right |-> alias, rightcol |-> "fk"]
  IN  IF q.with_deleted THEN on ELSE [kind |-> "And", of |-> <<on, LiveNode(alias)>>]

(* Model::COLUMNS of both models.                                           *)
Columns == <<"id", "fk", "a", "deleted_at">>
Qualified(table) == [i \in DOMAIN Columns |-> <<table, Columns[i]>>]

JoinSql(q, kind, alias) ==
  LET from == Emit(Empty, << <<"SELECT", Qualified("parents") \o Qualified(alias)>>, <<"FROM", "parents">>,
                             <<"JOIN", kind, "children", alias>>, <<"ON">> >>)
      on == PushFilter(dialect, from, JoinOn(q, alias))
  IN  WithCtes(q.ctes, PushTail(PushWhere(dialect, on, EffectiveFilter(q)), q))

(* The generated from_row of either model, by position; its key cannot be   *)
(* NULL.                                                                    *)
DecodeError == [error |-> "unexpected null"]
FromRow(block) ==
  IF block[1] = Null THEN DecodeError
  ELSE [col \in ToSet(Columns) |-> block[CHOOSE i \in DOMAIN Columns : Columns[i] = col]]

NoRow == [id |-> Null, fk |-> Null, a |-> Null, deleted_at |-> Null]

(* Mutant: one NULL is taken for a row that is not there.                   *)
Maybe_AnyNull(block) == IF Null \in ToSet(block) THEN NoRow ELSE FromRow(block)

(* Maybe::from_row, NoRow standing for Maybe(None).                         *)
Maybe(block) == IF ToSet(block) = {Null} THEN NoRow ELSE FromRow(block)

(* OffsetRow, and the slice of an owned row: the columns of one model.      *)
Block(row, offset) == SubSeq(row, offset + 1, offset + Len(Columns))

(* The kinds whose output type has a Maybe on the left, on the right.       *)
MaybeLeft == {"RIGHT", "FULL"}
MaybeRight == {"LEFT", "FULL"}

(* Join2, LeftJoin2: the second model's columns follow the first's.         *)
DecodeJoin(kind, row) ==
  LET left == Block(row, 0)
      right == Block(row, Len(Columns))
  IN  <<IF kind \in MaybeLeft THEN Maybe(left) ELSE FromRow(left),
        IF kind \in MaybeRight THEN Maybe(right) ELSE FromRow(right)>>

-----------------------------------------------------------------------------
(* The database's answer to a whole statement.                              *)

(* The tables and common table expressions a statement sees, and where its  *)
(* main part begins.                                                        *)
RECURSIVE AfterCtes(_, _, _)
AfterCtes(st, tables, i) ==
  IF st.sql[i][1] # "CTE" THEN [tables |-> tables, at |-> i]
  ELSE AfterCtes(st, (st.sql[i][2] :> RowsAt(st, tables, NoScope, i + 2)) @@ tables,
                 Close(st.sql, i + 1) + 1)

Opened(st, tables) ==
  IF IsToken(st, 1, "WITH") THEN AfterCtes(st, tables, 2) ELSE [tables |-> tables, at |-> 1]

(* The rows of a SELECT, ORDER BY, LIMIT and OFFSET aside.                  *)
Matching(st, tables) ==
  LET main == Opened(st, tables) IN RowsAt(st, main.tables, NoScope, main.at)

(* The rows of a set operation.                                             *)
Combined(st, tables) ==
  LET main == Opened(st, tables)
      Paren(i) == IF IsToken(st, i, "SELECT * FROM") THEN i + 1 ELSE i
      left == Paren(main.at)
      after == Close(st.sql, left) + 1
      right == Paren(after + 1)
      L == RowsAt(st, main.tables, NoScope, left + 1)
      R == RowsAt(st, main.tables, NoScope, right + 1)
  IN  CASE st.sql[after] = <<"UNION">> -> L \cup R
        [] st.sql[after] = <<"INTERSECT">> -> L \cap R
        [] st.sql[after] = <<"EXCEPT">> -> L \ R

(* The rows of a join, as the sequences of values it selects.               *)
Joined(st, tables) ==
  LET main == Opened(st, tables)
      cols == st.sql[main.at][2]
      kind == st.sql[main.at + 2][2]
      L == tables["parents"]
      R == tables[st.sql[main.at + 2][3]]
      Scope(p) == ("parents" :> p[1]) @@ (st.sql[main.at + 2][4] :> p[2])
      On(p) == Disjunction(st, main.tables, Scope(p), main.at + 4)
      pairs == {p \in L \X R : On(p).is = TRUE}
      alone == {<<l, NoRow>> : l \in IF kind \in {"LEFT", "FULL"} THEN L \ {p[1] : p \in pairs} ELSE {}}
        \cup {<<NoRow, r>> : r \in IF kind \in {"RIGHT", "FULL"} THEN R \ {p[2] : p \in pairs} ELSE {}}
      Kept(p) == LET where == On(p).next
                 IN  IsToken(st, where, "WHERE") =>
                       Disjunction(st, main.tables, Scope(p), where + 1).is = TRUE
  IN  {[i \in DOMAIN cols |-> Scope(p)[cols[i][1]][cols[i][2]]] : p \in {p \in pairs \cup alone : Kept(p)}}

(* The sequences an ordered SELECT may answer with.  PostgreSQL puts NULL   *)
(* last, the others first; rows that ORDER BY does not tell apart come in   *)
(* any order.                                                               *)
Rank(v) == IF v # Null THEN v ELSE IF dialect = "postgres" THEN 1000 ELSE -1

Before(order, x, y) ==
  \E k \in DOMAIN order :
    /\ LET o == order[k]
       IN  IF o.desc THEN Rank(x[o.col]) > Rank(y[o.col]) ELSE Rank(x[o.col]) < Rank(y[o.col])
    /\ \A m \in 1..(k - 1) : x[order[m].col] = y[order[m].col]

Answers(q) ==
  LET found == Matching(ToSql(q), [parents |-> rows, children |-> Children])
      sorted == {s \in SetToSeqs(found) :
                   \A i, j \in DOMAIN s : i < j => ~Before(q.order, s[j], s[i])}
      skip == IF q.offset = Null THEN 0 ELSE q.offset
      last == IF q.limit = Null THEN Cardinality(found) ELSE Min({Cardinality(found), skip + q.limit})
  IN  {SubSeq(s, skip + 1, last) : s \in sorted}

-----------------------------------------------------------------------------
(* The builder's calls.                                                     *)

Call ==
  /\ walk.kind = "none"
  /\ calls < MaxCalls
  /\ calls' = calls + 1
  /\ UNCHANGED <<dialect, rows, walk>>

(* An expression over a CTE is for a query that has it.                     *)
Usable(e) == (e.kind = "in_query" /\ ~SoftDeletable(e.table)) => query.ctes # << >>

Filter(e) ==
  /\ Usable(e)
  /\ query' = [query EXCEPT !.filter = AndNode(<<@, Node(dialect, "parents", e)>>)]
  /\ asked' = [asked EXCEPT !.where = [kind |-> "all", of |-> <<@, e>>]]
  /\ Call

OrFilter(e) ==
  /\ Usable(e)
  /\ query' = [query EXCEPT !.filter = OrNode(<<@, Node(dialect, "parents", e)>>)]
  /\ asked' = [asked EXCEPT !.where = [kind |-> "any", of |-> <<@, e>>]]
  /\ Call

WithDeleted ==
  /\ query' = [query EXCEPT !.with_deleted = TRUE, !.only_deleted = FALSE]
  /\ UNCHANGED asked
  /\ Call

OnlyDeleted ==
  /\ query' = [query EXCEPT !.with_deleted = FALSE, !.only_deleted = TRUE]
  /\ UNCHANGED asked
  /\ Call

OrderBy(o) ==
  /\ query' = [query EXCEPT !.order = Append(@, o)]
  /\ UNCHANGED asked
  /\ Call

(* with(): the CTE is a query of the same model, compiled by itself.        *)
With(e) ==
  /\ query.ctes = << >>
  /\ LET body == [New EXCEPT !.filter = AndNode(<<@, Node(dialect, "parents", e)>>)]
     IN  query' = [query EXCEPT !.ctes = Append(@, [name |-> "recent", compiled |-> ToSql(body)])]
  /\ asked' = [asked EXCEPT !.ctes = Append(@, e)]
  /\ Call

-----------------------------------------------------------------------------
(* Reading page by page.                                                    *)

IdAsc == [col |-> "id", desc |-> FALSE]
IdDesc == [col |-> "id", desc |-> TRUE]

(* Mutant: no tiebreaker.                                                   *)
PageQuery_NoTiebreak(q, size, from) == [q EXCEPT !.limit = size + 1, !.offset = from]

(* SelectQuery::page: one row more than asked for, and the primary key as   *)
(* the last thing to order by.                                              *)
PageQuery(q, size, from) ==
  [q EXCEPT !.order = Append(@, IdAsc), !.limit = size + 1, !.offset = from]

HasNext(size, items) == Len(items) > size

IdAfter(op, id) == [kind |-> "cmp", col |-> "id", op |-> op, val |-> id]

(* Mutant: the row at the cursor comes again.                               *)
CursorQuery_Inclusive(q, op, from, n) ==
  [q EXCEPT !.filter = AndNode(<<@, Node(dialect, "parents", IdAfter(IF op = ">" THEN ">=" ELSE "<=", from))>>),
            !.order = Append(@, IF op = ">" THEN IdAsc ELSE IdDesc),
            !.limit = n]

(* SelectQuery::after and before, on the primary key.                       *)
CursorQuery(q, op, from, n) ==
  [q EXCEPT !.filter = AndNode(<<@, Node(dialect, "parents", IdAfter(op, from))>>),
            !.order = Append(@, IF op = ">" THEN IdAsc ELSE IdDesc),
            !.limit = n]

IdsOf(items) == [i \in DOMAIN items |-> items[i].id]

MatchingIds(q, table) ==
  {r.id : r \in Matching(ToSql(q), [parents |-> table, children |-> Children])}

StartPages(table, size) ==
  /\ walk.kind = "none" /\ calls <= WalkCalls
  /\ rows' = table
  /\ walk' = [NoWalk EXCEPT !.kind = "pages", !.size = size, !.stable = MatchingIds(query, table)]
  /\ UNCHANGED <<dialect, query, asked, calls>>

NextPage ==
  /\ walk.kind = "pages" /\ ~walk.done
  /\ \E items \in Answers(PageQuery(query, walk.size, walk.from)) :
       LET more == HasNext(walk.size, items)
           kept == IF more THEN SubSeq(items, 1, walk.size) ELSE items
       IN  walk' = [walk EXCEPT !.seen = @ \o IdsOf(kept), !.from = @ + walk.size, !.done = ~more]
  /\ UNCHANGED <<dialect, query, asked, calls, rows>>

(* A cursor presupposes that nothing else orders the query.                 *)
StartCursor(table, op, size) ==
  /\ walk.kind = "none" /\ calls <= WalkCalls
  /\ query.order = << >>
  /\ rows' = table
  /\ walk' = [NoWalk EXCEPT !.kind = op, !.size = size, !.stable = MatchingIds(query, table),
                            !.from = IF op = ">" THEN 0 ELSE 1000]
  /\ UNCHANGED <<dialect, query, asked, calls>>

NextCursor ==
  /\ walk.kind \in {">", "<"} /\ ~walk.done
  /\ \E items \in Answers(CursorQuery(query, walk.kind, walk.from, walk.size)) :
       walk' = [walk EXCEPT !.seen = @ \o IdsOf(items),
                            !.from = IF items = << >> THEN @ ELSE Last(items).id,
                            !.done = Len(items) < walk.size]
  /\ UNCHANGED <<dialect, query, asked, calls, rows>>

(* Another client inserts or deletes a row while the caller walks.          *)
Other ==
  /\ walk.kind # "none" /\ ~walk.done
  /\ walk.others < MaxOther
  /\ \/ \E r \in Arrivals : (\A s \in rows : s.id # r.id) /\ rows' = rows \cup {r}
     \/ \E r \in rows : rows' = rows \ {r}
  /\ walk' = [walk EXCEPT !.others = @ + 1,
                          !.stable = @ \cap MatchingIds(query, rows')]
  /\ UNCHANGED <<dialect, query, asked, calls>>

Next ==
  \/ \E e \in FilterArgs : Filter(e) \/ OrFilter(e)
  \/ WithDeleted
  \/ OnlyDeleted
  \/ \E o \in Orders : OrderBy(o)
  \/ \E e \in CteArgs : With(e)
  \/ \E table \in Tables, size \in Sizes :
       StartPages(table, size) \/ \E op \in {">", "<"} : StartCursor(table, op, size)
  \/ NextPage
  \/ NextCursor
  \/ Other

Spec == Init /\ [][Next]_vars
-----------------------------------------------------------------------------
(* Properties.                                                              *)

TypeOK ==
  /\ dialect \in Dialects
  /\ ~(query.with_deleted /\ query.only_deleted)
  /\ calls \in 0..MaxCalls
  /\ {r.id : r \in rows} \subseteq Ids
  /\ walk.kind \in {"none", "pages", ">", "<"}
  /\ ToSet(walk.seen) \subseteq Ids

(* Every row there could be, as the database and as the reference see it.   *)
Database == [parents |-> Universe, children |-> Children]

Reference ==
  IF asked.ctes = << >> THEN Database
  ELSE ("recent" :> {r \in Universe : IsLive("parents", r) /\ Means(asked.ctes[1], r, Database) = TRUE})
       @@ Database

Wanted(r) == query.with_deleted \/ (r.deleted_at # Null) = query.only_deleted

AskedRows ==
  LET tables == Reference
  IN  {r \in Universe : Wanted(r) /\ Means(asked.where, r, tables) = TRUE}

(* Each form of a query chooses exactly the    *)
(* rows its builder calls say, for every order of filter, or_filter,        *)
(* with_deleted, only_deleted and with: parentheses and placeholders are    *)
(* where they must be, no deleted row is chosen that was not asked for, and *)
(* count, exists and aggregate, compiled by functions of their own, range   *)
(* over the rows the query returns (query.rs:548, 576, 685, 729).           *)
AloneMeansCalls ==
  walk.kind = "none" =>
    LET asked_for == AskedRows
    IN /\ Matching(ToSql(query), Database) = asked_for
       /\ Matching(CountSql(query), Database) = asked_for
       /\ Matching(ExistsSql(query), Database) = asked_for
       /\ Matching(AggregateSql(Aggregate(query)), Database) = asked_for

(* A union, intersection or difference with another query is that of the    *)
(* two results, although the second's placeholders and everything behind a  *)
(* WITH are renumbered, twice for the second.                               *)
CombinedMeansBoth ==
  walk.kind = "none" =>
    LET L == AskedRows
    IN  \A e \in CteArgs, op \in SetOps :
      LET other == [New EXCEPT !.filter = AndNode(<<@, Node(dialect, "parents", e)>>)]
          R == {r \in Universe : IsLive("parents", r) /\ Means(e, r, Database) = TRUE}
      IN  Combined(SetOpSql(op, query, other), Database) =
            CASE op = "UNION" -> L \cup R
              [] op = "INTERSECT" -> L \cap R
              [] op = "EXCEPT" -> L \ R

(* What a join lets through that its caller did not ask for: in a RIGHT or  *)
(* FULL JOIN the predicate in ON only makes a deleted child one without a   *)
(* parent, and nothing in WHERE takes it out (query.rs:581-592), although   *)
(* model.rs:171-173 wants the predicate to keep deleted rows from leaking   *)
(* through the right side of a join.                                        *)
LeakedChildren(kind) ==
  IF kind \in MaybeLeft /\ ~query.with_deleted
  THEN {<<NoRow, c>> : c \in {c \in Children : c.deleted_at # Null}} ELSE {}

(* A join, read back by position into pairs of models, pairs the rows asked *)
(* for with their live children; the outer kinds keep, with None for a      *)
(* partner, a row whose children are all deleted and a live child without a *)
(* parent, live or deleted, also when most of its columns are NULL.  No     *)
(* deleted child is there unless with_deleted asks for it                   *)
(* (model.rs:171-173), apart from LeakedChildren; what the caller filters   *)
(* is judged on NULLs where there is no parent (query.rs:580, join.rs:83).  *)
JoinMeansCalls ==
  walk.kind = "none" =>
    LET L == AskedRows
        Shown == {c \in Children : query.with_deleted \/ c.deleted_at = Null}
        Kids(l) == {c \in Shown : c.fk = l.id}
        paired == UNION {{<<l, c>> : c \in Kids(l)} : l \in L}
        childless == {<<l, NoRow>> : l \in {l \in L : Kids(l) = {}}}
        strays == IF Wanted(NoRow) /\ Means(asked.where, NoRow, Reference) = TRUE
                  THEN {<<NoRow, c>> : c \in Shown \ UNION {Kids(l) : l \in Universe}} ELSE {}
    IN  \A kind \in JoinKinds, alias \in Aliases :
          {DecodeJoin(kind, row) : row \in Joined(JoinSql(query, kind, alias), Database)}
              \ LeakedChildren(kind) =
            paired \cup (IF kind \in MaybeRight THEN childless ELSE {})
                   \cup (IF kind \in MaybeLeft THEN strays ELSE {})

(* The state is well typed, and every SQL a query is compiled into means    *)
(* what its builder calls say, alone, combined and joined, apart from the   *)
(* deleted children that a RIGHT or FULL JOIN lets through (query.rs:548,   *)
(* 576, 685, 729; compile.rs:163, 188, 269; join.rs:244).                   *)
FormsMeanCalls == TypeOK /\ AloneMeansCalls /\ CombinedMeansBoth /\ JoinMeansCalls

Distinct(s) == Cardinality(ToSet(s)) = Len(s)

(* As long as nobody else writes, the pages hold no row twice, and once     *)
(* has_next is false they have held every row, however many rows the        *)
(* caller's ordering does not tell apart.                                   *)
PagesExact ==
  walk.kind = "pages" /\ walk.others = 0 =>
    /\ Distinct(walk.seen)
    /\ walk.done => ToSet(walk.seen) = walk.stable
    /\ ~walk.done => Len(walk.seen) < Cardinality(walk.stable) \/ walk.stable = {}

(* A walk by cursor returns no row twice and misses none that was there all *)
(* the time, whatever other clients insert and delete meanwhile.            *)
CursorExact ==
  walk.kind \in {">", "<"} =>
    /\ Distinct(walk.seen)
    /\ walk.done => walk.stable \subseteq ToSet(walk.seen)

(* Walks by page and by cursor return every row that stays, once, for every *)
(* ordering and page size (query.rs:193, 893-919).                          *)
WalksExact == PagesExact /\ CursorExact
=============================================================================

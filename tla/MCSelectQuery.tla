---------------------------- MODULE MCSelectQuery ----------------------------
(***************************************************************************)
(* Small instance of SelectQuery.                                          *)
(***************************************************************************)
EXTENDS SelectQuery

MCDialects == {"sqlite", "postgres", "mysql"}
MCIds == 1..5

Row(id, a, deleted_at) == [id |-> id, fk |-> Null, a |-> a, deleted_at |-> deleted_at]

(* Every combination of a value, no value, live and deleted, and of these   *)
(* with a few keys.                                                         *)
MCUniverse ==
  {Row(1, 1, Null), Row(3, 2, Null), Row(3, Null, Null),
   Row(1, 2, 9), Row(2, 2, Null), Row(3, 1, 9), Row(4, Null, 9), Row(4, 1, Null)}

(* 1 has no child, 2 a live one, 3 a live and a deleted one, 4 a deleted    *)
(* one and one without a value.                                             *)
Child(id, fk, a, deleted_at) == [id |-> id, fk |-> fk, a |-> a, deleted_at |-> deleted_at]
MCChildren ==
  {Child(11, 2, 1, Null), Child(12, 3, 2, Null), Child(13, 3, 1, 9),
   Child(14, 4, 1, 9), Child(15, 4, Null, Null)}

Eq(v) == [kind |-> "cmp", col |-> "a", op |-> "=", val |-> v]
Cmp(op, v) == [kind |-> "cmp", col |-> "a", op |-> op, val |-> v]
IdGt(v) == [kind |-> "cmp", col |-> "id", op |-> ">", val |-> v]
IsNull(negated) == [kind |-> "null", col |-> "a", negated |-> negated]
In(vals, negated) == [kind |-> "in", col |-> "id", vals |-> vals, negated |-> negated]
AllOf(of) == [kind |-> "all", of |-> of]
AnyOf(of) == [kind |-> "any", of |-> of]
No(of) == [kind |-> "not", of |-> of]
Rel(kind, of) == [kind |-> kind, of |-> of]
InQuery(table, get, of, negated) ==
  [kind |-> "in_query", col |-> "id", table |-> table, get |-> get, of |-> of, negated |-> negated]

(* One of each constructor, and the nestings that need parentheses.         *)
MCFilterArgs ==
  {Eq(1),
   AllOf(<<Cmp(">=", 1), AnyOf(<<IdGt(2), IsNull(FALSE)>>)>>),
   AnyOf(<<AllOf(<<Eq(2), IdGt(1)>>), IsNull(FALSE)>>),
   No(AnyOf(<<Eq(1), IdGt(3)>>)),
   AnyOf(<< >>),
   In(<<1, 3>>, TRUE),
   Rel("some", Eq(1)),
   Rel("none", AnyOf(<<Eq(1), Eq(2)>>)),
   Rel("every", AnyOf(<<Eq(1), IdGt(14)>>)),
   InQuery("children", "fk", AnyOf(<<Eq(1), Eq(2)>>), FALSE),
   InQuery("recent", "id", Cmp("<", 2), TRUE)}

MCCteArgs ==
  {AllOf(<<IdGt(1), [kind |-> "between", col |-> "a", lo |-> 1, hi |-> 2]>>),
   AnyOf(<<Eq(2), IsNull(FALSE)>>)}

MCOrders == {[col |-> "a", desc |-> FALSE], [col |-> "a", desc |-> TRUE]}

(* Equal keys, keys without a value, a deleted row, room for another row.   *)
MCTables ==
  {{Row(1, 1, Null), Row(2, 1, Null), Row(3, Null, Null), Row(4, 2, Null)},
   {Row(1, Null, Null), Row(3, 1, Null), Row(5, 1, 9)}}

(* Between and behind the rows of the first, before some of the second.     *)
MCArrivals == {Row(4, 1, Null), Row(2, 1, Null)}
=============================================================================

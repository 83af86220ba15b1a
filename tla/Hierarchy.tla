------------------------------ MODULE Hierarchy ------------------------------
(***************************************************************************)
(* Queries over a table whose rows refer to a parent row of the same table *)
(* (crates/runtime/src/hierarchy.rs) and the tree_from_root that is        *)
(* generated for such a model (crates/codegen/src/emit.rs:2133-2270).      *)
(*                                                                         *)
(* A table is [parent, deleted]: a row's key to the key it refers to, Null *)
(* or a key that may not exist, and the soft-deleted keys.  Cycles happen. *)
(* A recursive CTE yields its rows level by level, as the three databases  *)
(* do; the statement does not ask for it.                                  *)
(***************************************************************************)
EXTENDS Call, Naturals, FiniteSets, SequencesExt

CONSTANT DepthCap  \* DEFAULT_DEPTH_CAP: 100 in the code

Rows(t) == DOMAIN t.parent

NewQuery(start, direction) ==
  [start |-> start, direction |-> direction, max_depth |-> Null, order |-> "", cycle_protection |-> TRUE,
   with_deleted |-> FALSE]

(* What the WHERE clauses of to_sql keep.                                   *)
Live(q, t) == IF q.with_deleted THEN Rows(t) ELSE Rows(t) \ t.deleted

\* Bug: the cap applies to a query that asked for none.
Limit_AlwaysCapped(q, t) == IF q.max_depth # Null THEN q.max_depth ELSE DepthCap

(* How deep the recursion may go; without a condition on the depth it ends  *)
(* with the table, if that has no cycle, and otherwise not at all.          *)
Limit(q, t) ==
  IF q.max_depth # Null THEN q.max_depth ELSE IF q.cycle_protection THEN DepthCap ELSE Cardinality(Rows(t))

\* Bug: only the row one comes from is not stepped onto.
Steps_NotBack(q, t, h) ==
  {c \in Live(q, t) : /\ IF q.direction = "descendants" THEN t.parent[c] = h.key ELSE t.parent[h.key] = c
                      /\ q.cycle_protection => c # Last(h.path)}
\* Bug: soft-deleted rows are left out of the result, and walked through.
Steps_ThroughDeleted(q, t, h) ==
  {c \in Rows(t) : /\ IF q.direction = "descendants" THEN t.parent[c] = h.key ELSE t.parent[h.key] = c
                   /\ q.cycle_protection => c \notin ToSet(h.path)}

Steps(q, t, h) ==
  {c \in Live(q, t) : /\ IF q.direction = "descendants" THEN t.parent[c] = h.key ELSE t.parent[h.key] = c
                      /\ q.cycle_protection => c \notin ToSet(h.path)}

(* The levels of the recursive CTE: the anchor, and what one more step      *)
(* yields from each row of the level before.                                *)
Walk(q, t) ==
  LET anchor == IF q.start \in Live(q, t) THEN <<[key |-> q.start, depth |-> 0, path |-> <<q.start>>]>> ELSE << >>
      From(h) == LET next == SetToSortSeq(Steps(q, t, h), <)
                 IN  [i \in DOMAIN next |-> [key |-> next[i], depth |-> h.depth + 1, path |-> Append(h.path, next[i])]]
      level[d \in 0..Limit(q, t)] ==
        IF d = 0 THEN anchor ELSE FlattenSeq([i \in DOMAIN level[d - 1] |-> From(level[d - 1][i])])
  IN  FlattenSeq([i \in 1..(Limit(q, t) + 1) |-> level[i - 1]])

(* ORDER BY __depth, over rows that come in the order of their depth.       *)
All(q, t) ==
  LET rows == Walk(q, t)
      keys == [i \in DOMAIN rows |-> rows[i].key]
      deepest == SetToSortSeq(DOMAIN rows, LAMBDA i, j : rows[i].depth > rows[j].depth
                                                         \/ (rows[i].depth = rows[j].depth /\ i < j))
  IN  IF q.order = "desc" THEN [i \in DOMAIN keys |-> keys[deepest[i]]] ELSE keys

-----------------------------------------------------------------------------
(* A tree in pre-order: <<key, depth>>, a node before its children.         *)

(* from_flat: the descendants are listed by parent, and a list is taken     *)
(* when its parent is reached.                                              *)
FromFlat(root, descendants, parent) ==
  LET ChildrenOf(key) == SelectSeq(descendants, LAMBDA d : parent[d] = key)
      build[n \in 0..Len(descendants), key \in {root} \cup ToSet(descendants), depth \in 0..Len(descendants)] ==
        <<[key |-> key, depth |-> depth]>>
        \o IF n = 0 THEN << >>
           ELSE LET kids == ChildrenOf(key)
                IN  FlattenSeq([i \in DOMAIN kids |-> build[n - 1, kids[i], depth + 1]])
  IN  build[Len(descendants), root, 0]

\* Bug: the root is not taken out of its own descendants.
TreeFromRoot_KeepsRoot(root_id, t, u) ==
  LET found == All([NewQuery(root_id, "ancestors") EXCEPT !.max_depth = 1], t)
  IN  IF found = << >> THEN << >>
      ELSE FromFlat(found[1], All(NewQuery(root_id, "descendants"), u), u.parent)

(* tree_from_root: the root by one statement, on table t, its descendants   *)
(* by a second, on table u; << >> is the error "Tree root entity not found".*)
TreeFromRoot(root_id, t, u) ==
  LET found == All([NewQuery(root_id, "ancestors") EXCEPT !.max_depth = 1], t)
      root == found[1]
      descendants == SelectSeq(All(NewQuery(root_id, "descendants"), u), LAMBDA d : d # root)
  IN  IF found = << >> THEN << >> ELSE FromFlat(root, descendants, u.parent)

Query == Called("hierarchy") /\ Return(All(argument.query, argument.table))
Tree == Called("tree") /\ Return(TreeFromRoot(argument.root, argument.before, argument.after))

-----------------------------------------------------------------------------
(* Properties.                                                              *)

(* The reference: the k-th row above a row, and the rows between them.      *)
Above(t, key, k) ==
  LET up[i \in 0..k] == IF i = 0 THEN key ELSE IF up[i - 1] \in Rows(t) THEN t.parent[up[i - 1]] ELSE Null
  IN  up[k]

Chain(t, key, k) == {Above(t, key, i) : i \in 0..k}

(* The rows k steps away, none of them on the way twice.                    *)
AtDistance(t, live, start, direction, k) ==
  IF direction = "ancestors"
  THEN {Above(t, start, k)} \cap {n \in live : /\ Chain(t, start, k) \subseteq live
                                               /\ Cardinality(Chain(t, start, k)) = k + 1}
  ELSE {n \in live : /\ Above(t, n, k) = start /\ Chain(t, n, k) \subseteq live
                     /\ Cardinality(Chain(t, n, k)) = k + 1}

Distances(t, live, start, direction, most) ==
  UNION {{<<n, k>> : n \in AtDistance(t, live, start, direction, k)} : k \in 0..most}

(* A hierarchy query returns the rows that lie above or below its start, up *)
(* to its depth, each once although parents may form cycles, and nothing    *)
(* that is reached only through a soft-deleted row; ordered by depth if     *)
(* asked (hierarchy.rs:258-358).  Without cycle protection there is no cap, *)
(* and rows of a cycle may come again, but none comes that should not.      *)
WalkExact ==
  Returned("hierarchy") =>
    LET q == argument.query
        t == argument.table
        depths == {k \in 0..Cardinality(Rows(t)) : IF q.max_depth # Null THEN k <= q.max_depth
                                                   ELSE q.cycle_protection => k <= DepthCap}
        wanted == {w \in Distances(t, Live(q, t), q.start, q.direction, Cardinality(Rows(t))) : w[2] \in depths}
        keys == {w[1] : w \in wanted}
        DepthOf(n) == (CHOOSE w \in wanted : w[1] = n)[2]
    IN  /\ ToSet(answer) = keys
        /\ q.cycle_protection => /\ Len(answer) = Cardinality(keys)
                                 /\ \A i, j \in DOMAIN answer : i < j /\ q.order # "" =>
                                      IF q.order = "asc" THEN DepthOf(answer[i]) <= DepthOf(answer[j])
                                      ELSE DepthOf(answer[i]) >= DepthOf(answer[j])

(* The tree read from a root hangs every descendant, once, under the parent *)
(* it had when the descendants were read, at its distance, even if the root *)
(* was moved between the two statements, or lies on a cycle; a tree is      *)
(* returned whenever the root was there to be read (emit.rs:2176-2231,      *)
(* hierarchy.rs:73-110).                                                    *)
TreeIsWhole ==
  Returned("tree") =>
    LET t == argument.before
        u == argument.after
        below == Distances(u, Rows(u) \ u.deleted, argument.root, "descendants", DepthCap)
        nodes == {<<answer[i].key, answer[i].depth>> : i \in DOMAIN answer}
    IN  /\ (answer = << >>) = (argument.root \notin Rows(t) \ t.deleted)
        /\ answer # << >> =>
             /\ nodes = below \cup {<<argument.root, 0>>} /\ Len(answer) = Cardinality(nodes)
             /\ \A i \in 2..Len(answer) : \E j \in 1..(i - 1) :
                  /\ answer[j].key = u.parent[answer[i].key] /\ answer[j].depth + 1 = answer[i].depth
                  /\ \A k \in (j + 1)..i : answer[k].depth > answer[j].depth

(* What is read of a hierarchy is what the table says of it: walked by one  *)
(* query or put together as a tree.                                         *)
HierarchyExact == WalkExact /\ TreeIsWhole
=============================================================================

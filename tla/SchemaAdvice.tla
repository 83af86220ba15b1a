---------------------------- MODULE SchemaAdvice ----------------------------
(***************************************************************************)
(* What ruprizzle migrate reads from two schemas beside their difference:  *)
(* the columns that may have been renamed (crates/migrate/src/rename.rs),  *)
(* and whether a foreign key of the plan is on a cycle, so that the plan   *)
(* has to defer the checks (crates/migrate/src/plan.rs:641-972).           *)
(*                                                                         *)
(* Schemas and their differences are those of SchemaDiff; a relation is    *)
(* known by its owner and column.  The names of fields are sequences of    *)
(* letters, as in SqlText.                                                 *)
(***************************************************************************)
EXTENDS SqlText, FiniteSets, TLC

LOCAL D == INSTANCE SchemaDiff WITH None <- Null, Literal <- "literal", Client <- "client"
LOCAL R == INSTANCE Relation

-----------------------------------------------------------------------------
(* Renames.  p and n are a model before and after; a type is a scalar type, *)
(* an enum, or a list of either, which is never taken for another's.        *)

SameKind(f, g) == f.type = g.type /\ f.type # "list"

CommonPrefix(a, b) ==
  LET differing == {i \in DOMAIN a \cap DOMAIN b : ~SameLetter(a[i], b[i])}
  IN  IF differing = {} THEN Smallest({Len(a), Len(b)}) ELSE Smallest(differing) - 1

Within(b, a) == \E i \in 0 .. Len(a) - Len(b) : \A j \in DOMAIN b : SameLetter(a[i + j], b[j])

(* The distance of SqlText, from a single row.                              *)
Distance(a, b) == Levenshtein(a, b)

NameSimilarity(a, b) ==
  LET distance == Distance(a, b)
      longest == IF Len(a) > Len(b) THEN Len(a) ELSE Len(b)
  IN  CASE distance = 0 -> 3
        [] distance > 0 /\ (distance * 2 <= longest \/ Within(a, b) \/ Within(b, a)) -> 2
        [] OTHER -> IF CommonPrefix(a, b) >= 3 THEN 1 ELSE 0

(* Mutant: any column may have become any other.                            *)
CandidateScore_AnyKind(p, n, old, new) ==
  3 + (IF p.fields[old].optional = n.fields[new].optional THEN 1 ELSE 0)
    + (IF p.fields[old].default = n.fields[new].default THEN 1 ELSE 0) + NameSimilarity(old, new)

CandidateScore(p, n, old, new) ==
  IF ~SameKind(p.fields[old], n.fields[new]) THEN 0
  ELSE 3 + (IF p.fields[old].optional = n.fields[new].optional THEN 1 ELSE 0)
         + (IF p.fields[old].default = n.fields[new].default THEN 1 ELSE 0) + NameSimilarity(old, new)

AreUnambiguous(p, n) == Cardinality(D!AddedColumns(p, n)) = 1 /\ Cardinality(D!DroppedColumns(p, n)) = 1

Candidates(p, n, new) ==
  {old \in D!DroppedColumns(p, n) :
     LET score == CandidateScore(p, n, old, new)
     IN  score >= 6 \/ (score >= 4 /\ AreUnambiguous(p, n))}

(* Mutant: the first of the candidates.                                     *)
BestCandidate_First(p, n, order, candidates, new) == order[SelectInSeq(order, LAMBDA f : f \in candidates)]

(* The last of the best, in the order in which p declares its fields.       *)
BestCandidate(p, n, order, candidates, new) ==
  LET best == {f \in candidates : \A g \in candidates : CandidateScore(p, n, g, new) <= CandidateScore(p, n, f, new)}
  IN  order[SelectLastInSeq(order, LAMBDA f : f \in best)]

\* From what each of the added columns may have been renamed.
SuggestRenames(p, n, order) ==
  [new \in {f \in D!AddedColumns(p, n) : Candidates(p, n, f) # {}} |->
     BestCandidate(p, n, order, Candidates(p, n, new), new)]

(* What migrate dev asks for: @renamedFrom on the new field.                *)
Confirmed(n, new, old) == [n EXCEPT !.fields[new].from = old]

SuggestRename ==
  /\ Called("rename")
  /\ Return(SuggestRenames(argument.prev, argument.next, argument.order))

-----------------------------------------------------------------------------
(* Cycles.  A graph maps each model to the targets of its relations, in the *)
(* order in which a model declares its columns.                             *)

FkGraph(s, columns) ==
  [m \in DOMAIN s |->
     LET owned == SelectSeq(columns, LAMBDA f : f \in DOMAIN s[m].refs)
     IN  [i \in DOMAIN owned |-> s[m].refs[owned[i]].target]]

NoneVisited == [index |-> 0, stack |-> << >>, indices |-> << >>, lowlinks |-> << >>, sccs |-> {}]

LowerLink(st, v, n) == [st EXCEPT !.lowlinks[v] = Smallest({@, n})]

(* Mutant: a model of a component that is complete counts as well.          *)
Met_Complete(st, v, w) == LowerLink(st, v, st.indices[w])

Met(st, v, w) == IF w \in ToSet(st.stack) THEN LowerLink(st, v, st.indices[w]) ELSE st

Enter(st, v) ==
  [st EXCEPT !.indices = (v :> st.index) @@ @, !.lowlinks = (v :> st.index) @@ @,
             !.index = @ + 1, !.stack = Append(@, v)]

Complete(st, v) ==
  LET at == SelectInSeq(st.stack, LAMBDA w : w = v)
  IN  [st EXCEPT !.stack = SubSeq(@, 1, at - 1), !.sccs = @ \cup {ToSet(SubSeq(st.stack, at, Len(st.stack)))}]

RECURSIVE StrongConnect(_, _, _)
StrongConnect(graph, st, v) ==
  LET Visit(before, w) ==
        IF w \in DOMAIN before.indices THEN Met(before, v, w)
        ELSE LET after == StrongConnect(graph, before, w) IN LowerLink(after, v, after.lowlinks[w])
      visited == FoldLeft(Visit, Enter(st, v), graph[v])
  IN  IF visited.lowlinks[v] = visited.indices[v] THEN Complete(visited, v) ELSE visited

(* order is that of the keys of a hash map: any.                            *)
TarjanScc(graph, order) ==
  FoldLeft(LAMBDA st, v : IF v \in DOMAIN st.indices THEN st ELSE StrongConnect(graph, st, v),
           NoneVisited, SelectSeq(order, LAMBDA m : m \in DOMAIN graph)).sccs

FkCycles(graph, order) ==
  {scc \in TarjanScc(graph, order) : Cardinality(scc) > 1 \/ \E m \in scc : m \in ToSet(graph[m])}

DetectCycles(s, columns, order) ==
  LET cycles == FkCycles(FkGraph(s, columns), order)
      within == {r \in D!Relations(s) : \E scc \in cycles : {r.owner, r.target} \subseteq scc}
  IN  [models |-> UNION cycles, relations |-> {<<r.owner, r.column>> : r \in within}]

(* What a change of p to n names: fields and columns, and of a dropped      *)
(* column only the column.                                                  *)
Touched(p, n) ==
  LET changed == D!AlteredColumns(p, n) \cup D!Renamed(p, n) \cup D!Moved(p, n)
      after == changed \cup D!AddedColumns(p, n)
      before == {D!Origin(p, n, f) : f \in changed}
  IN  after \cup {n.fields[f].column : f \in after} \cup before
      \cup {p.fields[f].column : f \in before \cup D!DroppedColumns(p, n)}

(* Mutant: columns do not matter.                                           *)
AffectsCycle_Columns(prev, next, cycle) ==
  \/ (D!Created(prev, next) \cup D!Dropped(prev, next)) \cap cycle.models # {}
  \/ \E r \in D!AddedRelations(prev, next) \cup D!DroppedRelations(prev, next) : <<r.owner, r.column>> \in cycle.relations

AffectsCycle(prev, next, cycle) ==
  \/ (D!Created(prev, next) \cup D!Dropped(prev, next)) \cap cycle.models # {}
  \/ \E m \in D!Common(prev, next) : \E c \in Touched(prev[m], next[m]) : <<m, c>> \in cycle.relations
  \/ \E r \in D!AddedRelations(prev, next) \cup D!DroppedRelations(prev, next) : <<r.owner, r.column>> \in cycle.relations

(* A plan down leads from the schema it takes back to the one before.       *)
NeedsDefer(provider, down, prev, next, columns, order) ==
  /\ ~(down /\ provider = "postgres")
  /\ AffectsCycle(prev, next, DetectCycles(IF down THEN prev ELSE next, columns, order))

(* The settings that a plan changes first, and those it changes last.       *)
DeferPreamble(provider, down) ==
  CASE provider = "mysql" -> {<<"foreign_key_checks", "off">>}
    [] provider = "postgres" -> {<<"constraints", "deferred">>}
    [] provider = "sqlite" -> {IF down THEN <<"foreign_keys", "off">> ELSE <<"defer_foreign_keys", "on">>}
DeferPostamble(provider, down) ==
  CASE provider = "mysql" -> {<<"foreign_key_checks", "on">>}
    [] provider = "postgres" -> {<<"constraints", "immediate">>}
    [] provider = "sqlite" -> {IF down THEN <<"foreign_keys", "on">> ELSE <<"defer_foreign_keys", "off">>}

(* The tables dropped with all that refers to them.                         *)
Cascaded(provider, down, prev, next, columns, order) ==
  IF down /\ provider = "postgres" THEN D!Dropped(prev, next) \cap DetectCycles(prev, columns, order).models ELSE {}

PlanCycles ==
  LET a == argument
  IN  /\ Called("cycles")
      /\ \E order \in SetToSeqs(DOMAIN a.prev \cup DOMAIN a.next) :
           LET defer == NeedsDefer(a.provider, a.down, a.prev, a.next, a.columns, order)
           IN  Return([first |-> IF defer THEN DeferPreamble(a.provider, a.down) ELSE {},
                       last |-> IF defer THEN DeferPostamble(a.provider, a.down) ELSE {},
                       cascaded |-> Cascaded(a.provider, a.down, a.prev, a.next, a.columns, order)])

-----------------------------------------------------------------------------
(* Properties.                                                              *)

SameLetters(a, b) == Len(a) = Len(b) /\ \A i \in DOMAIN a : SameLetter(a[i], b[i])

(* A rename that is suggested can be confirmed: with the hint the column    *)
(* that would have been dropped stays, that which would have been added is  *)
(* that one, and its type is the same.  One that only changes capitals, or  *)
(* the only one there can be, is suggested (rename.rs:53).                  *)
RenamesLikely ==
  Returned("rename") =>
    LET p == argument.prev
        n == argument.next
    IN  /\ \A new \in DOMAIN answer :
             LET old == answer[new]
                 hinted == Confirmed(n, new, old)
             IN  /\ D!DroppedColumns(p, hinted) = D!DroppedColumns(p, n) \ {old}
                 /\ D!AddedColumns(p, hinted) = D!AddedColumns(p, n) \ {new}
                 /\ D!Origin(p, hinted, new) = old /\ p.fields[old].type = n.fields[new].type
        /\ \A new \in D!AddedColumns(p, n), old \in D!DroppedColumns(p, n) :
             p.fields[old].type = n.fields[new].type /\ n.fields[new].type # "list" =>
               /\ SameLetters(old, new) => new \in DOMAIN answer /\ SameLetters(answer[new], new)
               /\ AreUnambiguous(p, n) /\ p.fields[old].optional = n.fields[new].optional => new \in DOMAIN answer

(* The checks of foreign keys are deferred, and afterwards made, by exactly *)
(* the plans that touch a key through which a row can refer to itself by    *)
(* way of others, or a table at one of its ends; a plan down on Postgres    *)
(* drops just these tables with all that refers to them (plan.rs:826).      *)
CyclesDeferred ==
  Returned("cycles") =>
    LET a == argument
        s == IF a.down THEN a.prev ELSE a.next
        path == R!ReflexiveTransitiveClosure(
                  [x, y \in DOMAIN s |-> \E r \in D!Relations(s) : r.owner = x /\ r.target = y], DOMAIN s)
        cyclic == {r \in D!Relations(s) : path[r.target, r.owner]}
        Keys(t, r) == {k \in D!Relations(t) : k.owner = r.owner /\ k.column = r.column}
        Fields(t, r) == {<<f, t[r.owner].fields[f]>> :
                           f \in {f \in DOMAIN t[r.owner].fields : t[r.owner].fields[f].column = r.column}}
        Changed(r) ==
          IF {r.owner, r.target} \subseteq D!Common(a.prev, a.next)
          THEN Keys(a.prev, r) # Keys(a.next, r) \/ Fields(a.prev, r) # Fields(a.next, r)
          ELSE TRUE
        restricting == a.down /\ a.provider = "postgres"
    IN  /\ answer.first # {} <=> ~restricting /\ \E r \in cyclic : Changed(r)
        /\ {c[1] : c \in answer.first} = {c[1] : c \in answer.last} /\ answer.first \cap answer.last = {}
        /\ answer.cascaded = IF restricting THEN {m \in D!Dropped(a.prev, a.next) :
                                                   \E r \in cyclic : m \in {r.owner, r.target}}
                              ELSE {}

(* Text is read for what it is: a migration is cut into the statements that *)
(* were written (SplitExact), what a statement is taken to do, and to name, *)
(* is what it does and names, and what is suggested or deferred because of  *)
(* the text of the schema can be, and has to be.                            *)
TextReadRight == SplitExact /\ StatementsRead /\ Suggested /\ RenamesLikely /\ CyclesDeferred
=============================================================================

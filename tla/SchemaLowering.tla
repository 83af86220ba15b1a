--------------------------- MODULE SchemaLowering ---------------------------
(***************************************************************************)
(* The third pass of the schema parser and what is generated from it       *)
(* (crates/parser/src/lower.rs, validate.rs; crates/codegen/src/emit.rs):  *)
(* the ends of the relations as written, one field each, are paired; each  *)
(* pair becomes a ResolvedRelation; the generator makes of it the helpers  *)
(* that load and filter by the relation.                                   *)
(*                                                                         *)
(* A schema is a sequence of models, a model                               *)
(*   [name, table, fields, key, uniques, indexes]                          *)
(* with a sequence of fields                                               *)
(*   [name, column, type, arity, attrs, rel]                               *)
(* whose type is a scalar or a model.  "" stands for what is not written.  *)
(* Names come with their table or column, which naming.rs would derive.    *)
(***************************************************************************)
EXTENDS Call, Naturals, FiniteSets, SequencesExt, TLC

CONSTANT Alphabet  \* the names of models, in their order

Scalars == {"Int", "BigInt", "String", "Boolean", "Float", "Decimal", "DateTime", "Date", "Time", "Uuid", "Json", "Bytes"}
FieldAttrs == {"id", "unique", "updatedAt", "createdAt", "deletedAt", "ignore", "map", "relation",
               "default", "generated", "renamedFrom"}

NoRel == [name |-> "", through |-> "", fields |-> << >>, references |-> << >>, on_delete |-> ""]

-----------------------------------------------------------------------------
(* Reading a schema (core/src/ir.rs).                                       *)

Items(s) == ToSet(s)
Models(s) == {m.name : m \in Items(s)}
ModelOf(s, name) == s[SelectInSeq(s, LAMBDA m : m.name = name)]
FieldNames(m) == {f.name : f \in Items(m.fields)}
FieldOf(m, name) == m.fields[SelectInSeq(m.fields, LAMBDA f : f.name = name)]
FieldAt(s, at) == FieldOf(ModelOf(s, at.model), at.field)

Kind(f) == <<f.type, f.arity = "list">>
IsRelation(f) == f.type \notin Scalars
HasColumn(f) == ~IsRelation(f)
IsList(f) == f.arity = "list"
Owns(f) == f.rel.fields # << >>
Before(x, y) == SelectInSeq(Alphabet, LAMBDA n : n = x) <= SelectInSeq(Alphabet, LAMBDA n : n = y)

Diag(code, model, field) == [code |-> code, model |-> model, field |-> field]

-----------------------------------------------------------------------------
(* The first two passes: every model and field by itself.  A problem is     *)
(* recorded and the rest is lowered all the same.                           *)

When(problem, diag) == IF problem THEN {diag} ELSE {}

(* lower_primary_key: the block attribute wins.                             *)
InlineKeys(m) == SelectSeq(m.fields, LAMBDA f : "id" \in f.attrs)
PrimaryKey(m) == IF m.key # << >> THEN m.key
                 ELSE IF InlineKeys(m) # << >> THEN <<InlineKeys(m)[1].name>>
                 ELSE << >>

(* base_kind, check_attribute_targets, check_unknown_attributes.            *)
FieldDiags(s, m, f) ==
  LET navigates == IsRelation(f) \/ IsList(f)
      stamps == f.attrs \cap {"updatedAt", "createdAt", "deletedAt"}
      misplaced == (IF f.type = "DateTime" /\ ~navigates THEN {} ELSE stamps)
                   \cup (IF navigates THEN f.attrs \cap {"id", "generated"} ELSE {})
  IN  When(f.type \notin Scalars \cup Models(s), Diag("UnknownType", m.name, f.name))
      \cup When(misplaced # {}, Diag("InvalidAttributeTarget", m.name, f.name))
      \cup When(f.attrs \ FieldAttrs # {}, Diag("UnknownAttribute", m.name, f.name))

ModelDiags(s, m) ==
  UNION {FieldDiags(s, m, f) : f \in Items(m.fields)}
  \cup When(Len(InlineKeys(m)) > 1 \/ (m.key # << >> /\ InlineKeys(m) # << >>),
            Diag("MultiplePrimaryKeys", m.name, ""))
  \cup {Diag("DuplicateField", m.name, m.fields[i].name) :
          i \in {i \in DOMAIN m.fields : \E j \in 1..(i - 1) : m.fields[j].name = m.fields[i].name}}

(* A field of unknown type is lowered as a String.                          *)
Substituted(s) ==
  [i \in DOMAIN s |-> [s[i] EXCEPT !.fields =
     [j \in DOMAIN @ |-> IF @[j].type \in Scalars \cup Models(s) THEN @[j] ELSE [@[j] EXCEPT !.type = "String"]]]]

DeclDiags(s) ==
  UNION {ModelDiags(s, m) : m \in Items(s)}
  \cup {Diag("DuplicateDecl", s[i].name, "") :
          i \in {i \in DOMAIN s : \E j \in 1..(i - 1) : s[j].name = s[i].name}}

(* The rules of validate.rs, over the finished schema.                      *)
Indexable(m) == {f.name : f \in {g \in Items(m.fields) : HasColumn(g)}}

ValidateModel(m) ==
  LET targets == UNION {Items(t) : t \in Items(m.indexes) \cup Items(m.uniques)}
      columned == {i \in DOMAIN m.fields : HasColumn(m.fields[i])}
  IN  When(PrimaryKey(m) = << >>, Diag("MissingPrimaryKey", m.name, ""))
      \cup {Diag("UnknownIndexField", m.name, n) :
              n \in (Items(PrimaryKey(m)) \ FieldNames(m)) \cup (targets \ Indexable(m))}
      \cup {Diag("NameCollision", m.name, m.fields[i].name) :
              i \in {i \in columned : \E j \in columned : j < i /\ m.fields[j].column = m.fields[i].column}}

Validate(s) ==
  UNION {ValidateModel(m) : m \in Items(s)}
  \cup {Diag("NameCollision", s[i].name, "") :
          i \in {i \in DOMAIN s : \E j \in 1..(i - 1) : s[j].table = s[i].table}}

-----------------------------------------------------------------------------
(* The ends of the relations as written.                                    *)

IsJoinFkSide(m, target, f) ==
  f.rel.through = "" /\ Owns(f) /\ \E g \in Items(target.fields) : IsRelation(g) /\ g.rel.through = m.name

JoinModel(s, m, f) ==
  IF f.rel.through # "" THEN f.rel.through
  ELSE IF IsJoinFkSide(m, ModelOf(s, f.type), f) THEN m.name
  ELSE ""

(* Misplaced `through`: nothing that uses the same join model is paired.    *)
Poisoning(f) == IsRelation(f) /\ f.rel.through # "" /\ (~IsList(f) \/ Owns(f))
Poisoned(s) == UNION {{f.rel.through : f \in {g \in Items(m.fields) : Poisoning(g)}} : m \in Items(s)}

ThroughDiags(s) ==
  UNION {{Diag(IF IsList(f) THEN "ThroughWithFields" ELSE "ThroughOnNonList", m.name, f.name) :
            f \in {g \in Items(m.fields) : Poisoning(g)}} : m \in Items(s)}

SideOf(s, m, f) ==
  [model |-> m.name, field |-> f.name, target |-> f.type, rel_name |-> f.rel.name,
   join_model |-> JoinModel(s, m, f), is_owner |-> Owns(f) /\ f.rel.through = "",
   is_list |-> IsList(f), optional |-> f.arity = "optional"]

CollectSides(s) ==
  LET OfModel(m) ==
        LET ends == SelectSeq(m.fields, LAMBDA f : IsRelation(f) /\ ~Poisoning(f))
        IN  [i \in DOMAIN ends |-> SideOf(s, m, ends[i])]
  IN  SelectSeq(FlattenSeq([i \in DOMAIN s |-> OfModel(s[i])]),
                LAMBDA side : side.join_model \notin Poisoned(s) \ {""})

At(side) == [model |-> side.model, field |-> side.field]
Of(code, side) == Diag(code, side.model, side.field)

-----------------------------------------------------------------------------
(* A pair of ends becomes a relation.  An outcome holds the diagnostics,    *)
(* the relation of each field that has one, and the models and `through`s   *)
(* that were added.                                                         *)

NoOutcome == [diags |-> {}, resolved |-> << >>, models |-> << >>, through |-> << >>]
Problem(diag) == [NoOutcome EXCEPT !.diags = {diag}]
Both(x, y) ==
  [diags |-> x.diags \cup y.diags, resolved |-> x.resolved @@ y.resolved,
   models |-> x.models \o y.models, through |-> x.through @@ y.through]

Columns(m, names) == [i \in DOMAIN names |-> FieldOf(m, names[i]).column]
References(target, f) == IF f.rel.references = << >> THEN PrimaryKey(target) ELSE f.rel.references
IsUnique_AnyColumn(m, name) == HasColumn(FieldOf(m, name))
IsUnique(m, name) ==
  \/ name \in Items(PrimaryKey(m))
  \/ "unique" \in FieldOf(m, name).attrs
  \/ <<name>> \in Items(m.uniques)

(* build_relation, for the fields in `marks`.                               *)
BuildRelation(s, owner, back, marks) ==
  LET m == ModelOf(s, owner.model)
      target == ModelOf(s, owner.target)
      f == FieldOf(m, owner.field)
      refs == References(target, f)
      relation ==
        [kind |-> IF back # << >> /\ back[1].is_list THEN "ManyToOne" ELSE "OneToOne",
         owner |-> owner.model, owner_field |-> owner.field, owner_cols |-> Columns(m, f.rel.fields),
         target |-> owner.target, target_table |-> target.table,
         target_field |-> IF back # << >> THEN back[1].field ELSE "", target_cols |-> Columns(target, refs),
         on_delete |-> IF f.rel.on_delete # "" THEN f.rel.on_delete
                       ELSE IF owner.optional THEN "SetNull" ELSE "Restrict",
         optional |-> owner.optional, join_model |-> "", join_owner_field |-> "", join_target_field |-> ""]
      mismatched == {i \in DOMAIN refs : Kind(FieldOf(m, f.rel.fields[i])) # Kind(FieldOf(target, refs[i]))}
      required == {n \in Items(f.rel.fields) : FieldOf(m, n).arity # "optional"}
  IN  IF ~(Items(f.rel.fields) \subseteq Indexable(m)) THEN Problem(Of("UnknownRelationField", owner))
      ELSE IF \E n \in Items(refs) : n \notin FieldNames(target) \/ ~IsUnique(target, n)
        THEN Problem(Of("InvalidRelationTarget", owner))
      ELSE IF Len(f.rel.fields) # Len(refs) THEN Problem(Of("InvalidRelationTarget", owner))
      ELSE [NoOutcome EXCEPT
              !.diags = When(mismatched # {}, Of("RelationTypeMismatch", owner))
                        \cup When(owner.optional /\ required # {}, Of("RelationNullabilityMismatch", owner)),
              !.resolved = [at \in marks |-> relation]]

(* Two lists without a join model: one is made up, with the first column of *)
(* the key of each model (resolve_implicit_many_to_many).                   *)
JoinName(x, y, name) == "_" \o x \o "To" \o y \o (IF name = "" THEN "" ELSE "_" \o name)

JoinField(name, column, type, rel) ==
  [name |-> name, column |-> column, type |-> type, arity |-> "one", attrs |-> {}, rel |-> rel]

ResolveImplicitManyToMany(s, side_a, side_b) ==
  LET x == IF Before(side_a.model, side_b.model) THEN side_a.model ELSE side_b.model
      y == IF x = side_a.model THEN side_b.model ELSE side_a.model
      name == JoinName(x, y, side_a.rel_name)
      Key(n) == FieldOf(ModelOf(s, n), PrimaryKey(ModelOf(s, n))[1])
      Ref(n, fk) == [NoRel EXCEPT !.fields = <<fk>>, !.references = <<Key(n).name>>, !.on_delete = "Cascade"]
      join == [name |-> name, table |-> name, key |-> <<"a", "b">>, uniques |-> << >>, indexes |-> <<<<"b">>>>,
               fields |-> <<JoinField("a", "A", Key(x).type, NoRel), JoinField("b", "B", Key(y).type, NoRel),
                            JoinField("a_rel", "", x, Ref(x, "a")), JoinField("b_rel", "", y, Ref(y, "b"))>>]
      ToEnd(n, column, field) ==
        [kind |-> "ManyToOne", owner |-> name, owner_field |-> field, owner_cols |-> <<column>>,
         target |-> n, target_table |-> ModelOf(s, n).table, target_field |-> "", target_cols |-> <<Key(n).column>>,
         on_delete |-> "Cascade", optional |-> FALSE, join_model |-> "", join_owner_field |-> "", join_target_field |-> ""]
      Across(from, to) ==
        LET first == from.model = x
        IN  [kind |-> "ManyToMany", owner |-> from.model, owner_field |-> from.field,
             owner_cols |-> <<IF first THEN "A" ELSE "B">>, target |-> from.target, target_table |-> name,
             target_field |-> to.field, target_cols |-> <<IF first THEN "B" ELSE "A">>,
             on_delete |-> "Cascade", optional |-> FALSE, join_model |-> name,
             join_owner_field |-> IF first THEN "a_rel" ELSE "b_rel",
             join_target_field |-> IF first THEN "b_rel" ELSE "a_rel"]
      Keyed(n) == LET key == PrimaryKey(ModelOf(s, n)) IN key # << >> /\ key[1] \in FieldNames(ModelOf(s, n))
  IN  IF ~Keyed(x) \/ ~Keyed(y) THEN NoOutcome
      ELSE [NoOutcome EXCEPT
              !.models = <<join>>,
              !.through = [at \in {At(side_a), At(side_b)} |-> name],
              !.resolved = ([model |-> name, field |-> "a_rel"] :> ToEnd(x, "A", "a_rel"))
                           @@ ([model |-> name, field |-> "b_rel"] :> ToEnd(y, "B", "b_rel"))
                           @@ (At(side_a) :> Across(side_a, side_b)) @@ (At(side_b) :> Across(side_b, side_a))]

\* Bug: of two pairs that are not told apart, the first ends are taken.
ResolveGroup_First(s, group) ==
  LET owners == SelectSeq(group, LAMBDA side : side.is_owner)
      backs == SelectSeq(group, LAMBDA side : ~side.is_owner)
  IN  IF owners = << >> \/ backs = << >> THEN Problem(Of("MissingBackRelation", group[1]))
      ELSE BuildRelation(s, owners[1], backs, {At(owners[1]), At(backs[1])})

(* Ends of one name between the same two models (resolve_group).            *)
ResolveGroup(s, group) ==
  LET owners == SelectSeq(group, LAMBDA side : side.is_owner)
      backs == SelectSeq(group, LAMBDA side : ~side.is_owner)
  IN  IF Len(group) > 2
        THEN Problem(Of("AmbiguousRelation", IF Len(owners) > 1 THEN owners[2] ELSE group[2]))
      ELSE IF Len(owners) > 1 THEN Problem(Of("AmbiguousRelation", owners[2]))
      ELSE IF owners = << >>
        THEN IF Len(group) = 2 /\ \A side \in Items(group) : side.is_list
             THEN ResolveImplicitManyToMany(s, group[1], group[2])
             ELSE Problem(Of("MissingRelationOwner", group[1]))
      ELSE IF backs = << >> THEN Problem(Of("MissingBackRelation", owners[1]))
      ELSE BuildRelation(s, owners[1], backs, {At(owners[1]), At(backs[1])})

\* Bug: the foreign keys of the join model are taken in their order.
BuildManyToMany_InOrder(s, owner, back, fks) ==
  LET join == ModelOf(s, owner.join_model)
      Fks(side) == Columns(join, FieldOf(join, side.field).rel.fields)
  IN  [NoOutcome EXCEPT !.resolved = At(owner) :>
        [kind |-> "ManyToMany", owner |-> owner.model, owner_field |-> owner.field, owner_cols |-> Fks(fks[1]),
         target |-> back.model, target_table |-> join.table, target_field |-> back.field,
         target_cols |-> Fks(fks[2]), on_delete |-> "Restrict", optional |-> FALSE, join_model |-> join.name,
         join_owner_field |-> fks[1].field, join_target_field |-> fks[2].field]]

(* build_many_to_many_relation, from one list to the other.                 *)
BuildManyToMany(s, owner, back, fks) ==
  LET join == ModelOf(s, owner.join_model)
      To(model) == SelectSeq(fks, LAMBDA side : side.target = model)
      mine == To(owner.model)[1]
      theirs == To(back.model)[1]
      Fks(side) == Columns(join, FieldOf(join, side.field).rel.fields)
      action == FieldOf(join, mine.field).rel.on_delete
  IN  IF To(owner.model) = << >> THEN Problem(Of("InvalidJoinModel", owner))
      ELSE IF To(back.model) = << >> THEN Problem(Of("InvalidJoinModel", back))
      ELSE [NoOutcome EXCEPT !.resolved = At(owner) :>
              [kind |-> "ManyToMany", owner |-> owner.model, owner_field |-> owner.field, owner_cols |-> Fks(mine),
               target |-> back.model, target_table |-> join.table, target_field |-> back.field,
               target_cols |-> Fks(theirs), on_delete |-> IF action = "" THEN "Restrict" ELSE action,
               optional |-> FALSE, join_model |-> join.name,
               join_owner_field |-> mine.field, join_target_field |-> theirs.field]]

(* Two lists and the two foreign keys of a join model                       *)
(* (resolve_through_relations).                                             *)
ResolveThrough(s, group) ==
  LET lists == SelectSeq(group, LAMBDA side : ~side.is_owner)
      fks == SelectSeq(group, LAMBDA side : side.is_owner)
      BackOf(fk) == SelectSeq(lists, LAMBDA side : side.model = fk.target)
      ToEnd(fk) == BuildRelation(s, fk, BackOf(fk), {At(fk)})
  IN  IF Len(lists) # 2 \/ Len(fks) # 2 THEN Problem(Of("InvalidJoinModel", group[1]))
      ELSE IF lists[1].model # lists[2].target \/ lists[2].model # lists[1].target
        THEN Problem(Of("MissingBackRelation", lists[1]))
      ELSE LET ends == Both(ToEnd(fks[1]), ToEnd(fks[2]))
               there == BuildManyToMany(s, lists[1], lists[2], fks)
               back == BuildManyToMany(s, lists[2], lists[1], fks)
           IN  Both(ends, Both(there, back))

\* Bug: the name of a relation does not count.
GroupKey_Nameless(side) ==
  [name |-> "", join |-> side.join_model, between |-> IF side.join_model # "" THEN {} ELSE {side.model, side.target}]

(* Pairs the ends, group by group (resolve_relations).                      *)
GroupKey(side) ==
  IF side.join_model # "" THEN [name |-> side.rel_name, join |-> side.join_model, between |-> {}]
  ELSE [name |-> side.rel_name, join |-> "", between |-> {side.model, side.target}]

ResolveRelations(s, sides) ==
  LET Group(key) == SelectSeq(sides, LAMBDA side : GroupKey(side) = key)
      Resolve(key) == IF key.join = "" THEN ResolveGroup(s, Group(key)) ELSE ResolveThrough(s, Group(key))
  IN  FoldSet(LAMBDA key, sum : Both(sum, Resolve(key)), NoOutcome, {GroupKey(side) : side \in Items(sides)})

WithThrough(s, through) ==
  [i \in DOMAIN s |-> [s[i] EXCEPT !.fields =
     [j \in DOMAIN @ |-> LET at == [model |-> s[i].name, field |-> @[j].name]
                         IN  IF at \in DOMAIN through THEN [@[j] EXCEPT !.rel.through = through[at]] ELSE @[j]]]]

Lowered(models, resolved, diags) ==
  [models |-> models, resolved |-> resolved, diags |-> diags \cup Validate(models)]
Combine(decls, s, outcome) ==
  Lowered(WithThrough(s, outcome.through) \o outcome.models, outcome.resolved,
          DeclDiags(decls) \cup ThroughDiags(s) \cup outcome.diags)
LowerFrom(decls, s) == Combine(decls, s, ResolveRelations(s, CollectSides(s)))
Lower(decls) == LowerFrom(decls, Substituted(decls))

-----------------------------------------------------------------------------
(* What the generator makes of a relation field of an accepted schema       *)
(* (crates/codegen/src/emit.rs): how the rows behind the field are found,   *)
(* <<column, model, column>> or through a join model; {} where it makes no  *)
(* helper.                                                                  *)

Relation(out, at) == out.resolved[at]

\* Bug: the back side is followed like the owner's.
Keys_OneWay(rel, model) == [child |-> IF model = rel.owner THEN rel.target ELSE rel.owner,
                            parent_col |-> rel.owner_cols[1], child_col |-> rel.target_cols[1]]

(* The keys a relation is followed by, seen from one of its models.         *)
Keys(rel, model) ==
  IF model = rel.owner THEN [child |-> rel.target, parent_col |-> rel.owner_cols[1], child_col |-> rel.target_cols[1]]
  ELSE [child |-> rel.owner, parent_col |-> rel.target_cols[1], child_col |-> rel.owner_cols[1]]

ByColumn(m, column) == CHOOSE f \in Items(m.fields) : HasColumn(f) /\ f.column = column

(* emit_relation_helper: nothing for an optional or ill-matched key.        *)
IncludeKeys(out, model, rel) ==
  LET keys == Keys(rel, model)
      mine == ByColumn(ModelOf(out.models, model), keys.parent_col)
      theirs == ByColumn(ModelOf(out.models, keys.child), keys.child_col)
  IN  IF "optional" \in {mine.arity, theirs.arity} \/ mine.type # theirs.type THEN {} ELSE {keys}

(* emit_many_to_many_helpers: nothing unless the join model's foreign keys  *)
(* name what they refer to.                                                 *)
ManyToManyKeys(out, rel) ==
  LET join == ModelOf(out.models, rel.join_model)
      mine == FieldOf(join, rel.join_owner_field).rel
      theirs == FieldOf(join, rel.join_target_field).rel
      Pk(model, fk) == FieldOf(ModelOf(out.models, model), fk.references[1])
  IN  IF << >> \in {mine.references, theirs.references} THEN {}
      ELSE IF "optional" \in {Pk(rel.owner, mine).arity, Pk(rel.target, theirs).arity} THEN {}
      ELSE {[child |-> rel.target, parent_col |-> Pk(rel.owner, mine).column, child_col |-> Pk(rel.target, theirs).column,
             join |-> join.name, join_owner_col |-> FieldOf(join, mine.fields[1]).column,
             join_target_col |-> FieldOf(join, theirs.fields[1]).column]}

IncludeHelper(out, at) ==
  LET rel == Relation(out, at)
  IN  IF rel.kind = "ManyToMany" THEN ManyToManyKeys(out, rel) ELSE IncludeKeys(out, at.model, rel)

(* emit_relation_filter_helpers: some, none, every.                         *)
FilterHelper(out, at) ==
  LET rel == Relation(out, at)
  IN  IF rel.kind = "ManyToMany" THEN {} ELSE {Keys(rel, at.model)}

GenerateFrom(out) ==
  IF out.diags # {} THEN [out |-> out, includes |-> << >>, filters |-> << >>]
  ELSE [out |-> out,
        includes |-> [at \in DOMAIN out.resolved |-> IncludeHelper(out, at)],
        filters |-> [at \in DOMAIN out.resolved |-> FilterHelper(out, at)]]

(* `prepare`: parse, lower, generate.                                       *)
Prepare == Called("prepare") /\ Return(GenerateFrom(Lower(argument)))

-----------------------------------------------------------------------------
(* Properties.                                                              *)

(* The reference: which ends may belong together, judged two by two.        *)
Ends(s) == UNION {{[model |-> m.name, field |-> f.name] : f \in {g \in Items(m.fields) : IsRelation(g)}} : m \in Items(s)}
End(s, e) == FieldAt(s, e)

JoinKey(s, e) == \E l \in Ends(s) : End(s, l).rel.through = e.model /\ l.model = End(s, e).type /\ Owns(End(s, e))
Partners(s, e, d) ==
  LET x == End(s, e)
      y == End(s, d)
  IN  /\ e # d /\ x.type = d.model /\ y.type = e.model
      /\ x.rel.name = y.rel.name /\ x.rel.through = y.rel.through
      /\ Owns(x) # Owns(y) \/ (~Owns(x) /\ ~Owns(y) /\ IsList(x) /\ IsList(y))

Pairings(s) ==
  LET ends == {e \in Ends(s) : ~JoinKey(s, e)}
      pairs == {{e, d} : e, d \in ends} \cap {p \in SUBSET ends : Cardinality(p) = 2 /\ \E e, d \in p : Partners(s, e, d)}
  IN  {m \in SUBSET pairs : \A e \in ends : Cardinality({p \in m : e \in p}) = 1}

(* A foreign key that means something, judged by itself.                    *)
WellKeyed(s, e) ==
  LET f == End(s, e)
      m == ModelOf(s, e.model)
      target == ModelOf(s, f.type)
      refs == References(target, f)
  IN  Owns(f) => /\ Len(f.rel.fields) = Len(refs)
                 /\ \A i \in DOMAIN refs :
                      /\ f.rel.fields[i] \in Indexable(m) /\ refs[i] \in Indexable(target)
                      /\ FieldOf(m, f.rel.fields[i]).type = FieldOf(target, refs[i]).type
                      /\ refs[i] \in Items(PrimaryKey(target)) \/ "unique" \in FieldOf(target, refs[i]).attrs
                           \/ <<refs[i]>> \in Items(target.uniques)
                      /\ f.arity = "optional" => FieldOf(m, f.rel.fields[i]).arity = "optional"

(* Two ends of one model that have nobody on the other side are paired with *)
(* each other all the same (resolve_group never looks at the models).       *)
Crossed(s) ==
  \E e, d \in Ends(s) :
    /\ e # d /\ e.model = d.model /\ End(s, e).type = End(s, d).type /\ End(s, e).type # e.model
    /\ End(s, e).rel.name = End(s, d).rel.name /\ ~JoinKey(s, e) /\ ~JoinKey(s, d)

Partner(out, at) ==
  LET rel == out.resolved[at]
  IN  IF at = [model |-> rel.owner, field |-> rel.owner_field] THEN [model |-> rel.target, field |-> rel.target_field]
      ELSE [model |-> rel.owner, field |-> rel.owner_field]

Schema == answer.out
Accepted == Returned("prepare") /\ Schema.diags = {}

(* A schema is accepted only if its relations can be read in exactly one    *)
(* way and every foreign key fits what it refers to, and the ends are then  *)
(* paired that way; a schema is rejected only if its relations cannot be    *)
(* read, or have more than two ends of one name between two models, or      *)
(* something else is wrong with it (lower.rs:1015-1331, rule V08).          *)
Crowded(s) ==
  \E e \in Ends(s) : ~JoinKey(s, e) /\ End(s, e).rel.through = "" /\
    Cardinality({d \in Ends(s) : /\ ~JoinKey(s, d) /\ End(s, d).rel.through = "" /\ End(s, d).rel.name = End(s, e).rel.name
                                 /\ {d.model, End(s, d).type} = {e.model, End(s, e).type}}) > 2

JoinsWhole(s) ==
  \A l \in Ends(s) : End(s, l).rel.through # "" =>
    LET name == End(s, l).rel.name
        join == End(s, l).rel.through
        keys == {e \in Ends(s) : e.model = join /\ JoinKey(s, e) /\ End(s, e).rel.name = name}
        lists == {e \in Ends(s) : End(s, e).rel.through = join /\ End(s, e).rel.name = name}
    IN  /\ IsList(End(s, l)) /\ ~Owns(End(s, l)) /\ Cardinality(keys) = 2 /\ Cardinality(lists) = 2
        /\ {End(s, e).type : e \in keys} = {e.model : e \in lists}

RelationsPaired ==
  Returned("prepare") =>
    LET s == argument
        keyed == \A e \in Ends(s) : WellKeyed(s, e)
    IN  /\ Accepted /\ ~Crossed(s) =>
             /\ keyed
             /\ Ends(s) \subseteq DOMAIN Schema.resolved
             /\ Pairings(s) = {{{e, Partner(Schema, e)} : e \in {d \in Ends(s) : ~JoinKey(s, d)}}}
        /\ ~Accepted => \/ ~keyed \/ Cardinality(Pairings(s)) # 1 \/ Crowded(s)
                        \/ DeclDiags(s) \cup Validate(s) # {} \/ ~JoinsWhole(s)

(* What is generated for the two ends of a relation leads there and back:   *)
(* the same columns, of the same tables, from the other side; and through a *)
(* join model, by the foreign key that refers to the model one comes from   *)
(* (emit.rs:1708-2131, lower.rs:1491-1882).  Relations of a model with      *)
(* itself are left out: their two ends get one orientation.                 *)
Converse(keys, other) ==
  /\ keys.child_col = other.parent_col /\ keys.parent_col = other.child_col
  /\ "join" \in DOMAIN keys => /\ keys.join = other.join /\ keys.join_owner_col = other.join_target_col
                               /\ keys.join_target_col = other.join_owner_col

ForeignKey(s, model, target, column, ref) ==
  \E f \in Items(ModelOf(s, model).fields) :
    /\ IsRelation(f) /\ f.type = target /\ Owns(f)
    /\ Columns(ModelOf(s, model), f.rel.fields)[1] = column
    /\ Columns(ModelOf(s, target), References(ModelOf(s, target), f))[1] = ref

HelpersLeadBack ==
  Accepted /\ ~Crossed(argument) =>
    \A e \in Ends(argument) : e.model # End(argument, e).type =>
      LET back == Partner(Schema, e)
          models == Schema.models
      IN  /\ \A k \in answer.includes[e] \cup answer.filters[e] :
               /\ k.child = End(argument, e).type
               /\ IF "join" \in DOMAIN k
                  THEN /\ ForeignKey(models, k.join, e.model, k.join_owner_col, k.parent_col)
                       /\ ForeignKey(models, k.join, k.child, k.join_target_col, k.child_col)
                  ELSE \/ ForeignKey(models, e.model, k.child, k.parent_col, k.child_col)
                       \/ ForeignKey(models, k.child, e.model, k.child_col, k.parent_col)
          /\ ~JoinKey(argument, e) => \A k \in answer.includes[e] : \A l \in answer.includes[back] : Converse(k, l)

(* The relations of a schema are exact, and so is what is generated from    *)
(* them (lower.rs:1125, emit.rs:1713).                                      *)
RelationsExact == RelationsPaired /\ HelpersLeadBack
=============================================================================

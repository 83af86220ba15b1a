------------------------ MODULE MCSchemaMigration ---------------------------
(* Small families of schemas for SchemaMigration.  Each behaviour starts    *)
(* from an empty database and edits within the constant Schemas.            *)
EXTENDS SchemaMigration

MCFieldOrder == <<"a", "b">>

Field(c, type, optional, default, from) ==
    [column |-> c, type |-> type, optional |-> optional, default |-> default, from |-> from]

\* One model: its field a varies in all that a column has, b in its hint.
FieldsA == {Field("a", 1, FALSE, None, None), Field("a", 2, FALSE, None, None),
            Field("a", 1, TRUE, None, None),  Field("a", 1, FALSE, Client, None),
            Field("x", 1, FALSE, None, None), Field("x", 2, FALSE, None, None),
            Field("a", 1, FALSE, None, "b")}
FieldsB == {Field("b", 1, FALSE, None, None), Field("b", 1, FALSE, None, "a"),
            Field("b", 2, TRUE, None, "a"),   Field("x", 1, FALSE, Literal, None)}

FieldSets == {"a" :> f : f \in FieldsA} \cup {"b" :> g : g \in FieldsB}
             \cup {"a" :> f @@ "b" :> g : f \in FieldsA, g \in FieldsB}
Distinct(fields) == \A f, g \in DOMAIN fields : fields[f].column = fields[g].column => f = g

Index(fields, f, span) == fields[f].column :> [field |-> f, span |-> span]
Model(fields, indexes, uniques, refs) ==
    [fields |-> fields, indexes |-> indexes, uniques |-> uniques, refs |-> refs]

Plain == "a" :> Field("a", 1, FALSE, None, None)

OneModel ==
    UNION {{1 :> Model(fields, Empty, Empty, Empty)}
           \cup {1 :> Model(fields, Index(fields, f, 1), Empty, Empty) : f \in DOMAIN fields}
           \cup {1 :> Model(fields, Empty, Index(fields, f, 1), Empty) : f \in DOMAIN fields} :
              fields \in {g \in FieldSets : Distinct(g)}}
    \cup {1 :> Model(Plain, Index(Plain, "a", 2), Index(Plain, "a", 2), Empty)}

\* Three models: 2 may refer to 1 and 3 to 1 or 2.
Two   == Plain @@ "b" :> Field("b", 1, FALSE, None, None)
First == {Model("a" :> Field("a", type, FALSE, None, None), Empty, Index(Plain, "a", 1), Empty) :
             type \in 1..2}
Owner(t) == {Model(Plain, Empty, Empty, Empty), Model(Two, Empty, Empty, Empty)} \cup
            {Model(Two, Empty, Empty, "b" :> [target |-> t, action |-> a]) :
                a \in {Cascade, NoAction}}
ThreeModels ==
    {1 :> m : m \in First}
    \cup {1 :> m @@ 2 :> n : m \in First, n \in Owner(1)}
    \cup {1 :> m @@ 2 :> n @@ 3 :> o : m \in First, n \in Owner(1), o \in Owner(1) \cup Owner(2)}

\* A parent that changes, and a child that refers to it.
MCFamily == {1 :> m @@ 2 :> n : m \in First, n \in Owner(1)}

MCSchemas == OneModel \cup ThreeModels \cup {Empty}
=============================================================================

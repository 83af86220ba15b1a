----------------------------- MODULE SchemaDiff -----------------------------
(***************************************************************************)
(* Schemas and their differences: crates/core/src/ir.rs, and diff of       *)
(* crates/migrate/src/diff.rs.                                             *)
(*                                                                         *)
(* A schema maps each model, a number, to a record                         *)
(*    fields   name -> [column, type, optional, default, from]             *)
(*    indexes, uniques   physical name -> [field, span]                    *)
(*    refs     field -> [target, action], the foreign keys it owns         *)
(* default is None, Literal, or Client (a value this library makes up, of  *)
(* which the database knows nothing); from is @renamedFrom, or None.  The  *)
(* key, enums, lists and many-to-many relations are left out, and every    *)
(* index has one field.                                                    *)
(***************************************************************************)
EXTENDS Naturals

CONSTANTS None, Literal, Client

\* ResolvedRelation; its constraint is named after the table and the column.
Relations(s) ==
    UNION {{[owner |-> m, column |-> s[m].fields[f].column,
             target |-> s[m].refs[f].target, action |-> s[m].refs[f].action] :
                f \in DOMAIN s[m].refs} : m \in DOMAIN s}

-----------------------------------------------------------------------------
(* diff_columns: what becomes of the fields of p in n *)

\* The fields with a hint that names a field of p, and the fields they name.
Renamed(p, n)  == {f \in DOMAIN n.fields : n.fields[f].from \in DOMAIN p.fields}
Consumed(p, n) == {n.fields[f].from : f \in Renamed(p, n)}
Kept(p, n)     == (DOMAIN n.fields \cap DOMAIN p.fields) \ Renamed(p, n)

AddedColumns(p, n) == DOMAIN n.fields \ (DOMAIN p.fields \cup Renamed(p, n))

\* The field of p that is f in n, when there is one.
Origin(p, n, f) == IF f \in Renamed(p, n) THEN n.fields[f].from ELSE f

DroppedColumns(p, n) ==
    {f \in DOMAIN p.fields \ Consumed(p, n) :
        f \notin DOMAIN n.fields \/ f \in Renamed(p, n)}

\* The kept fields whose column has another name.
Moved(p, n) == {f \in Kept(p, n) : p.fields[f].column # n.fields[f].column}

\* column_aspects
Differs(f, g) == f.type # g.type \/ f.optional # g.optional \/ f.default # g.default

\* Mutant: a field that is renamed is never altered.
AlteredColumns_NotRenamed(p, n) ==
    {f \in Kept(p, n) : Differs(p.fields[f], n.fields[f])}

AlteredColumns(p, n) ==
    {f \in Renamed(p, n) \cup Kept(p, n) :
        Differs(p.fields[Origin(p, n, f)], n.fields[f])}

\* diff_indexes and diff_uniques; the span is part of the equality.
Appeared(old, new) == {i \in DOMAIN new : i \notin DOMAIN old \/ old[i] # new[i]}
Vanished(old, new) == Appeared(new, old)

-----------------------------------------------------------------------------
(* diff_models and diff_relations *)

Created(prev, next) == DOMAIN next \ DOMAIN prev
Dropped(prev, next) == DOMAIN prev \ DOMAIN next
Common(prev, next)  == DOMAIN prev \cap DOMAIN next

\* The relations of a dropped table go with it.
AddedRelations(prev, next)   == Relations(next) \ Relations(prev)
DroppedRelations(prev, next) ==
    {r \in Relations(prev) \ Relations(next) : r.owner \in DOMAIN next}

\* Mutant: only whole tables and columns count.
Destructive_Tables(prev, next) == Dropped(prev, next) # {}

\* is_destructive, of any change
Destructive(prev, next) ==
    \/ Dropped(prev, next) # {}
    \/ DroppedRelations(prev, next) # {}
    \/ \E m \in Common(prev, next) :
          \/ DroppedColumns(prev[m], next[m]) # {}
          \/ Vanished(prev[m].indexes, next[m].indexes) # {}
          \/ Vanished(prev[m].uniques, next[m].uniques) # {}
=============================================================================

--------------------------- MODULE FunctionProofs ---------------------------
(***************************************************************************)
(* What two of the functions without state guarantee for every argument.   *)
(*                                                                         *)
(* The first part is about diff, for schemas of any size: the planner acts *)
(* on the changes one kind at a time and never looks at the two schemas as *)
(* wholes again, so nothing may fall between the kinds.  Each field is one *)
(* kind of change, and what no change mentions is what stays.  None of     *)
(* this needs the schemas to be finite.                                    *)
(*                                                                         *)
(* The second part is about the clients of databases behind HTTP, for      *)
(* calls of any number of parameters and columns.  A value goes through    *)
(* four conversions and comes back under a name, so the argument follows   *)
(* one value through them (ParamComesBack, CellComesBack), puts the row    *)
(* together (RowComesBack, RowIsNamed), and then goes through the ends a   *)
(* request can have (ResponseTells, NoRowOutOfABadOne).                    *)
(***************************************************************************)
EXTENDS SchemaDiff, EdgeClient, WellFoundedInduction, TLAPS

-----------------------------------------------------------------------------
(* diff.                                                                    *)

\* Every field of the new model is added, or renamed by a hint, or kept, and is
\* only one of these (the three loops of diff_columns and their `continue`s).
THEOREM FieldsPartitioned ==
  ASSUME NEW p, NEW n
  PROVE  /\ DOMAIN n.fields = AddedColumns(p, n) \cup Renamed(p, n) \cup Kept(p, n)
         /\ AddedColumns(p, n) \cap Renamed(p, n) = {}
         /\ AddedColumns(p, n) \cap Kept(p, n) = {}
         /\ Renamed(p, n) \cap Kept(p, n) = {}
  BY DEF AddedColumns, Renamed, Kept

\* The origin of a renamed or kept field is a field of the old model.
LEMMA OriginIsOld ==
  ASSUME NEW p, NEW n, NEW f \in Renamed(p, n) \cup Kept(p, n)
  PROVE  Origin(p, n, f) \in DOMAIN p.fields
  BY DEF Origin, Renamed, Kept

\* An old field is dropped just when it is the origin of no new one: a drop never
\* takes a column that a rename or a kept field still needs, and a column that
\* nobody needs any more does not stay behind (the drop loop of diff_columns).
THEOREM DroppedOrOrigin ==
  ASSUME NEW p, NEW n, NEW f \in DOMAIN p.fields
  PROVE  f \in DroppedColumns(p, n)
           <=> ~\E g \in Renamed(p, n) \cup Kept(p, n) : Origin(p, n, g) = f
<1>1. ASSUME f \in DroppedColumns(p, n), NEW g \in Renamed(p, n) \cup Kept(p, n),
             Origin(p, n, g) = f
      PROVE  FALSE
  <2>1. f \notin Consumed(p, n) /\ (f \notin DOMAIN n.fields \/ f \in Renamed(p, n))
    BY <1>1 DEF DroppedColumns
  <2>2. CASE g \in Renamed(p, n)
    <3>1. f = n.fields[g].from
      BY <1>1, <2>2 DEF Origin
    <3>. QED  BY <2>1, <2>2, <3>1 DEF Consumed
  <2>3. CASE g \notin Renamed(p, n)
    <3>1. g \in Kept(p, n) /\ g = f
      BY <1>1, <2>3 DEF Origin
    <3>. QED  BY <2>1, <2>3, <3>1 DEF Kept
  <2>. QED  BY <2>2, <2>3
<1>2. ASSUME f \notin DroppedColumns(p, n)
      PROVE  \E g \in Renamed(p, n) \cup Kept(p, n) : Origin(p, n, g) = f
  <2>1. CASE f \in Consumed(p, n)
    <3>1. PICK g \in Renamed(p, n) : n.fields[g].from = f
      BY <2>1 DEF Consumed
    <3>2. Origin(p, n, g) = f
      BY <3>1 DEF Origin
    <3>. QED  BY <3>2
  <2>2. CASE f \notin Consumed(p, n)
    <3>1. f \in DOMAIN n.fields \ Renamed(p, n)
      BY <1>2, <2>2 DEF DroppedColumns
    <3>2. f \in Kept(p, n) /\ Origin(p, n, f) = f
      BY <3>1 DEF Kept, Origin
    <3>. QED  BY <3>2
  <2>. QED  BY <2>1, <2>2
<1>. QED  BY <1>1, <1>2

\* Unless a hint names a field that stays, or two hints name the same field, no
\* two new fields have the same origin, so no column is asked for twice.
THEOREM OriginsDistinct ==
  ASSUME NEW p, NEW n,
         Consumed(p, n) \cap Kept(p, n) = {},
         \A f, g \in Renamed(p, n) : n.fields[f].from = n.fields[g].from => f = g,
         NEW f \in Renamed(p, n) \cup Kept(p, n),
         NEW g \in Renamed(p, n) \cup Kept(p, n),
         Origin(p, n, f) = Origin(p, n, g)
  PROVE  f = g
<1>1. CASE f \in Renamed(p, n) /\ g \in Renamed(p, n)
  BY <1>1 DEF Origin
<1>2. CASE f \notin Renamed(p, n) /\ g \notin Renamed(p, n)
  BY <1>2 DEF Origin
<1>3. CASE f \in Renamed(p, n) /\ g \notin Renamed(p, n)
  <2>1. n.fields[f].from = g /\ g \in Kept(p, n)
    BY <1>3 DEF Origin
  <2>2. g \in Consumed(p, n)
    BY <1>3, <2>1 DEF Consumed
  <2>. QED  BY <2>1, <2>2
<1>4. CASE f \notin Renamed(p, n) /\ g \in Renamed(p, n)
  <2>1. n.fields[g].from = f /\ f \in Kept(p, n)
    BY <1>4 DEF Origin
  <2>2. f \in Consumed(p, n)
    BY <1>4, <2>1 DEF Consumed
  <2>. QED  BY <2>1, <2>2
<1>. QED  BY <1>1, <1>2, <1>3, <1>4

\* A migration that `migrate dev` runs without asking leaves every model where it
\* is, finds a new field for every old one, and changes no index and no unique
\* constraint that was there (is_destructive over the changes of diff).
THEOREM UnflaggedKeeps ==
  ASSUME NEW prev, NEW next, ~Destructive(prev, next), NEW m \in DOMAIN prev
  PROVE  /\ m \in DOMAIN next
         /\ \A f \in DOMAIN prev[m].fields :
               \E g \in DOMAIN next[m].fields : Origin(prev[m], next[m], g) = f
         /\ \A i \in DOMAIN prev[m].indexes :
               i \in DOMAIN next[m].indexes /\ next[m].indexes[i] = prev[m].indexes[i]
         /\ \A i \in DOMAIN prev[m].uniques :
               i \in DOMAIN next[m].uniques /\ next[m].uniques[i] = prev[m].uniques[i]
<1>1. m \in DOMAIN next
  BY DEF Destructive, Dropped
<1>2. m \in Common(prev, next)
  BY <1>1 DEF Common
<1>3. ASSUME NEW f \in DOMAIN prev[m].fields
      PROVE  \E g \in DOMAIN next[m].fields : Origin(prev[m], next[m], g) = f
  <2>1. f \notin DroppedColumns(prev[m], next[m])
    BY <1>2 DEF Destructive
  <2>2. PICK g \in Renamed(prev[m], next[m]) \cup Kept(prev[m], next[m]) :
               Origin(prev[m], next[m], g) = f
    BY <2>1, DroppedOrOrigin
  <2>3. g \in DOMAIN next[m].fields
    BY FieldsPartitioned
  <2>. QED  BY <2>2, <2>3
<1>4. ASSUME NEW i \in DOMAIN prev[m].indexes
      PROVE  i \in DOMAIN next[m].indexes /\ next[m].indexes[i] = prev[m].indexes[i]
  <2>1. i \notin Vanished(prev[m].indexes, next[m].indexes)
    BY <1>2 DEF Destructive
  <2>. QED  BY <2>1 DEF Vanished, Appeared
<1>5. ASSUME NEW i \in DOMAIN prev[m].uniques
      PROVE  i \in DOMAIN next[m].uniques /\ next[m].uniques[i] = prev[m].uniques[i]
  <2>1. i \notin Vanished(prev[m].uniques, next[m].uniques)
    BY <1>2 DEF Destructive
  <2>. QED  BY <2>1 DEF Vanished, Appeared
<1>. QED  BY <1>1, <1>3, <1>4, <1>5

\* The diff of a schema with itself is empty, if no hint in its text names a field
\* that is still there: a migration that is through is not written again (diff).
THEOREM SameSchemaNoChange ==
  ASSUME NEW s, \A m \in DOMAIN s : Renamed(s[m], s[m]) = {}
  PROVE  /\ Created(s, s) = {} /\ Dropped(s, s) = {}
         /\ AddedRelations(s, s) = {} /\ DroppedRelations(s, s) = {}
         /\ \A m \in Common(s, s) :
               /\ AddedColumns(s[m], s[m]) = {} /\ DroppedColumns(s[m], s[m]) = {}
               /\ Moved(s[m], s[m]) = {} /\ AlteredColumns(s[m], s[m]) = {}
               /\ Appeared(s[m].indexes, s[m].indexes) = {}
               /\ Appeared(s[m].uniques, s[m].uniques) = {}
<1>1. Created(s, s) = {} /\ Dropped(s, s) = {}
  BY DEF Created, Dropped
<1>2. AddedRelations(s, s) = {} /\ DroppedRelations(s, s) = {}
  BY DEF AddedRelations, DroppedRelations
<1>3. ASSUME NEW m \in Common(s, s)
      PROVE  /\ AddedColumns(s[m], s[m]) = {} /\ DroppedColumns(s[m], s[m]) = {}
             /\ Moved(s[m], s[m]) = {} /\ AlteredColumns(s[m], s[m]) = {}
             /\ Appeared(s[m].indexes, s[m].indexes) = {}
             /\ Appeared(s[m].uniques, s[m].uniques) = {}
  <2>1. Renamed(s[m], s[m]) = {}
    BY DEF Common
  <2>2. AddedColumns(s[m], s[m]) = {} /\ DroppedColumns(s[m], s[m]) = {}
    BY <2>1 DEF AddedColumns, DroppedColumns
  <2>3. Moved(s[m], s[m]) = {} /\ AlteredColumns(s[m], s[m]) = {}
    BY <2>1 DEF Moved, AlteredColumns, Differs, Origin
  <2>. QED  BY <2>2, <2>3 DEF Appeared
<1>. QED  BY <1>1, <1>2, <1>3

-----------------------------------------------------------------------------
(* The calls the theorem is about.  D is what a value can stand for.        *)

Params(D) ==
  {v \in [kind : Texts \cup Integers \cup {"Null", "F64", "Bytes", "Array"}, is : D] :
     /\ v.kind = "Null" <=> v.is = Null
     /\ v.is = NotFinite => v.kind = "F64"}
Cells(D) ==
  {c \in [type : {"null", "integer", "real", "text", "blob"}, is : D] : c.type = "null" <=> c.is = Null}
EdgeServers(adapter) ==
  {"ok", "refused", "unreachable", "status", "lost", "gateway", "garbled", "empty"}
  \cup IF adapter = "turso" THEN {"skipped", "other", "short", "corrupt"} ELSE {}

(* There is a name for every column; the rows of D1 are objects, so none of *)
(* theirs is missing.                                                       *)
WellFormed(D, call) ==
  /\ call.adapter \in {"turso", "d1"}
  /\ Config(call.adapter, call.settings) \in BOOLEAN
  /\ call.params \in Seq(Params(D)) /\ call.stored \in Seq(Cells(D))
  /\ DOMAIN call.names = 1..Len(call.names) /\ Len(call.names) = Len(call.params) + Len(call.stored)
  /\ call.adapter = "d1" => \A i \in DOMAIN call.names : call.names[i] # NoName
  /\ call.server \in EdgeServers(call.adapter)

(* NULL is no number, and Error is neither a value nor a row.               *)
Distinct(D) ==
  /\ Null # Rounded
  /\ \A type, is : Error # Wire(type, is)
  /\ \A kind, is : Error # Val(kind, is)
  /\ \A S : Error \notin [S -> [kind : {"Null", "I64", "F64", "Str", "Bytes", "Json"}, is : D \cup {Rounded}]]

\* One of these calls, and its answer.
EdgeSpec(Calls) == function = "edge" /\ argument \in Calls /\ answer = Pending /\ [][Edge]_callvars

-----------------------------------------------------------------------------
(* What is read of a form on the wire, and which parameters have such a form. *)
FromWire(adapter, w) == IF adapter = "turso" THEN FromHrana(w) ELSE FromJson(w)
Supported(adapter, v) ==
  /\ v.is # NotFinite
  /\ v.kind # "Array"
  /\ v.kind = "Bytes" => adapter = "turso"
\* What is read, r, stands for what was meant.
Same(adapter, is, r) ==
  /\ r.is = is \/ (adapter = "d1" /\ is = Big /\ r.is = Rounded)
  /\ (r.kind = "Null") = (is = Null)
\* What is read of a database.
Reads(D) == [kind : {"Null", "I64", "F64", "Str", "Bytes", "Json"}, is : D \cup {Rounded}]

\* A parameter has a form on the wire if it is supported (to_hrana, to_json).
LEMMA EncodedIfSupported ==
  ASSUME NEW D, Distinct(D), NEW adapter \in {"turso", "d1"}, NEW v \in Params(D)
  PROVE  (Encode(adapter, v) # Error) = Supported(adapter, v)
<1>1. CASE adapter = "turso"
  BY <1>1 DEF Encode, ToHrana, Supported, Distinct, Params, Texts, Integers
<1>2. CASE adapter = "d1"
  BY <1>2 DEF Encode, ToJson, Supported, Distinct, Params, Texts, Integers
<1>. QED  BY <1>1, <1>2

\* What a parameter becomes in the row that is returned.
LEMMA ParamComesBack ==
  ASSUME NEW D, Distinct(D), NEW adapter \in {"turso", "d1"}, NEW v \in Params(D), Supported(adapter, v)
  PROVE  LET r == FromWire(adapter, Sent(adapter, CellOf(v, Encode(adapter, v))))
         IN  r \in Reads(D) /\ Same(adapter, v.is, r)
<1> DEFINE r == FromWire(adapter, Sent(adapter, CellOf(v, Encode(adapter, v))))
<1> DEFINE rounded == IF v.is = Big THEN Rounded ELSE v.is
<1> SUFFICES r \in Reads(D) /\ Same(adapter, v.is, r)
  OBVIOUS
<1>0. Null # Rounded
  BY DEF Distinct
<1>1. CASE adapter = "turso"
  <2>0. v.is \in D /\ (v.kind = "Null" <=> v.is = Null)
    BY DEF Params
  <2>1. CASE v.kind = "Null"
    <3>1. Encode(adapter, v) = Wire("null", Null)
      BY <1>1, <2>1 DEF Encode, ToHrana, Supported, Params, Texts, Integers
    <3>2. CellOf(v, Encode(adapter, v)) = Wire("null", Null)
      BY <1>1, <2>1, <3>1 DEF CellOf, Wire, Integers, Texts
    <3>3. Sent(adapter, CellOf(v, Encode(adapter, v))) = Wire("null", Null)
      BY <1>1, <3>2 DEF Sent, Wire
    <3>4. r = Val("Null", Null)
      BY <1>1, <3>3 DEF FromWire, FromHrana, Wire
    <3>. QED  BY <1>1, <2>1, <2>0, <3>4, <1>0 DEF Reads, Same, Val, Distinct, Integers, Texts
  <2>2. CASE v.kind \in Integers
    <3>1. Encode(adapter, v) = Wire("integer", v.is)
      BY <1>1, <2>2 DEF Encode, ToHrana, Supported, Params, Texts, Integers
    <3>2. CellOf(v, Encode(adapter, v)) = Wire("integer", v.is)
      BY <1>1, <2>2, <3>1 DEF CellOf, Wire, Integers, Texts
    <3>3. Sent(adapter, CellOf(v, Encode(adapter, v))) = Wire("integer", v.is)
      BY <1>1, <3>2 DEF Sent, Wire
    <3>4. r = Val("I64", v.is)
      BY <1>1, <3>3 DEF FromWire, FromHrana, Wire
    <3>. QED  BY <1>1, <2>2, <2>0, <3>4, <1>0 DEF Reads, Same, Val, Distinct, Integers, Texts
  <2>3. CASE v.kind = "F64"
    <3>1. Encode(adapter, v) = Wire("float", v.is)
      BY <1>1, <2>3 DEF Encode, ToHrana, Supported, Params, Texts, Integers
    <3>2. CellOf(v, Encode(adapter, v)) = Wire("real", v.is)
      BY <1>1, <2>3, <3>1 DEF CellOf, Wire, Integers, Texts
    <3>3. Sent(adapter, CellOf(v, Encode(adapter, v))) = Wire("float", v.is)
      BY <1>1, <3>2 DEF Sent, Wire
    <3>4. r = Val("F64", v.is)
      BY <1>1, <3>3 DEF FromWire, FromHrana, Wire
    <3>. QED  BY <1>1, <2>3, <2>0, <3>4, <1>0 DEF Reads, Same, Val, Distinct, Integers, Texts
  <2>4. CASE v.kind = "Bytes"
    <3>1. Encode(adapter, v) = Wire("blob", v.is)
      BY <1>1, <2>4 DEF Encode, ToHrana, Supported, Params, Texts, Integers
    <3>2. CellOf(v, Encode(adapter, v)) = Wire("blob", v.is)
      BY <1>1, <2>4, <3>1 DEF CellOf, Wire, Integers, Texts
    <3>3. Sent(adapter, CellOf(v, Encode(adapter, v))) = Wire("blob", v.is)
      BY <1>1, <3>2 DEF Sent, Wire
    <3>4. r = Val("Bytes", v.is)
      BY <1>1, <3>3 DEF FromWire, FromHrana, Wire
    <3>. QED  BY <1>1, <2>4, <2>0, <3>4, <1>0 DEF Reads, Same, Val, Distinct, Integers, Texts
  <2>5. CASE v.kind \in Texts
    <3>1. Encode(adapter, v) = Wire("text", v.is)
      BY <1>1, <2>5 DEF Encode, ToHrana, Supported, Params, Texts, Integers
    <3>2. CellOf(v, Encode(adapter, v)) = Wire("text", v.is)
      BY <1>1, <2>5, <3>1 DEF CellOf, Wire, Integers, Texts
    <3>3. Sent(adapter, CellOf(v, Encode(adapter, v))) = Wire("text", v.is)
      BY <1>1, <3>2 DEF Sent, Wire
    <3>4. r = Val("Str", v.is)
      BY <1>1, <3>3 DEF FromWire, FromHrana, Wire
    <3>. QED  BY <1>1, <2>5, <2>0, <3>4, <1>0 DEF Reads, Same, Val, Distinct, Integers, Texts
  <2>. QED  BY <2>1, <2>2, <2>3, <2>4, <2>5 DEF Params, Supported
<1>2. CASE adapter = "d1"
  <2>0. v.is \in D /\ (v.kind = "Null" <=> v.is = Null)
    BY DEF Params
  <2>1. CASE v.kind = "Null"
    <3>1. Encode(adapter, v) = Wire("null", Null)
      BY <1>2, <2>1 DEF Encode, ToJson, Supported, Params, Texts, Integers
    <3>2. CellOf(v, Encode(adapter, v)) = Wire("null", Null)
      BY <1>2, <2>1, <3>1 DEF CellOf, Wire, Integers, Texts
    <3>3. Sent(adapter, CellOf(v, Encode(adapter, v))) = Wire("null", Null)
      BY <1>2, <3>2 DEF Sent, Wire
    <3>4. r = Val("Null", Null)
      BY <1>2, <3>3 DEF FromWire, FromJson, Wire
    <3>. QED  BY <1>2, <2>1, <2>0, <3>4, <1>0 DEF Reads, Same, Val, Distinct, Integers, Texts
  <2>2. CASE v.kind \in Integers
    <3>1. Encode(adapter, v) = Wire("number", v.is)
      BY <1>2, <2>2 DEF Encode, ToJson, Supported, Params, Texts, Integers
    <3>2. CellOf(v, Encode(adapter, v)) = Wire("integer", rounded)
      BY <1>2, <2>2, <3>1 DEF CellOf, Wire, Integers, Texts
    <3>3. Sent(adapter, CellOf(v, Encode(adapter, v))) = Wire("number", IF rounded = Big THEN Rounded ELSE rounded)
      BY <1>2, <3>2 DEF Sent, Wire
    <3>4. r = Val("I64", IF rounded = Big THEN Rounded ELSE rounded)
      BY <1>2, <3>3 DEF FromWire, FromJson, Wire
    <3>. QED  BY <1>2, <2>2, <2>0, <3>4, <1>0 DEF Reads, Same, Val, Distinct, Integers, Texts
  <2>3. CASE v.kind = "F64"
    <3>1. Encode(adapter, v) = Wire("number", v.is)
      BY <1>2, <2>3 DEF Encode, ToJson, Supported, Params, Texts, Integers
    <3>2. CellOf(v, Encode(adapter, v)) = Wire("real", rounded)
      BY <1>2, <2>3, <3>1 DEF CellOf, Wire, Integers, Texts
    <3>3. Sent(adapter, CellOf(v, Encode(adapter, v))) = Wire(IF rounded = Whole THEN "number" ELSE "fraction", rounded)
      BY <1>2, <3>2 DEF Sent, Wire
    <3>4. r = Val(IF rounded = Whole THEN "I64" ELSE "F64", rounded)
      BY <1>2, <3>3 DEF FromWire, FromJson, Wire
    <3>. QED  BY <1>2, <2>3, <2>0, <3>4, <1>0 DEF Reads, Same, Val, Distinct, Integers, Texts
  <2>4. CASE v.kind \in Texts
    <3>1. Encode(adapter, v) = Wire("string", v.is)
      BY <1>2, <2>4 DEF Encode, ToJson, Supported, Params, Texts, Integers
    <3>2. CellOf(v, Encode(adapter, v)) = Wire("text", v.is)
      BY <1>2, <2>4, <3>1 DEF CellOf, Wire, Integers, Texts
    <3>3. Sent(adapter, CellOf(v, Encode(adapter, v))) = Wire("string", v.is)
      BY <1>2, <3>2 DEF Sent, Wire
    <3>4. r = Val("Str", v.is)
      BY <1>2, <3>3 DEF FromWire, FromJson, Wire
    <3>. QED  BY <1>2, <2>4, <2>0, <3>4, <1>0 DEF Reads, Same, Val, Distinct, Integers, Texts
  <2>. QED  BY <1>2, <2>1, <2>2, <2>3, <2>4 DEF Params, Supported
<1>. QED  BY <1>1, <1>2

\* What a column the database filled in becomes in it.
LEMMA CellComesBack ==
  ASSUME NEW D, Distinct(D), NEW adapter \in {"turso", "d1"}, NEW c \in Cells(D)
  PROVE  LET r == FromWire(adapter, Sent(adapter, c))
         IN  r \in Reads(D) /\ Same(adapter, c.is, r)
<1> DEFINE r == FromWire(adapter, Sent(adapter, c))
<1> DEFINE rounded == IF c.is = Big THEN Rounded ELSE c.is
<1> SUFFICES r \in Reads(D) /\ Same(adapter, c.is, r)
  OBVIOUS
<1>0. Null # Rounded
  BY DEF Distinct
<1>1. CASE adapter = "turso"
  <2>0. c = [type |-> c.type, is |-> c.is] /\ c.is \in D /\ (c.type = "null" <=> c.is = Null)
    BY DEF Cells
  <2>1. CASE c.type = "null"
    <3>1. Sent(adapter, c) = Wire("null", Null)
      BY <1>1, <2>1, <2>0 DEF Sent, Wire
    <3>2. r = Val("Null", Null)
      BY <1>1, <3>1 DEF FromWire, FromHrana, Wire
    <3>. QED  BY <1>1, <2>1, <2>0, <3>2, <1>0 DEF Reads, Same, Val
  <2>2. CASE c.type = "integer"
    <3>1. Sent(adapter, c) = Wire("integer", c.is)
      BY <1>1, <2>2, <2>0 DEF Sent, Wire
    <3>2. r = Val("I64", c.is)
      BY <1>1, <3>1 DEF FromWire, FromHrana, Wire
    <3>. QED  BY <1>1, <2>2, <2>0, <3>2, <1>0 DEF Reads, Same, Val
  <2>3. CASE c.type = "real"
    <3>1. Sent(adapter, c) = Wire("float", c.is)
      BY <1>1, <2>3, <2>0 DEF Sent, Wire
    <3>2. r = Val("F64", c.is)
      BY <1>1, <3>1 DEF FromWire, FromHrana, Wire
    <3>. QED  BY <1>1, <2>3, <2>0, <3>2, <1>0 DEF Reads, Same, Val
  <2>4. CASE c.type = "text"
    <3>1. Sent(adapter, c) = Wire("text", c.is)
      BY <1>1, <2>4, <2>0 DEF Sent, Wire
    <3>2. r = Val("Str", c.is)
      BY <1>1, <3>1 DEF FromWire, FromHrana, Wire
    <3>. QED  BY <1>1, <2>4, <2>0, <3>2, <1>0 DEF Reads, Same, Val
  <2>5. CASE c.type = "blob"
    <3>1. Sent(adapter, c) = Wire("blob", c.is)
      BY <1>1, <2>5, <2>0 DEF Sent, Wire
    <3>2. r = Val("Bytes", c.is)
      BY <1>1, <3>1 DEF FromWire, FromHrana, Wire
    <3>. QED  BY <1>1, <2>5, <2>0, <3>2, <1>0 DEF Reads, Same, Val
  <2>. QED  BY <2>1, <2>2, <2>3, <2>4, <2>5 DEF Cells
<1>2. CASE adapter = "d1"
  <2>0. c = [type |-> c.type, is |-> c.is] /\ c.is \in D /\ (c.type = "null" <=> c.is = Null)
    BY DEF Cells
  <2>1. CASE c.type = "null"
    <3>1. Sent(adapter, c) = Wire("null", Null)
      BY <1>2, <2>1, <2>0 DEF Sent, Wire
    <3>2. r = Val("Null", Null)
      BY <1>2, <3>1 DEF FromWire, FromJson, Wire
    <3>. QED  BY <1>2, <2>1, <2>0, <3>2, <1>0 DEF Reads, Same, Val
  <2>2. CASE c.type = "integer"
    <3>1. Sent(adapter, c) = Wire("number", rounded)
      BY <1>2, <2>2, <2>0 DEF Sent, Wire
    <3>2. r = Val("I64", rounded)
      BY <1>2, <3>1 DEF FromWire, FromJson, Wire
    <3>. QED  BY <1>2, <2>2, <2>0, <3>2, <1>0 DEF Reads, Same, Val
  <2>3. CASE c.type = "real"
    <3>1. Sent(adapter, c) = Wire(IF c.is = Whole THEN "number" ELSE "fraction", c.is)
      BY <1>2, <2>3, <2>0 DEF Sent, Wire
    <3>2. r = Val(IF c.is = Whole THEN "I64" ELSE "F64", c.is)
      BY <1>2, <3>1 DEF FromWire, FromJson, Wire
    <3>. QED  BY <1>2, <2>3, <2>0, <3>2, <1>0 DEF Reads, Same, Val
  <2>4. CASE c.type = "text"
    <3>1. Sent(adapter, c) = Wire("string", c.is)
      BY <1>2, <2>4, <2>0 DEF Sent, Wire
    <3>2. r = Val("Str", c.is)
      BY <1>2, <3>1 DEF FromWire, FromJson, Wire
    <3>. QED  BY <1>2, <2>4, <2>0, <3>2, <1>0 DEF Reads, Same, Val
  <2>5. CASE c.type = "blob"
    <3>1. Sent(adapter, c) = Wire("array", c.is)
      BY <1>2, <2>5, <2>0 DEF Sent, Wire
    <3>2. r = Val("Json", c.is)
      BY <1>2, <3>1 DEF FromWire, FromJson, Wire
    <3>. QED  BY <1>2, <2>5, <2>0, <3>2, <1>0 DEF Reads, Same, Val
  <2>. QED  BY <2>1, <2>2, <2>3, <2>4, <2>5 DEF Cells
<1>. QED  BY <1>1, <1>2

\* A set of numbers that is not empty has a least one.
LEMMA SmallestNumber ==
  ASSUME NEW S, S \subseteq Nat, S # {}
  PROVE  \E m \in S : \A l \in S : m <= l
<1> DEFINE R == OpToRel(<, Nat)
<1>1. \A x, y \in Nat : <<x, y>> \in R <=> x < y
  BY DEF OpToRel
<1>2. IsWellFoundedOn(R, Nat)
  BY NatLessThanWellFounded
<1> HIDE DEF R
<1>3. PICK m \in S : \A l \in S : ~(<<l, m>> \in R)
  BY <1>2, WFMin
<1>4. \A l \in S : l \in Nat /\ m \in Nat /\ ~(l < m)
  BY <1>1, <1>3
<1>. QED  BY <1>4

\* Among finitely many columns of a name there is a last one.
LEMMA LastExists ==
  ASSUME NEW n \in Nat, NEW names, DOMAIN names = 1..n, NEW k \in 1..n
  PROVE  LastOf(names, names[k]) \in 1..n
<1> DEFINE From(m) == \E j \in 1..n : names[j] = names[k] /\ j >= m
<1> DEFINE S == {m \in Nat : ~From(m)}
<1>1. n + 1 \in S
  OBVIOUS
<1>2. S \subseteq Nat /\ S # {}
  BY <1>1
<1>3. PICK m \in S : \A l \in S : m <= l
  <2> HIDE DEF S
  <2>. QED  BY <1>2, SmallestNumber
<1>4. m > k
  OBVIOUS
<1>5. m - 1 \in Nat /\ m - 1 \notin S
  BY <1>2, <1>3, <1>4
<1>6. PICK i \in 1..n : names[i] = names[k] /\ i >= m - 1
  BY <1>5
<1>7. \A j \in 1..n : names[j] = names[k] => ~(j >= m)
  BY <1>3
<1>. QED  BY <1>6, <1>7 DEF LastOf

\* The column that has its name to itself is the one that is kept under it.
LEMMA AloneIsLast ==
  ASSUME NEW names, NEW i \in DOMAIN names,
         \A j \in DOMAIN names : (names[j] = names[i]) => (j = i),
         DOMAIN names \subseteq Nat
  PROVE  LastOf(names, names[i]) = i
  BY DEF LastOf

-----------------------------------------------------------------------------
\* The parameters as they are sent (pipeline, query_d1).
Wires(call) == [i \in DOMAIN call.params |-> Encode(call.adapter, call.params[i])]
\* The row as it is read, where nothing happens to it on the way.
ReadBack(call) ==
  [i \in 1..(Len(call.params) + Len(call.stored)) |->
     FromWire(call.adapter, Row(call, Wires(call))[i])]

\* The length of a sequence that is given by its elements.
LEMMA LengthIs ==
  ASSUME NEW n \in Nat, NEW f, f = [i \in 1..n |-> f[i]]
  PROVE  Len(f) = n
<1>1. f \in [1..n -> {f[i] : i \in 1..n}]
  OBVIOUS
<1>2. f \in Seq({f[i] : i \in 1..n})
  BY <1>1
<1>. QED  BY <1>1, <1>2

\* What is left of it without its last element.
LEMMA ShorterIs ==
  ASSUME NEW n \in Nat, n >= 1, NEW f, f = [i \in 1..n |-> f[i]]
  PROVE  SubSeq(f, 1, n - 1) = [i \in 1..(n - 1) |-> f[i]]
<1>1. f \in Seq({f[i] : i \in 1..n})
  OBVIOUS
<1>. QED  BY <1>1

\* The length of a row: that of the parameters and that of the stored columns.
LEMMA SumIsNat ==
  ASSUME NEW a \in Nat, NEW b \in Nat
  PROVE  a + b \in Nat /\ 1..(a + b) \subseteq Nat
  OBVIOUS

\* The positions after the first a.
LEMMA Beyond ==
  ASSUME NEW a \in Nat, NEW b \in Nat, NEW i \in 1..(a + b)
  PROVE  ~(i <= a) => i - a \in 1..b
  OBVIOUS

\* A statement that is sent comes back as it was meant (hrana.rs, api.rs).
LEMMA RowComesBack ==
  ASSUME NEW D, Distinct(D), NEW call, WellFormed(D, call),
         \A i \in DOMAIN call.params : Supported(call.adapter, call.params[i])
  PROVE  \A i \in 1..(Len(call.params) + Len(call.stored)) :
            ReadBack(call)[i] \in Reads(D) /\ Same(call.adapter, Expected(call)[i], ReadBack(call)[i])
<1> SUFFICES ASSUME NEW i \in 1..(Len(call.params) + Len(call.stored))
             PROVE  ReadBack(call)[i] \in Reads(D) /\ Same(call.adapter, Expected(call)[i], ReadBack(call)[i])
  OBVIOUS
<1>0. /\ call.adapter \in {"turso", "d1"}
      /\ call.params \in Seq(Params(D)) /\ call.stored \in Seq(Cells(D))
  BY DEF WellFormed
<1>1. DOMAIN call.params = 1..Len(call.params) /\ DOMAIN Wires(call) = 1..Len(call.params)
  BY <1>0 DEF Wires
<1>2. Len(Wires(call)) = Len(call.params)
  BY <1>0, <1>1 DEF Wires
<1>3. CASE i <= Len(call.params)
  <2>1. i \in DOMAIN call.params /\ call.params[i] \in Params(D)
    BY <1>0, <1>1, <1>3
  <2>2. ReadBack(call)[i] = FromWire(call.adapter,
                            Sent(call.adapter, CellOf(call.params[i], Encode(call.adapter, call.params[i]))))
    BY <1>2, <1>3, <2>1 DEF ReadBack, Row, Wires
  <2>3. Expected(call)[i] = call.params[i].is
    BY <1>3 DEF Expected
  <2>. QED  BY <1>0, <2>1, <2>2, <2>3, ParamComesBack
<1>4. CASE ~(i <= Len(call.params))
  <2>0. Len(call.params) \in Nat /\ Len(call.stored) \in Nat /\ DOMAIN call.stored = 1..Len(call.stored)
    BY <1>0
  <2>1. i - Len(call.params) \in 1..Len(call.stored)
    BY <2>0, <1>4, Beyond
  <2>5. call.stored[i - Len(call.params)] \in Cells(D)
    <3> DEFINE j == i - Len(call.params)
    <3>1. \A l \in 1..Len(call.stored) : call.stored[l] \in Cells(D)
      BY <1>0, <2>0
    <3>. QED  BY <2>1, <3>1
  <2>2. ReadBack(call)[i] = FromWire(call.adapter, Sent(call.adapter, call.stored[i - Len(call.params)]))
    BY <1>0, <1>2, <1>4 DEF ReadBack, Row
  <2>3. Expected(call)[i] = call.stored[i - Len(call.params)].is
    BY <1>0, <1>4 DEF Expected
  <2>. QED  BY <1>0, <2>5, <2>2, <2>3, CellComesBack
<1>. QED  BY <1>3, <1>4

\* The names of the columns in the answer.
Named(call) == [i \in DOMAIN call.names |-> NameOf(call, i)]
Edged(call) == [name \in {Named(call)[i] : i \in DOMAIN Named(call)} |-> ReadBack(call)[LastOf(Named(call), name)]]

\* ... and it comes back under the names of its columns (into_edge_rows).
LEMMA RowIsNamed ==
  ASSUME NEW D, Distinct(D), NEW call, WellFormed(D, call),
         \A i \in DOMAIN call.params : Supported(call.adapter, call.params[i])
  PROVE  /\ IntoEdgeRows(call.adapter, call.names, Row(call, Wires(call))) = Edged(call)
         /\ Edged(call) # Error
         /\ \A i \in DOMAIN call.names : Alone(call, i) => Edged(call)[NameOf(call, i)] = ReadBack(call)[i]
<1> DEFINE row == Row(call, Wires(call))
           n == Len(call.params) + Len(call.stored)
<1>0. /\ call.adapter \in {"turso", "d1"}
      /\ Len(call.params) \in Nat /\ Len(call.stored) \in Nat /\ n \in Nat
      /\ DOMAIN call.params = 1..Len(call.params)
      /\ DOMAIN call.names = 1..n /\ Len(call.names) = n
      /\ call.adapter = "d1" => \A i \in DOMAIN call.names : call.names[i] # NoName
  <2>1. call.params \in Seq(Params(D)) /\ call.stored \in Seq(Cells(D))
    BY DEF WellFormed
  <2>2. Len(call.params) \in Nat /\ Len(call.stored) \in Nat /\ DOMAIN call.params = 1..Len(call.params)
    BY <2>1
  <2>3. n \in Nat
    BY <2>2, SumIsNat
  <2>4. DOMAIN call.names = 1..n /\ Len(call.names) = n
    BY DEF WellFormed
  <2>5. call.adapter \in {"turso", "d1"} /\ (call.adapter = "d1" => \A i \in DOMAIN call.names : call.names[i] # NoName)
    BY DEF WellFormed
  <2>. QED  BY <2>2, <2>3, <2>4, <2>5
<1>1. Len(Wires(call)) = Len(call.params)
  BY <1>0 DEF Wires
<1>2. DOMAIN row = 1..n /\ Len(row) = n
  <2>1. row = [i \in 1..n |-> row[i]]
    BY <1>1 DEF Row
  <2>2. n \in Nat
    BY <1>0
  <2>3. Len(row) = n
    <3> HIDE DEF n, row
    <3>. QED  BY <2>1, <2>2, LengthIs
  <2>. QED  BY <2>1, <2>3
<1>3. ReadBack(call) = [i \in DOMAIN row |-> FromWire(call.adapter, row[i])]
  BY <1>2 DEF ReadBack
<1>4. \A i \in 1..n : ReadBack(call)[i] \in Reads(D)
  BY RowComesBack
<1>5. ~\E i \in DOMAIN ReadBack(call) : ReadBack(call)[i] = Error
  <2>1. \A v \in Reads(D) : v # Error
    <3>1. \A v \in Reads(D) : v = Val(v.kind, v.is)
      BY DEF Reads, Val
    <3>. QED  BY <3>1 DEF Distinct
  <2>. QED  BY <1>2, <1>3, <1>4, <2>1
<1>6. IntoEdgeRows(call.adapter, call.names, row) = Collected(Named(call), ReadBack(call))
  <2>1. CASE call.adapter = "turso"
    <3>1. ColumnNames(call.names) = Named(call)
      BY DEF ColumnNames, Named, NameOf
    <3>2. ReadBack(call) = [i \in DOMAIN row |-> FromHrana(row[i])]
      BY <1>3, <2>1 DEF FromWire
    <3>. QED  BY <1>0, <1>2, <2>1, <3>1, <3>2 DEF IntoEdgeRows, HranaRows
  <2>2. CASE call.adapter = "d1"
    <3>1. \A i \in DOMAIN call.names : NameOf(call, i) = call.names[i]
      BY <1>0, <2>2 DEF NameOf
    <3>2. ReadBack(call) = [i \in DOMAIN row |-> FromJson(row[i])]
      BY <1>3, <2>2 DEF FromWire
    <3>3. IntoEdgeRows(call.adapter, call.names, row) = Collected(call.names, ReadBack(call))
      BY <2>2, <3>2 DEF IntoEdgeRows, D1Rows
    <3>4. Collected(call.names, ReadBack(call)) = Collected(Named(call), ReadBack(call))
      <4>1. DOMAIN Named(call) = DOMAIN call.names /\ \A i \in DOMAIN call.names : Named(call)[i] = call.names[i]
        BY <3>1 DEF Named
      <4>2. {Named(call)[i] : i \in DOMAIN Named(call)} = {call.names[i] : i \in DOMAIN call.names}
        BY <4>1
      <4>3. \A name : LastOf(Named(call), name) = LastOf(call.names, name)
        <5> TAKE name
        <5> DEFINE A(i) == Named(call)[i] = name /\ \A j \in DOMAIN Named(call) : Named(call)[j] = name => j <= i
                   B(i) == call.names[i] = name /\ \A j \in DOMAIN call.names : call.names[j] = name => j <= i
        <5>1. \A i \in DOMAIN call.names : A(i) = B(i)
          BY <4>1
        <5>2. (CHOOSE i \in DOMAIN Named(call) : A(i)) = (CHOOSE i \in DOMAIN call.names : B(i))
          <6> HIDE DEF A, B
          <6>. QED  BY <4>1, <5>1
        <5>. QED  BY <5>2 DEF LastOf
      <4>. QED  BY <4>2, <4>3, Zenon DEF Collected
    <3>. QED  BY <3>3, <3>4
  <2>. QED  BY <1>0, <2>1, <2>2
<1>7. Collected(Named(call), ReadBack(call)) = Edged(call)
  BY <1>5 DEF Collected, Edged
<1>8. \A i \in DOMAIN call.names : NameOf(call, i) = Named(call)[i] /\ i \in DOMAIN Named(call)
  BY DEF Named
<1>9. Edged(call) # Error
  <2>1. \A name \in {Named(call)[i] : i \in DOMAIN Named(call)} :
           LastOf(Named(call), name) \in 1..n
    <3> SUFFICES ASSUME NEW k \in DOMAIN Named(call)
                 PROVE  LastOf(Named(call), Named(call)[k]) \in 1..n
      OBVIOUS
    <3>1. DOMAIN Named(call) = 1..n
      BY <1>0 DEF Named
    <3>2. k \in 1..n /\ n \in Nat
      BY <1>0, <3>1
    <3> HIDE DEF n
    <3>. QED  BY <3>1, <3>2, LastExists
  <2>2. Edged(call) \in [{Named(call)[i] : i \in DOMAIN Named(call)} -> Reads(D)]
    BY <1>4, <2>1 DEF Edged
  <2>. QED  BY <2>2 DEF Distinct, Reads
<1>10. ASSUME NEW i \in DOMAIN call.names, Alone(call, i)
       PROVE  Edged(call)[NameOf(call, i)] = ReadBack(call)[i]
  <2>1. \A j \in DOMAIN Named(call) : (Named(call)[j] = Named(call)[i]) => (j = i)
    BY <1>8, <1>10 DEF Alone, Named
  <2>2. DOMAIN Named(call) \subseteq Nat
    <3>1. DOMAIN Named(call) = 1..n
      BY <1>0 DEF Named
    <3>. QED  BY <1>0, <3>1, SumIsNat
  <2>3. LastOf(Named(call), Named(call)[i]) = i
    BY <1>8, <2>1, <2>2, AloneIsLast
  <2>. QED  BY <1>8, <2>3 DEF Edged
<1>. QED  BY <1>6, <1>7, <1>9, <1>10

-----------------------------------------------------------------------------
\* What the caller is told of a statement that was sent (pipeline, query_d1).
LEMMA ResponseTells ==
  ASSUME NEW adapter \in {"turso", "d1"}, NEW server \in EdgeServers(adapter)
  PROVE  /\ Response(adapter, server) = "ok" => Executes(server)
         /\ Response(adapter, server) = "query" => ~Executes(server)
         /\ Response(adapter, server) \in {"ok", "query", "protocol", "transport"}
         /\ server = "ok" => Response(adapter, server) = "ok"
         /\ Response(adapter, server) = "ok" /\ server \notin {"short", "corrupt"} => server = "ok"
<1>1. CASE adapter = "turso"
  BY <1>1 DEF Response, Pipeline, SingleExecute, Executes, Unsent, Refusals, EdgeServers
<1>2. CASE adapter = "d1"
  BY <1>2 DEF Response, QueryD1, SingleResult, Executes, Unsent, Refusals, EdgeServers
<1>. QED  BY <1>1, <1>2

\* A row that came short, or cannot be read, is not taken for one (hrana.rs).
LEMMA NoRowOutOfABadOne ==
  ASSUME NEW D, Distinct(D), NEW call, WellFormed(D, call), NEW wires,
         Len(wires) = Len(call.params), call.server \in {"short", "corrupt"},
         DOMAIN call.names # {}
  PROVE  IntoEdgeRows(call.adapter, call.names, Arrives(call.server, Row(call, wires))) = Error
<1> DEFINE n == Len(call.params) + Len(call.stored)
           row == Row(call, wires)
<1>1. call.adapter = "turso"
  BY DEF WellFormed, EdgeServers
<1>2. n \in Nat /\ DOMAIN call.names = 1..n /\ Len(call.names) = n
  <2>1. Len(call.params) \in Nat /\ Len(call.stored) \in Nat
    <3>1. call.params \in Seq(Params(D)) /\ call.stored \in Seq(Cells(D))
      BY DEF WellFormed
    <3>. QED  BY <3>1
  <2>. QED  BY <2>1, SumIsNat DEF WellFormed
<1>3. row = [i \in 1..n |-> row[i]]
  BY DEF Row
<1>4. Len(row) = n
  <2> HIDE DEF n, row
  <2>. QED  BY <1>2, <1>3, LengthIs
<1>5. n >= 1
  <2> HIDE DEF n
  <2>. QED  BY <1>2
<1>6. CASE call.server = "short"
  <2> DEFINE short == [i \in 1..(n - 1) |-> row[i]]
  <2>1. Arrives(call.server, row) = short
    <3>1. Arrives(call.server, row) = SubSeq(row, 1, n - 1)
      BY <1>4, <1>6 DEF Arrives
    <3> HIDE DEF n, row
    <3>. QED  BY <1>2, <1>3, <1>5, <3>1, ShorterIs
  <2>2. Len(short) = n - 1
    <3>1. short = [i \in 1..(n - 1) |-> short[i]]
      OBVIOUS
    <3>2. n - 1 \in Nat
      <4> HIDE DEF n
      <4>. QED  BY <1>2, <1>5
    <3> HIDE DEF n, short
    <3>. QED  BY <3>1, <3>2, LengthIs
  <2>3. n - 1 # n
    <3> HIDE DEF n
    <3>. QED  BY <1>2
  <2>. QED  BY <1>1, <1>2, <2>1, <2>2, <2>3 DEF IntoEdgeRows, HranaRows
<1>7. CASE call.server = "corrupt"
  <2> DEFINE corrupt == [i \in 1..n |-> Wire("corrupt", row[i].is)]
  <2>1. Arrives(call.server, row) = corrupt
    BY <1>3, <1>7 DEF Arrives
  <2>2. \A i \in 1..n : FromHrana(corrupt[i]) = Error
    BY DEF FromHrana, Wire
  <2>3. \E i \in 1..n : TRUE
    BY <1>2
  <2> DEFINE read == [i \in DOMAIN corrupt |-> FromHrana(corrupt[i])]
  <2>4. \E i \in DOMAIN read : read[i] = Error
    BY <2>2, <2>3
  <2>5. Collected(ColumnNames(call.names), read) = Error
    <3> HIDE DEF read
    <3>. QED  BY <2>4 DEF Collected
  <2>. QED  BY <1>1, <2>1, <2>5 DEF IntoEdgeRows, HranaRows
<1>. QED  BY <1>6, <1>7

\* Every call is answered as EdgeAnswersTrue says (the clients' fetch_all_raw,
\* execute_raw and stream_raw).
LEMMA CallAnsweredTrue ==
  ASSUME NEW D, Distinct(D), WellFormed(D, argument), answer = EdgeCall(argument)
  PROVE  EdgeAnswersTrue
<1> DEFINE call == argument
           told == answer.told
           wires == Wires(call)
           row == Row(call, wires)
           configured == Config(call.adapter, call.settings)
           supported == \A i \in DOMAIN call.params : Supported(call.adapter, call.params[i])
           comesBack ==
             told.out = "ok" /\ call.by # "execute" =>
               \A i \in DOMAIN call.names :
                 Alone(call, i) => /\ NameOf(call, i) \in DOMAIN told.value
                                   /\ Same(call.adapter, Expected(call)[i], told.value[NameOf(call, i)])
           true ==
             /\ told.out = "ok" => answer.executed
             /\ told.out \in {"query", "unsupported", "config"} => ~answer.executed
             /\ call.server = "ok" => (told.out = "ok" <=> configured /\ supported)
             /\ comesBack
<1>0. /\ call.adapter \in {"turso", "d1"} /\ call.server \in EdgeServers(call.adapter)
      /\ configured \in BOOLEAN
      /\ \A i \in DOMAIN call.params : call.params[i] \in Params(D)
  BY DEF WellFormed
<1>1. supported <=> ~\E i \in DOMAIN wires : wires[i] = Error
  <2>1. \A i \in DOMAIN call.params : (wires[i] # Error) = Supported(call.adapter, call.params[i])
    BY <1>0, EncodedIfSupported DEF Wires
  <2>. QED  BY <2>1 DEF Wires
<1>5. true => EdgeAnswersTrue
  <2> SUFFICES ASSUME true
               PROVE  EdgeAnswersTrue
    OBVIOUS
  <2>1. configured /\ supported <=>
          /\ Config(call.adapter, call.settings)
          /\ \A i \in DOMAIN call.params :
               /\ call.params[i].is # NotFinite
               /\ call.params[i].kind # "Array"
               /\ call.params[i].kind = "Bytes" => call.adapter = "turso"
    BY DEF Supported
  <2>2. call.server = "ok" =>
          (told.out = "ok") = /\ Config(call.adapter, call.settings)
                              /\ \A i \in DOMAIN call.params :
                                   /\ call.params[i].is # NotFinite
                                   /\ call.params[i].kind # "Array"
                                   /\ call.params[i].kind = "Bytes" => call.adapter = "turso"
    BY <1>0, <2>1
  <2>3. comesBack
    OBVIOUS
  <2>4. (told.out = "ok" => answer.executed) /\ (told.out \in {"query", "unsupported", "config"} => ~answer.executed)
    OBVIOUS
  <2> HIDE DEF comesBack, true
  <2>. QED  BY <2>2, <2>3, <2>4 DEF EdgeAnswersTrue, Same, comesBack
<1>2. CASE ~configured
  <2>1. answer = [told |-> Told("config", Null), executed |-> FALSE]
    BY <1>2 DEF EdgeCall
  <2>. QED  BY <1>2, <1>5, <2>1 DEF Told
<1>3. CASE configured /\ ~supported
  <2>1. answer = [told |-> Told("unsupported", Null), executed |-> FALSE]
    BY <1>1, <1>3 DEF EdgeCall, Statement, Wires
  <2>. QED  BY <1>3, <1>5, <2>1 DEF Told
<1>4. CASE configured /\ supported
  <2> DEFINE out == Response(call.adapter, call.server)
  <2>1. answer = [told |-> Answer(call, row), executed |-> Executes(call.server)]
    BY <1>1, <1>4 DEF EdgeCall, Statement, Wires
  <2>2. /\ out = "ok" => Executes(call.server)
        /\ out = "query" => ~Executes(call.server)
        /\ out \in {"ok", "query", "protocol", "transport"}
        /\ call.server = "ok" => out = "ok"
        /\ out = "ok" /\ call.server \notin {"short", "corrupt"} => call.server = "ok"
    BY <1>0, ResponseTells
  <2>3. CASE out # "ok"
    <3>1. told = Told(out, Null)
      BY <2>1, <2>3 DEF Answer
    <3>. QED  BY <1>4, <1>5, <2>1, <2>2, <2>3, <3>1 DEF Told
  <2>4. CASE out = "ok" /\ call.by = "execute"
    <3>1. told = Told("ok", 1)
      BY <2>1, <2>4 DEF Answer
    <3>. QED  BY <1>4, <1>5, <2>1, <2>2, <2>4, <3>1 DEF Told
  <2>5. CASE out = "ok" /\ call.by # "execute"
    <3> DEFINE edge == IntoEdgeRows(call.adapter, call.names, Arrives(call.server, row))
    <3>1. told = IF edge = Error THEN Told("protocol", Null) ELSE Told("ok", edge)
      BY <2>1, <2>5 DEF Answer, FetchAll
    <3>2. CASE edge = Error
      <4>1. told = Told("protocol", Null)
        BY <3>1, <3>2
      <4>2. call.server # "ok"
        <5>1. call.server = "ok" => edge = Edged(call) /\ Edged(call) # Error
          BY <1>4, RowIsNamed DEF Arrives
        <5>. QED  BY <3>2, <5>1
      <4>. QED  BY <1>5, <2>1, <4>1, <4>2 DEF Told
    <3>3. CASE edge # Error
      <4>1. told = Told("ok", edge)
        BY <3>1, <3>3
      <4>2. CASE DOMAIN call.names = {}
        BY <1>4, <1>5, <2>1, <2>2, <2>5, <4>1, <4>2 DEF Told
      <4>3. CASE DOMAIN call.names # {}
        <5>1. call.server = "ok"
          <6>1. call.server \in {"short", "corrupt"} => edge = Error
            <7>1. Len(wires) = Len(call.params)
              BY DEF WellFormed, Wires
            <7>. QED  BY <4>3, <7>1, NoRowOutOfABadOne
          <6>. QED  BY <2>2, <2>5, <3>3, <6>1
        <5>2. edge = Edged(call)
          BY <1>4, <5>1, RowIsNamed DEF Arrives
        <5>3. ASSUME NEW i \in DOMAIN call.names, Alone(call, i)
              PROVE  /\ NameOf(call, i) \in DOMAIN edge
                     /\ Same(call.adapter, Expected(call)[i], edge[NameOf(call, i)])
          <6>1. edge[NameOf(call, i)] = ReadBack(call)[i]
            BY <1>4, <5>2, <5>3, RowIsNamed
          <6>2. i \in 1..(Len(call.params) + Len(call.stored))
            BY DEF WellFormed
          <6>3. Same(call.adapter, Expected(call)[i], ReadBack(call)[i])
            BY <1>4, <6>2, RowComesBack
          <6>. QED  BY <5>2, <6>1, <6>3 DEF Edged, Named
        <5>. QED  BY <1>4, <1>5, <2>1, <2>2, <2>5, <4>1, <5>3 DEF Told
      <4>. QED  BY <4>2, <4>3
    <3>. QED  BY <3>2, <3>3
  <2>. QED  BY <2>3, <2>4, <2>5
<1>. QED  BY <1>0, <1>2, <1>3, <1>4

\* For calls of any number of parameters and columns, under any names: whoever
\* is told that a statement succeeded finds it done and its values in the row,
\* and whoever is told that it was refused finds it not done
\* (turso/src/lib.rs, hrana.rs, d1/src/lib.rs, api.rs).
THEOREM EdgeAnswersAreTrue ==
  ASSUME NEW D, Distinct(D), NEW Calls, \A call \in Calls : WellFormed(D, call)
  PROVE  EdgeSpec(Calls) => []EdgeAnswersTrue
<1> DEFINE EdgeInv == argument \in Calls /\ (answer = Pending \/ answer = EdgeCall(argument))
<1>1. function = "edge" /\ argument \in Calls /\ answer = Pending => EdgeInv
  OBVIOUS
<1>2. EdgeInv /\ [Edge]_callvars => EdgeInv'
  BY DEF Edge, Return, Called, callvars
<1>3. EdgeInv => EdgeAnswersTrue
  <2>1. CASE answer = Pending
    BY <2>1 DEF EdgeAnswersTrue, Returned
  <2>2. ASSUME argument \in Calls, answer = EdgeCall(argument)
        PROVE  EdgeAnswersTrue
    BY <2>2, CallAnsweredTrue
  <2>. QED  BY <2>1, <2>2
<1>. QED  BY <1>1, <1>2, <1>3, PTL DEF EdgeSpec
=============================================================================

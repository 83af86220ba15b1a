-------------------------------- MODULE Values --------------------------------
(***************************************************************************)
(* The way of a value into a column and back: a field of a generated model *)
(* becomes a Value (crates/runtime/src/value.rs), a driver binds it, the   *)
(* database keeps it in a column of the field's type, and the generated    *)
(* row reader, perhaps of another driver of the database, decodes it       *)
(* (crates/codegen/src/emit.rs:877-1225, decode.rs, rusqlite.rs:755-1060). *)
(*                                                                         *)
(* A field is [type, list, optional, default].  What it holds is Null, a token that *)
(* stands for a value of the type, or a sequence of tokens.  A cell is     *)
(* NULL or [type, list, holds]: the type the database gives it and what    *)
(* was put there; a text holds the value it is the printed form of.        *)
(***************************************************************************)
EXTENDS Call, Sequences

CONSTANTS NaN,    \* the token of a Float that is not a number
          Default \* the token of a column's default

Rich == {"Decimal", "Uuid", "DateTime", "Date", "Time"}
Drivers == [sqlite |-> {"sqlx", "any", "rusqlite"}, postgres |-> {"sqlx", "tokio"}, mysql |-> {"sqlx"}]

-----------------------------------------------------------------------------
(* Values (Encodable).                                                      *)

One(type, token) == [kind |-> IF type = "Enum" THEN "String" ELSE type, is |-> token]
ToValue(field, data) ==
  IF data = Null THEN [kind |-> "Null", is |-> Null]
  ELSE IF field.list THEN [kind |-> "Array", is |-> [i \in DOMAIN data |-> One(field.type, data[i])]]
  ELSE One(field.type, data)

Cell(type, holds) == [type |-> type, list |-> FALSE, holds |-> holds]

(* as_json: what an element is in a JSON text.  serde_json has no NaN.      *)
AsJson(v) ==
  IF v.kind = "Bytes" THEN Error
  ELSE [json |-> IF v.is = NaN THEN "null"
                 ELSE IF v.kind \in {"Int", "BigInt", "Float"} THEN "number"
                 ELSE IF v.kind = "Boolean" THEN "bool"
                 ELSE IF v.kind = "Json" THEN "document"
                 ELSE "string",
        of |-> v]

\* Bug: bytes are written as a list of numbers.
ArrayToJson_Bytes(values) ==
  Cell("text", [i \in DOMAIN values |-> IF values[i].kind = "Bytes" THEN [json |-> "number", of |-> values[i]]
                                                       ELSE AsJson(values[i])])

ArrayToJson(values) ==
  LET items == [i \in DOMAIN values |-> AsJson(values[i])]
  IN  IF \E i \in DOMAIN values : values[i].kind = "Bytes" THEN Error
      ELSE Cell("text", items)

-----------------------------------------------------------------------------
(* Binding: the parameter a driver sends.                                   *)

(* sqlx::Sqlite, sqlx::MySql, rusqlite.                                     *)
BindAsText(v) ==
  CASE v.kind = "Null" -> Null
    [] v.kind = "Array" -> ArrayToJson(v.is)
    [] v.kind \in Rich \cup {"Json", "String"} -> Cell("text", v)
    [] v.kind = "Bytes" -> Cell("blob", v)
    [] v.kind = "Float" -> Cell("real", v)
    [] OTHER -> Cell("integer", v)

BindAny(v) == IF v.kind = "Array" THEN Error ELSE BindAsText(v)

(* sqlx::Postgres: every kind as its own type, and NULL as text.  An array  *)
(* is typed by its first element, and as text if it has none.               *)
BindTyped(v) ==
  CASE v.kind = "Null" -> Cell("String", Null)
    [] v.kind = "Array" -> [type |-> IF v.is = << >> THEN "String" ELSE v.is[1].kind, list |-> TRUE, holds |-> v.is]
    [] OTHER -> Cell(v.kind, v)

(* tokio-postgres, which is told the type of the column.                    *)
BindChecked(v) == IF v.kind = "Null" THEN Null ELSE BindTyped(v)

Bind(db, driver, v) ==
  CASE driver = "tokio" -> BindChecked(v)
    [] driver = "any" -> BindAny(v)
    [] OTHER -> IF db = "postgres" THEN BindTyped(v) ELSE BindAsText(v)

-----------------------------------------------------------------------------
(* The column (column_type of the dialects) and what the database makes of  *)
(* a parameter.                                                             *)

ColumnType(db, field) ==
  CASE db = "postgres" -> field.type
    [] db = "mysql" -> IF field.list THEN "Json" ELSE IF field.type \in {"Enum", "Uuid"} THEN "String" ELSE field.type
    [] db = "sqlite" -> IF field.list THEN "text"
                        ELSE CASE field.type \in {"Int", "BigInt", "Boolean"} -> "integer"
                               [] field.type = "Float" -> "real"
                               [] field.type = "Bytes" -> "blob"
                               [] OTHER -> "text"

(* Postgres assigns no text to a column of another type.  SQLite keeps NaN  *)
(* as NULL; MySQL refuses it.                                               *)
Assign(db, field, p) ==
  LET column == ColumnType(db, field)
      nan == field.type = "Float" /\ ~field.list /\ p.holds.is = NaN
  IN  IF p \in {Error, Null} THEN p
      ELSE CASE db = "sqlite" -> IF nan THEN Null ELSE p
             [] db = "mysql" -> IF nan THEN Error ELSE [p EXCEPT !.type = column]
             [] db = "postgres" -> IF p.type # column \/ p.list # field.list THEN Error
                                   ELSE IF p.holds = Null THEN Null ELSE p

(* A column of a field that is not optional is NOT NULL.                    *)
Store(db, field, p) ==
  LET cell == Assign(db, field, p)
  IN  IF cell = Null /\ ~field.optional THEN Error ELSE cell

(* default_sql: literals, and now(), which SQLite prints without an offset. *)
DefaultCell(db, field) ==
  IF db = "sqlite" /\ field.type = "DateTime" THEN Cell("text", [kind |-> "SqliteDateTime", is |-> Default])
  ELSE Cell(ColumnType(db, field), One(field.type, Default))

-----------------------------------------------------------------------------
(* Decoding.                                                                *)

(* FromStr: what the text is the printed form of.  chrono wants an offset.  *)
ParseAs(type, v) ==
  IF v.kind = type \/ (type = "Enum" /\ v.kind = "String") THEN v.is ELSE Error

(* serde: T from an element of a JSON text; of an enum it wants the name of *)
(* the variant, not the text that is stored for it.                         *)
Element(type, item) ==
  IF item.json = "null" \/ type = "Enum" THEN Error ELSE ParseAs(type, item.of)
Elements(type, items) ==
  IF \E i \in DOMAIN items : Element(type, items[i]) = Error THEN Error
  ELSE [i \in DOMAIN items |-> Element(type, items[i])]

(* The Rust types that sqlx takes from a cell (its Type::compatible).       *)
Compatible(db, driver, cell) ==
  IF db = "sqlite"
  THEN CASE cell.type = "text" -> IF driver = "any" THEN {"String"} ELSE {"String", "Vec<u8>", "Json"}
         [] cell.type = "integer" -> IF driver = "any" THEN {"i32", "i64"} ELSE {"bool", "i32", "i64"}
         [] cell.type = "real" -> {"f64"}
         [] cell.type = "blob" -> {"Vec<u8>"}
  ELSE CASE cell.type = "String" -> {"String"}
         [] cell.type = "Boolean" -> IF db = "mysql" THEN {"bool", "i64"} ELSE {"bool"}
         [] cell.type = "Int" -> {"i32"}
         [] cell.type = "BigInt" -> {"i64"}
         [] cell.type = "Float" -> {"f64"}
         [] cell.type = "Bytes" -> {"Vec<u8>"}
         [] cell.type = "Json" -> {"Json"}
         [] OTHER -> {}

TryGet(db, driver, cell, t) == IF t \in Compatible(db, driver, cell) THEN cell.holds ELSE Error

\* Bug: an optional column that cannot be decoded is taken for NULL.
TextIdx_Swallows(db, driver, field, cell) ==
  LET v == TryGet(db, driver, cell, "String")
      b == TryGet(db, driver, cell, "Vec<u8>")
  IN  IF v # Error THEN ParseAs(field.type, v) ELSE IF b # Error THEN ParseAs(field.type, b)
      ELSE IF field.optional THEN Null ELSE Error

(* decode.rs: text_idx, json_idx, json_text_idx, array_idx, boolean_idx,    *)
(* direct_idx, and the _opt_ forms of them.                                 *)
TextIdx(db, driver, field, cell) ==
  LET v == TryGet(db, driver, cell, "String")
      b == TryGet(db, driver, cell, "Vec<u8>")
  IN  IF v # Error THEN ParseAs(field.type, v) ELSE IF b # Error THEN ParseAs(field.type, b) ELSE Error

\* Bug: the native type is not tried.
JsonIdx_TextOnly(db, driver, field, cell) == TextIdx(db, driver, field, cell)
JsonIdx(db, driver, field, cell) ==
  LET j == TryGet(db, driver, cell, "Json")
  IN  IF driver # "any" /\ j # Error THEN ParseAs("Json", j) ELSE TextIdx(db, driver, field, cell)

ArrayIdx(db, driver, field, cell) ==
  LET items == TryGet(db, driver, cell, "String")
  IN  IF items = Error THEN Error ELSE Elements(field.type, items)

\* Bug: a boolean is expected to be one.
BooleanIdx_NativeOnly(db, driver, cell) ==
  LET v == TryGet(db, driver, cell, "bool") IN IF v # Error THEN v.is ELSE Error
BooleanIdx(db, driver, cell) ==
  LET v == TryGet(db, driver, cell, "bool")
      i == TryGet(db, driver, cell, "i64")
  IN  IF v # Error THEN v.is ELSE IF i # Error THEN i.is ELSE Error

DirectIdx(db, driver, t, cell) ==
  LET v == TryGet(db, driver, cell, t) IN IF v = Error THEN Error ELSE v.is

RustType == [String |-> "String", Int |-> "i32", BigInt |-> "i64", Float |-> "f64", Bytes |-> "Vec<u8>"]

(* emit_from_row_field: the reader that is generated for the rows of sqlx;  *)
(* of a list, what a reader written by hand takes from decode.rs, because   *)
(* what is generated for it is no Rust (name: name: expr,,).                *)
ReadSqlx(db, driver, field, cell) ==
  IF field.list
  THEN IF db = "postgres" THEN [i \in DOMAIN cell.holds |-> cell.holds[i].is] ELSE ArrayIdx(db, driver, field, cell)
  ELSE CASE field.type \in DOMAIN RustType -> DirectIdx(db, driver, RustType[field.type], cell)
         [] field.type = "Boolean" -> BooleanIdx(db, driver, cell)
         [] field.type = "Json" -> JsonIdx(db, driver, field, cell)
         [] OTHER -> TextIdx(db, driver, field, cell)

(* emit_from_rusqlite_row_field, scalar_rusqlite_expr.                      *)
ReadRusqlite(field, cell) ==
  CASE field.type \in {"Int", "BigInt", "Boolean"} -> IF cell.type = "integer" THEN cell.holds.is ELSE Error
    [] field.type = "Float" -> IF cell.type \in {"real", "integer"} THEN cell.holds.is ELSE Error
    [] field.type = "Bytes" -> IF cell.type = "blob" THEN cell.holds.is ELSE Error
    [] OTHER -> IF cell.type = "text" THEN ParseAs(field.type, cell.holds) ELSE Error

(* FromValue: of a value that was copied out of the row.                    *)
FromValue(type, cell) ==
  CASE type \in {"Int", "BigInt", "Float"} /\ cell.type \in {"integer", "real"} -> cell.holds.is
    [] type = "Boolean" /\ cell.type = "integer" -> cell.holds.is
    [] type = "Bytes" /\ cell.type = "blob" -> cell.holds.is
    [] type # "Bytes" /\ cell.type = "text" -> ParseAs(type, cell.holds)
    [] OTHER -> Error

(* emit_from_owned_row_field, Row::get: of the rows of a batch.  A list is  *)
(* read from its JSON text.                                                 *)
ReadOwned(field, cell) ==
  IF ~field.list THEN FromValue(field.type, cell)
  ELSE IF cell.type = "text" THEN Elements(field.type, cell.holds) ELSE Error

(* emit_from_tokio_postgres_row_field.                                      *)
ReadTokio(field, cell) ==
  IF field.list THEN [i \in DOMAIN cell.holds |-> cell.holds[i].is]
  ELSE IF field.type = "Enum" /\ cell.type # "String" THEN Error ELSE cell.holds.is

Read(db, driver, field, cell) ==
  IF cell = Error THEN Error
  ELSE IF cell = Null THEN IF field.optional THEN Null ELSE Error
  ELSE CASE driver = "rusqlite" -> ReadRusqlite(field, cell)
         [] driver = "owned" -> ReadOwned(field, cell)
         [] driver = "tokio" -> ReadTokio(field, cell)
         [] OTHER -> ReadSqlx(db, driver, field, cell)

\* Bug: create writes NULL for a field that is None, too.
Written_NoDefault(c) == Store(c.db, c.field, Bind(c.db, c.writer, ToValue(c.field, c.data)))

(* create leaves out a field that is None, for the default of its column;  *)
(* create_many writes NULL for it (emit_insert_set, emit_insert_many_field). *)
Written(c) ==
  IF c.data = Null /\ c.by = "create"
  THEN IF c.field.default THEN DefaultCell(c.db, c.field) ELSE Null
  ELSE Store(c.db, c.field, Bind(c.db, c.writer, ToValue(c.field, c.data)))

WriteAndRead(c) == [stored |-> Written(c) # Error, read |-> Read(c.db, c.reader, c.field, Written(c))]

Value == Called("value") /\ Return(WriteAndRead(argument))

-----------------------------------------------------------------------------
(* Property.                                                                *)

Meant(c) == IF c.data = Null /\ c.field.default /\ c.by = "create" THEN Default ELSE c.data

(* What cannot be written.                                                  *)
Refused(c) ==
  \/ c.db = "postgres" /\ c.field.type = "Enum" /\ c.data # Null
  \/ c.db = "postgres" /\ c.writer = "sqlx" /\ c.data = Null /\ c.by = "create_many" /\ c.field.type # "String"
  \/ c.db = "postgres" /\ c.field.list /\ c.data = << >> /\ c.field.type # "String"
  \/ c.db # "postgres" /\ c.field.list /\ (c.writer = "any" \/ (c.field.type = "Bytes" /\ c.data # << >>))
  \/ c.data = NaN /\ (c.db = "mysql" \/ (c.db = "sqlite" /\ ~c.field.optional))
  \/ c.data = Null /\ c.by = "create_many" /\ ~c.field.optional

(* What the generated readers cannot decode although it was written.        *)
Unreadable(c) ==
  \/ c.db = "postgres" /\ c.reader = "sqlx" /\ ~c.field.list /\ c.field.type \in Rich \cup {"Enum"}
  \/ c.db = "mysql" /\ (c.field.list \/ c.field.type \in Rich \ {"Uuid"})
  \/ c.db # "postgres" /\ c.field.list /\ \E i \in DOMAIN c.data : c.field.type = "Enum" \/ c.data[i] = NaN
  \/ c.db = "sqlite" /\ c.field.type = "DateTime" /\ Meant(c) = Default

(* What was written through one driver is read back as it was through every *)
(* driver of the database, or not at all: no value is taken for another, or *)
(* for none, but for NaN, which SQLite keeps as NULL; and what the column   *)
(* took is read, but where the reader and the type of the column do not     *)
(* fit, for every value of the type (value.rs, decode.rs, emit.rs:877-1225).*)
ValuesReadBack ==
  Returned("value") =>
    LET c == argument
    IN  /\ answer.stored = ~Refused(c)
        /\ answer.stored /\ Meant(c) # Null => (answer.read = Error) = Unreadable(c)
        /\ answer.stored /\ Meant(c) = Null => answer.read = Null
        /\ answer.read # Error => answer.read = Meant(c) \/ (c.db = "sqlite" /\ c.data = NaN /\ answer.read = Null)
=============================================================================

----------------------------- MODULE EdgeClient -----------------------------
(***************************************************************************)
(* The clients of databases behind HTTP (crates/turso, crates/d1): what is *)
(* configured, one statement with its parameters sent as one request, and  *)
(* what the caller is told of the answer, if there is one.                 *)
(*                                                                         *)
(* The statement is an INSERT ... RETURNING of the parameters and of the   *)
(* columns `stored` that the database fills in, under `names`.  A Value is *)
(* [kind, is]; what the database keeps, and a parameter or an answer on    *)
(* the wire, is [type, is], or Error where there is no form for it.        *)
(***************************************************************************)
EXTENDS Call, Naturals, Sequences, FiniteSets

CONSTANTS NoName,     \* the name of a column that has none
          Positional,  \* the names column_0, column_1, ..., by position from 1
          NotFinite,   \* the F64 that is not a number, or infinite
          Whole,       \* the F64 that is a whole number
          Big, Rounded \* an I64 beyond 2^53, and the double next to it

Wire(type, is) == [type |-> type, is |-> is]
Val(kind, is) == [kind |-> kind, is |-> is]
Texts == {"Decimal", "Str", "Uuid", "DateTime", "Date", "Time", "Json"}
Integers == {"Bool", "I32", "I64"}

-----------------------------------------------------------------------------
(* The builders.                                                            *)

TursoConfig(settings) ==
  /\ settings.url # Null
  /\ settings.url.scheme \in {"libsql", "wss", "https", "ws", "http"}
  /\ settings.url.host
D1Config(settings) == settings.account /\ settings.database /\ settings.token
Config(adapter, settings) == IF adapter = "turso" THEN TursoConfig(settings) ELSE D1Config(settings)

-----------------------------------------------------------------------------
(* Parameters and answers.                                                  *)

\* Bug: a float that has no JSON form is sent as null.
ToHrana_Null(v) ==
  CASE v.kind = "Null" -> Wire("null", Null)
    [] v.kind \in Integers -> Wire("integer", v.is)
    [] v.kind = "F64" -> IF v.is = NotFinite THEN Wire("null", Null) ELSE Wire("float", v.is)
    [] v.kind = "Bytes" -> Wire("blob", v.is)
    [] v.kind = "Array" -> Error
    [] OTHER -> Wire("text", v.is)

(* Integers travel as strings, bytes as base64.                             *)
ToHrana(v) ==
  CASE v.kind = "Null" -> Wire("null", Null)
    [] v.kind \in Integers -> Wire("integer", v.is)
    [] v.kind = "F64" -> IF v.is = NotFinite THEN Error ELSE Wire("float", v.is)
    [] v.kind = "Bytes" -> Wire("blob", v.is)
    [] v.kind = "Array" -> Error
    [] v.kind \in Texts -> Wire("text", v.is)

FromHrana(w) ==
  CASE w.type = "null" -> Val("Null", Null)
    [] w.type = "integer" -> Val("I64", w.is)
    [] w.type = "float" -> Val("F64", w.is)
    [] w.type = "text" -> Val("Str", w.is)
    [] w.type = "blob" -> Val("Bytes", w.is)
    [] OTHER -> Error                       \* no integer, or no base64

ToJson(v) ==
  CASE v.kind = "Null" -> Wire("null", Null)
    [] v.kind \in Integers -> Wire("number", v.is)
    [] v.kind = "F64" -> IF v.is = NotFinite THEN Error ELSE Wire("number", v.is)
    [] v.kind \in {"Bytes", "Array"} -> Error
    [] v.kind \in Texts -> Wire("string", v.is)

(* A number that has no fraction is read as an integer.                     *)
FromJson(w) ==
  CASE w.type = "null" -> Val("Null", Null)
    [] w.type = "number" -> Val("I64", w.is)
    [] w.type = "fraction" -> Val("F64", w.is)
    [] w.type = "string" -> Val("Str", w.is)
    [] w.type = "array" -> Val("Json", w.is)

Encode(adapter, v) == IF adapter = "turso" THEN ToHrana(v) ELSE ToJson(v)

-----------------------------------------------------------------------------
(* The servers: what the database keeps of a parameter, and what it sends   *)
(* of a cell.  D1 holds every number as a double, and has no JSON for bytes *)
(* but a list.                                                              *)

CellOf(v, w) ==
  CASE w.type = "float" -> Wire("real", w.is)
    [] w.type = "number" -> Wire(IF v.kind = "F64" THEN "real" ELSE "integer", IF w.is = Big THEN Rounded ELSE w.is)
    [] w.type = "string" -> Wire("text", w.is)
    [] OTHER -> w
Sent(adapter, cell) ==
  IF adapter = "turso" THEN IF cell.type = "real" THEN Wire("float", cell.is) ELSE cell
  ELSE
  CASE cell.type = "integer" -> Wire("number", IF cell.is = Big THEN Rounded ELSE cell.is)
    [] cell.type = "real" -> Wire(IF cell.is = Whole THEN "number" ELSE "fraction", cell.is)
    [] cell.type = "text" -> Wire("string", cell.is)
    [] cell.type = "blob" -> Wire("array", cell.is)
    [] OTHER -> cell

(* What can become of a request: some never reach the database, some are    *)
(* refused by it, and some answers are lost on the way ("lost", "gateway")  *)
(* or are not what they should be.                                          *)
Unsent == {"unreachable", "status"}
Refusals == {"refused", "skipped"}
Executes(server) == server \notin Unsent \cup Refusals

-----------------------------------------------------------------------------
(* The statement.                                                           *)

\* Bug: the failure of the step is not looked at, only its result.
SingleExecute_ResultFirst(server) == IF server \in {"empty", "other", "skipped"} THEN "protocol" ELSE "ok"

SingleExecute(server) ==
  CASE server = "refused" -> "query"
    [] server \in {"empty", "other", "skipped"} -> "protocol"
    [] OTHER -> "ok"

SingleResult(server) ==
  CASE server = "refused" -> "query"
    [] server = "empty" -> "protocol"
    [] OTHER -> "ok"

(* The status is looked at before the body.                                 *)
Pipeline(server) ==
  CASE server \in {"unreachable", "lost"} -> "transport"
    [] server \in {"status", "gateway", "garbled"} -> "protocol"
    [] OTHER -> SingleExecute(server)

(* The body is looked at before the status: a failure has an envelope too.  *)
QueryD1(server) ==
  CASE server \in {"unreachable", "lost"} -> "transport"
    [] server \in {"status", "gateway", "garbled"} -> "protocol"
    [] OTHER -> SingleResult(server)

Response(adapter, server) == IF adapter = "turso" THEN Pipeline(server) ELSE QueryD1(server)

\* Bug: a column without a name is left without one.
ColumnNames_AsSent(names) == names
ColumnNames(names) == [i \in DOMAIN names |-> IF names[i] = NoName THEN Positional[i] ELSE names[i]]

(* A row is a map from names: of two columns of one name the last is kept.  *)
LastOf(names, name) == CHOOSE i \in DOMAIN names : names[i] = name /\ \A j \in DOMAIN names : names[j] = name => j <= i
Collected(names, values) ==
  IF \E i \in DOMAIN values : values[i] = Error THEN Error
  ELSE [name \in {names[i] : i \in DOMAIN names} |-> values[LastOf(names, name)]]

HranaRows(names, row) ==
  IF Len(row) # Len(names) THEN Error
  ELSE Collected(ColumnNames(names), [i \in DOMAIN row |-> FromHrana(row[i])])
D1Rows(names, row) == Collected(names, [i \in DOMAIN row |-> FromJson(row[i])])
IntoEdgeRows(adapter, names, row) == IF adapter = "turso" THEN HranaRows(names, row) ELSE D1Rows(names, row)

\* The row as it arrives.
Arrives(server, row) ==
  CASE server = "short" -> SubSeq(row, 1, Len(row) - 1)
    [] server = "corrupt" -> [i \in DOMAIN row |-> Wire("corrupt", row[i].is)]
    [] OTHER -> row

Told(out, value) == [out |-> out, value |-> value]
FetchAll(adapter, names, row) ==
  LET edge == IntoEdgeRows(adapter, names, row) IN IF edge = Error THEN Told("protocol", Null) ELSE Told("ok", edge)

(* fetch_all_raw, execute_raw (which asks for no rows) and stream_raw.      *)
Answer(call, row) ==
  LET out == Response(call.adapter, call.server)
  IN  IF out # "ok" THEN Told(out, Null)
      ELSE IF call.by = "execute" THEN Told("ok", 1)
      ELSE FetchAll(call.adapter, call.names, Arrives(call.server, row))

Row(call, wires) ==
  [i \in 1..(Len(wires) + Len(call.stored)) |->
     Sent(call.adapter, IF i <= Len(wires) THEN CellOf(call.params[i], wires[i]) ELSE call.stored[i - Len(wires)])]

Statement(call, wires) ==
  IF \E i \in DOMAIN wires : wires[i] = Error
  THEN [told |-> Told("unsupported", Null), executed |-> FALSE]
  ELSE [told |-> Answer(call, Row(call, wires)), executed |-> Executes(call.server)]

EdgeCall(call) ==
  IF ~Config(call.adapter, call.settings) THEN [told |-> Told("config", Null), executed |-> FALSE]
  ELSE Statement(call, [i \in DOMAIN call.params |-> Encode(call.adapter, call.params[i])])

Edge == Called("edge") /\ Return(EdgeCall(argument))

-----------------------------------------------------------------------------
(* Property.                                                                *)

\* What a value or a cell stands for, whatever it is kept or printed as.
Expected(call) ==
  [i \in 1..(Len(call.params) + Len(call.stored)) |->
     IF i <= Len(call.params) THEN call.params[i].is ELSE call.stored[i - Len(call.params)].is]
NameOf(call, i) == IF call.names[i] = NoName THEN Positional[i] ELSE call.names[i]
Alone(call, i) == \A j \in DOMAIN call.names : NameOf(call, j) = NameOf(call, i) => j = i

(* Whoever is told that a statement succeeded finds it done, and in the row *)
(* every value that was bound or kept, under the name of its column, unless *)
(* another column has it too; NULL stands for nothing but NULL, and only D1 *)
(* rounds, beyond 2^53.  Whoever is told that the statement failed, is not  *)
(* supported or is badly configured finds it not done; and only a lost or   *)
(* unreadable answer leaves it open (turso/src/lib.rs:252, hrana.rs:255,    *)
(* d1/src/lib.rs:236, api.rs:66).                                           *)
EdgeAnswersTrue ==
  Returned("edge") =>
    LET call == argument
        told == answer.told
    IN  /\ told.out = "ok" => answer.executed
        /\ told.out \in {"query", "unsupported", "config"} => ~answer.executed
        /\ call.server = "ok" =>
             (told.out = "ok") = /\ Config(call.adapter, call.settings)
                                 /\ \A i \in DOMAIN call.params :
                                      /\ call.params[i].is # NotFinite
                                      /\ call.params[i].kind # "Array"
                                      /\ call.params[i].kind = "Bytes" => call.adapter = "turso"
        /\ told.out = "ok" /\ call.by # "execute" =>
             \A i \in DOMAIN call.names :
               LET read == told.value[NameOf(call, i)]
                   is == Expected(call)[i]
               IN  Alone(call, i) => /\ NameOf(call, i) \in DOMAIN told.value
                                     /\ read.is = is \/ (call.adapter = "d1" /\ is = Big /\ read.is = Rounded)
                                     /\ (read.kind = "Null") = (is = Null)
=============================================================================

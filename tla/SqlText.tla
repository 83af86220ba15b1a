------------------------------- MODULE SqlText -------------------------------
(***************************************************************************)
(* What is read from the text of a statement without a database:           *)
(* ruprizzle check (crates/check/src/validate.rs) looks for tables and     *)
(* columns the schema has not, the router (crates/runtime/src/pool.rs)     *)
(* decides whether a replica may run it, and the metrics                   *)
(* (crates/runtime/src/executor.rs) name what it does and to which table.  *)
(*                                                                         *)
(* A statement is a sequence of lexemes.  A word stands for itself, and is *)
(* written in capitals when it is SQL's (the code compares those without   *)
(* regard to case); a name carries the backticks or the nothing MySQL and  *)
(* the caller put around it, which no reader sees.                         *)
(***************************************************************************)
EXTENDS SqlSplit

Word(w) == [is |-> "word", words |-> <<w>>]
Dot == [is |-> "dot", words |-> << >>]
Sign == [is |-> "sign", words |-> << >>]               \* a parenthesis, a comma, an operator
InQuotes(words) == [is |-> "literal", words |-> words]  \* 'between quotes'
Remark(words) == [is |-> "remark", words |-> words]    \* a comment, which the readers below treat alike

Words(ws) == [i \in DOMAIN ws |-> Word(ws[i])]

-----------------------------------------------------------------------------
(* check: names that the schema has not.  A schema is the columns of each   *)
(* of its tables.                                                           *)

Quotes == "''"       \* the token a literal becomes, quotes included

Tokenise(sql) ==
  FlattenSeq([i \in DOMAIN sql |-> CASE sql[i].is = "dot" -> <<".">>
                                     [] sql[i].is = "literal" -> <<Quotes>>
                                     [] OTHER -> sql[i].words])

Keywords ==
  {"SELECT", "FROM", "WHERE", "AND", "OR", "NOT", "INSERT", "UPDATE", "DELETE", "JOIN", "INNER", "LEFT", "RIGHT",
   "FULL", "OUTER", "ON", "GROUP", "BY", "ORDER", "LIMIT", "OFFSET", "HAVING", "VALUES", "SET", "AS", "WITH", "UNION",
   "ALL", "DISTINCT", "IS", "NULL", "TRUE", "FALSE", "IN", "BETWEEN", "LIKE", "EXISTS", "CASE", "WHEN", "THEN",
   "ELSE", "END", "RETURNING"}
TableComesNext == {"FROM", "JOIN", "INTO", "UPDATE", "TABLE"}
LooksLikeIdentifier(token) == token \notin {Quotes, ".", "*", "1"}

TokenAt(tokens, i) == IF i \in DOMAIN tokens THEN tokens[i] ELSE ""

(* Mutant: a name with a dot behind it is taken for a table.                *)
UnknownTable_Dotted(schema, tokens, i) ==
  /\ tokens[i] \notin DOMAIN schema \cup Keywords
  /\ LooksLikeIdentifier(tokens[i]) /\ TokenAt(tokens, i - 1) \in TableComesNext

UnknownTable(schema, tokens, i) ==
  /\ tokens[i] \notin DOMAIN schema \cup Keywords
  /\ LooksLikeIdentifier(tokens[i]) /\ TokenAt(tokens, i - 1) \in TableComesNext
  /\ TokenAt(tokens, i + 1) # "."          \* schema.table is not looked up

UnknownColumn(schema, tokens, i) ==
  /\ tokens[i] \in DOMAIN schema /\ TokenAt(tokens, i + 1) = "."
  /\ TokenAt(tokens, i + 2) \notin schema[tokens[i]] \cup {"", "*"}

ValidateRaw(schema, tokens) ==
  {<<"table", tokens[i]>> : i \in {i \in DOMAIN tokens : UnknownTable(schema, tokens, i)}}
  \cup {<<"column", tokens[i], tokens[i + 2]>> : i \in {i \in DOMAIN tokens : UnknownColumn(schema, tokens, i)}}

(* A parameter is recorded under the name of a field, or of a column, of    *)
(* the first table the statement names.  Types are families of the names a  *)
(* parameter's type may have; text is taken for anything it can be read as. *)
Accepts ==
  [Int |-> {"int"}, BigInt |-> {"int", "bigint"}, Float |-> {"float"}, Decimal |-> {"decimal", "string"},
   String |-> {"string"}, Boolean |-> {"bool"}, DateTime |-> {"datetime", "string"}, Uuid |-> {"uuid", "string"},
   Json |-> {"int", "bigint", "float", "decimal", "string", "bool", "datetime", "uuid", "bytes"},
   Bytes |-> {"bytes"}, Enum |-> {"string"}]

ParamField(fields, name) ==
  LET byname == {f \in fields : f.name = name}
      bycolumn == {f \in fields : f.column = name}
  IN  IF byname # {} THEN byname ELSE bycolumn     \* one field, or none

(* A list is checked as its elements are.                                   *)
ValidateParam(f, param) ==
  (IF f.type # "Relation" /\ param.type \notin Accepts[f.type] THEN {<<"type", f.column>>} ELSE {})
  \cup (IF ~f.optional /\ param.nullable /\ ~f.default THEN {<<"null", f.column>>} ELSE {})

ValidateParams(fields, params) ==
  UNION {UNION {ValidateParam(f, p) : f \in ParamField(fields, p.name)} : p \in params}

(* validate_manifest.  A manifest without a fingerprint fits any schema, so *)
(* does the start of the right one.                                         *)
MatchesSchema(hash) == hash \in {"none", "same", "prefix"}

(* The manifest: its fingerprint, a statement, the fields of the table that *)
(* statement names first, and its parameters.                               *)
ValidateManifest(schema, m) ==
  (IF MatchesSchema(m.hash) THEN {} ELSE {<<"stale">>})
  \cup ValidateRaw(schema, Tokenise(m.sql)) \cup ValidateParams(m.fields, m.params)

-----------------------------------------------------------------------------
(* The name to suggest for one that is not there: names are sequences of    *)
(* letters, SameLetter what eq_ignore_ascii_case makes of two.                   *)

Upper == "a" :> "A" @@ "A" :> "A" @@ "b" :> "B" @@ "B" :> "B"
SameLetter(x, y) == Upper[x] = Upper[y]

Smallest(S) == CHOOSE n \in S : \A m \in S : n <= m

(* Mutant: the letter in hand is replaced for nothing.                      *)
NextDistance_FreeSwap(before, done, x, y, j) == Smallest({done + 1, before[j + 1] + 1, before[j]})

(* One cell of the row in hand, from the row before and the cell before.    *)
NextDistance(before, done, x, y, j) ==
  Smallest({done + 1, before[j + 1] + 1, before[j] + IF SameLetter(x, y) THEN 0 ELSE 1})

Levenshtein(a, b) ==
  LET NextRow(before, i) ==
        FoldLeftDomain(LAMBDA row, j : Append(row, NextDistance(before, Last(row), a[i], b[j], j)), <<i>>, b)
  IN  Last(FoldLeftDomain(NextRow, [j \in 1..(Len(b) + 1) |-> j - 1], a))

(* find_best_match: the nearest of those at most three away.  The tables    *)
(* come in no order, so any of the nearest may be suggested.                *)
BestMatches(candidate, options) ==
  LET near == {o \in options : Levenshtein(candidate, o) <= 3}
  IN  {o \in near : \A p \in near : Levenshtein(candidate, o) <= Levenshtein(candidate, p)}

-----------------------------------------------------------------------------
(* The router: which statements a replica may run.                          *)

ReadStart == {"SELECT", "WITH", "VALUES", "TABLE", "SHOW"}
NotOnReplica == {"INSERT", "UPDATE", "DELETE", "MERGE", "INTO", "RETURNING", "LOCK", "SHARE", "NEXTVAL", "SETVAL"}

RECURSIVE StripLeadingComments(_)
StripLeadingComments(sql) ==
  IF sql # << >> /\ Head(sql).is = "remark" THEN StripLeadingComments(Tail(sql)) ELSE sql

(* Mutant: only the first word counts.                                      *)
IsReplicaSafe_FirstWord(sql) ==
  LET words == FlattenSeq([i \in DOMAIN StripLeadingComments(sql) |-> StripLeadingComments(sql)[i].words])
  IN  words # << >> /\ Head(words) \in ReadStart

(* Every word counts, in a literal or a later comment too.                  *)
IsReplicaSafe(sql) ==
  LET words == FlattenSeq([i \in DOMAIN StripLeadingComments(sql) |-> StripLeadingComments(sql)[i].words])
  IN  words # << >> /\ Head(words) \in ReadStart /\ ToSet(Tail(words)) \cap NotOnReplica = {}

-----------------------------------------------------------------------------
(* The metrics: the operation and the table.                                *)

(* The text cut at its blanks, literals too, whose quotes are trimmed off.  *)
Spaced(sql) == FlattenSeq([i \in DOMAIN sql |-> IF sql[i].is = "literal" THEN Words(sql[i].words) ELSE <<sql[i]>>])

(* The name at i, a sequence of words: with its schema before it, or none.  *)
NameAt(text, i) ==
  IF i \notin DOMAIN text THEN << >>
  ELSE text[i].words \o (IF i + 2 \in DOMAIN text /\ text[i + 1].is = "dot" THEN text[i + 2].words ELSE << >>)

(* The name after the first `word`.                                         *)
NameAfter(text, word) ==
  LET at == {i \in DOMAIN text : text[i].words = <<word>> /\ i > 1}
  IN  IF at = {} THEN << >> ELSE NameAt(text, Smallest(at) + 1)

InferOperationAndTable(sql) ==
  LET text == Spaced(sql)
      first == IF sql = << >> THEN Sign ELSE sql[1]
  IN  CASE first \in {Word("SELECT"), Word("DELETE")} -> first.words \o NameAfter(text, "FROM")
        [] first = Word("INSERT") -> <<"INSERT">> \o NameAfter(text, "INTO")
        [] first = Word("UPDATE") -> <<"UPDATE">> \o NameAt(text, 2)
        [] OTHER -> <<"QUERY">>

-----------------------------------------------------------------------------
(* What a statement is, and how it is written.                              *)

Table(s) == IF s.within THEN <<Word("app"), Dot, Word(s.table)>> ELSE <<Word(s.table)>>
Selected(s) == IF s.ref = << >> THEN <<Word("*")>> ELSE <<Word(s.ref[1]), Dot, Word(s.ref[2])>>
Joined(s) == IF s.join = "" THEN << >>
             ELSE Words(<<"INNER", "JOIN", s.join, "ON">>) \o <<Word(s.join), Dot, Word("id"), Sign, Word("1")>>
Condition(s) == Words(<<"WHERE", "name">>) \o <<Sign, InQuotes(s.said)>>
Locking == [none |-> << >>, update |-> <<"FOR", "UPDATE">>, share |-> <<"FOR", "SHARE">>,
            mode |-> <<"LOCK", "IN", "SHARE", "MODE">>]
Leading == [none |-> << >>, comment |-> <<Remark(<<"SELECT">>)>>, two |-> <<Remark(<<"hint">>), Remark(<<"hint">>)>>]
Preceding ==
  [none |-> << >>,
   read |-> Words(<<"WITH", "recent", "AS">>) \o <<Sign>> \o Words(<<"SELECT", "id", "FROM", "posts">>) \o <<Sign>>,
   write |-> Words(<<"WITH", "gone", "AS">>) \o <<Sign>> \o Words(<<"DELETE", "FROM", "posts", "RETURNING", "id">>) \o <<Sign>>]

Body(s) ==
  CASE s.verb = "SELECT" -> <<Word("SELECT")>> \o Selected(s) \o <<Word("FROM")>> \o Table(s) \o Joined(s) \o Condition(s)
    [] s.verb = "NEXTVAL" -> Words(<<"SELECT", "NEXTVAL">>) \o <<Sign, InQuotes(s.said), Sign>>
    [] s.verb = "COPY" -> Words(<<"SELECT", "*", "INTO", "backup", "FROM">>) \o Table(s)
    [] s.verb = "INSERT" -> Words(<<"INSERT", "INTO">>) \o Table(s) \o <<Sign, Word("id"), Sign, Word("VALUES"), Sign, InQuotes(s.said), Sign>>
    [] s.verb = "UPDATE" -> <<Word("UPDATE")>> \o Table(s) \o Words(<<"SET", "name">>) \o <<Sign, InQuotes(s.said)>>
    [] s.verb = "DELETE" -> Words(<<"DELETE", "FROM">>) \o Table(s) \o Condition(s)
    [] s.verb = "TABLE" -> <<Word("TABLE")>> \o Table(s)
    [] s.verb = "CALL" -> Words(<<"CALL", "refresh">>) \o <<Sign, Sign>>
Sql(s) == Leading[s.lead] \o Preceding[s.with] \o Body(s) \o Words(Locking[s.lock])

ReadSql ==
  LET m == argument.statement @@ [sql |-> Sql(argument.statement)]
  IN  /\ Called("statement")
      /\ Return([errors |-> ValidateManifest(argument.schema, m), replica |-> IsReplicaSafe(m.sql),
                 counted |-> InferOperationAndTable(m.sql)])

Suggest == Called("suggest") /\ Return(BestMatches(argument.candidate, argument.options))

-----------------------------------------------------------------------------
(* Properties.                                                              *)

ChangesOrLocks(s) == s.with = "write" \/ s.lock # "none" \/ s.verb \in {"NEXTVAL", "COPY", "INSERT", "UPDATE", "DELETE", "CALL"}

NamesIn(s) == (IF s.within \/ s.verb \in {"NEXTVAL", "CALL"} THEN {} ELSE {s.table})
              \cup (IF s.verb = "SELECT" THEN {s.join} \ {""} ELSE {})

(* The null or the text of a wrong type that the column a parameter is for  *)
(* would refuse.                                                            *)
Unbindable(fields, params) ==
  LET For(p) == {f \in fields : f.name = p.name \/ f.column = p.name}
  IN  UNION {{<<"null", f.column>> : f \in {f \in For(p) : ~f.optional /\ ~f.default /\ p.nullable}} : p \in params}
      \cup UNION {{<<"type", f.column>> : f \in {f \in For(p) : f.type # "Relation" /\ p.type \notin Accepts[f.type]}} : p \in params}

Missing(schema, s) ==
  {<<"table", t>> : t \in NamesIn(s) \ DOMAIN schema}
  \cup {<<"column", t, "id">> : t \in {t \in {s.join} \cap DOMAIN schema : s.verb = "SELECT" /\ "id" \notin schema[t]}}
  \cup (IF s.verb = "SELECT" /\ s.ref # << >> /\ s.ref[1] \in DOMAIN schema /\ s.ref[2] \notin schema[s.ref[1]] \cup {"*"}
          THEN {<<"column", s.ref[1], s.ref[2]>>} ELSE {})
  \cup (IF s.hash = "other" THEN {<<"stale">>} ELSE {})

(* A statement that writes, locks or advances a sequence is never sent to a *)
(* replica, whatever stands before it, around it or in its literals, and a  *)
(* read whose words are harmless may be (pool.rs:868); ruprizzle check      *)
(* reports every table and column, written without double quotes, that the  *)
(* schema has not, and only those (validate.rs:197); what is counted under  *)
(* a table is about that table (executor.rs:281).                           *)
StatementsRead ==
  Returned("statement") =>
    LET s == argument.statement
    IN  /\ answer.replica => ~ChangesOrLocks(s)
        /\ ~ChangesOrLocks(s) /\ s.said = <<"x">> => answer.replica
        /\ s.verb # "COPY" => answer.errors = Missing(argument.schema, s) \cup Unbindable(s.fields, s.params)
        /\ s.lead = "none" /\ s.with = "none" /\ s.verb \in {"SELECT", "INSERT", "UPDATE", "DELETE"} =>
             answer.counted = <<s.verb>> \o (IF s.within THEN <<"app">> ELSE << >>) \o <<s.table>>

(* The names suggested are the nearest by edits: a letter put in, left out  *)
(* or replaced.                                                             *)
RECURSIVE Edits(_, _)
Edits(a, b) ==
  IF a = << >> \/ b = << >> THEN Len(a) + Len(b)
  ELSE IF SameLetter(Head(a), Head(b)) THEN Edits(Tail(a), Tail(b))
  ELSE 1 + Smallest({Edits(Tail(a), b), Edits(a, Tail(b)), Edits(Tail(a), Tail(b))})

Suggested ==
  Returned("suggest") =>
    LET near == {o \in argument.options : Edits(argument.candidate, o) <= 3}
    IN  answer = {o \in near : \A p \in near : Edits(argument.candidate, o) <= Edits(argument.candidate, p)}
=============================================================================

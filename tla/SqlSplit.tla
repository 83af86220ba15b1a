------------------------------- MODULE SqlSplit -------------------------------
(***************************************************************************)
(* split_statements (crates/migrate/src/runner.rs:631-736): the text of a  *)
(* migration is cut into the statements that are sent one by one.  A text  *)
(* is a sequence of characters; "nl" is a newline, "a" stands for any      *)
(* letter, "1" for any digit and "." for what means nothing to anybody.    *)
(***************************************************************************)
EXTENDS Call, Naturals, SequencesExt

Blank == {" ", "nl"}
Letters == {"a"}
WordChars == Letters \cup {"1"}

Occurs(text, i, part) == i + Len(part) - 1 <= Len(text) /\ SubSeq(text, i, i + Len(part) - 1) = part

(* The first place from i on where part occurs, or 0.                       *)
FirstOf(text, i, part) == SelectInSubSeq([k \in DOMAIN text |-> k], i, Len(text), LAMBDA k : Occurs(text, k, part))

\* Bug: a tag may begin with a digit, as a placeholder does.
DollarTag_AnyName(text, i) ==
  LET j == SelectInSubSeq(text, i + 1, Len(text), LAMBDA c : c \notin WordChars)
  IN  IF text[i] = "$" /\ j # 0 /\ text[j] = "$" THEN SubSeq(text, i, j) ELSE << >>

(* dollar_tag_len: $$ or $name$, whose name does not start with a digit.    *)
DollarTag(text, i) ==
  LET j == SelectInSubSeq(text, i + 1, Len(text), LAMBDA c : c \notin WordChars)
  IN  IF text[i] = "$" /\ j # 0 /\ text[j] = "$" /\ (j = i + 1 \/ text[i + 1] \in Letters)
      THEN SubSeq(text, i, j) ELSE << >>

\* Bug: a dollar-quoted body ends at the first $$.
Lexeme_AnyTag(text, i) ==
  LET Upto(kind, from, part) ==
        LET j == FirstOf(text, from, part) IN [kind |-> kind, last |-> IF j = 0 THEN Len(text) ELSE j + Len(part) - 1]
  IN  IF text[i] = "'" THEN Upto("copied", i + 1, <<"'">>)
      ELSE IF DollarTag(text, i) # << >> THEN Upto("copied", i + Len(DollarTag(text, i)), <<"$">>)
      ELSE IF Occurs(text, i, <<"-", "-">>) THEN Upto("comment", i + 2, <<"nl">>)
      ELSE IF Occurs(text, i, <<"/", "*">>) THEN Upto("comment", i + 2, <<"*", "/">>)
      ELSE [kind |-> IF text[i] = ";" THEN "end" ELSE "copied", last |-> i]

(* The lexeme that begins at i: what it is, and where it ends.  A quote     *)
(* that is never closed runs to the end; an open block comment leaves the   *)
(* last character.                                                          *)
Lexeme(text, i) ==
  LET end == Len(text)
      tag == DollarTag(text, i)
      Upto(kind, from, part, otherwise) ==
        LET j == FirstOf(text, from, part)
        IN  [kind |-> kind, last |-> IF j = 0 THEN otherwise ELSE j + Len(part) - 1]
  IN  IF text[i] = "'" THEN Upto("copied", i + 1, <<"'">>, end)
      ELSE IF tag # << >> THEN Upto("copied", i + Len(tag), tag, end)
      ELSE IF Occurs(text, i, <<"-", "-">>) THEN Upto("comment", i + 2, <<"nl">>, end)
      ELSE IF Occurs(text, i, <<"/", "*">>) THEN Upto("comment", i + 2, <<"*", "/">>, IF end > i + 1 THEN end - 1 ELSE end)
      ELSE [kind |-> IF text[i] = ";" THEN "end" ELSE "copied", last |-> i]

Trim(text) ==
  LET kept == {i \in DOMAIN text : text[i] \notin Blank}
  IN  IF kept = {} THEN << >>
      ELSE SubSeq(text, CHOOSE i \in kept : \A j \in kept : i <= j, CHOOSE i \in kept : \A j \in kept : j <= i)

Flush(state) ==
  [statements |-> IF Trim(state.current) = << >> THEN state.statements ELSE Append(state.statements, Trim(state.current)),
   current |-> << >>]

SplitStatements(text) ==
  LET Take(state, i, x) ==
        CASE x.kind = "copied" -> [state EXCEPT !.current = @ \o SubSeq(text, i, x.last)]
          [] x.kind = "comment" -> [state EXCEPT !.current = Append(@, " ")]
          [] x.kind = "end" -> Flush(state)
      \* read[n]: after n lexemes
      read[n \in 0..Len(text)] ==
        IF n = 0 THEN [at |-> 1, state |-> [statements |-> << >>, current |-> << >>]]
        ELSE LET before == read[n - 1]
                 x == Lexeme(text, before.at)
             IN  IF before.at > Len(text) THEN before
                 ELSE [at |-> x.last + 1, state |-> Take(before.state, before.at, x)]
  IN  Flush(read[Len(text)].state).statements

Split == Called("split") /\ Return(SplitStatements(FlattenSeq([i \in DOMAIN argument |-> argument[i].text])))

-----------------------------------------------------------------------------
(* Property.                                                                *)

(* The reference: a migration as it is written, a sequence of pieces, each  *)
(* a semicolon, a comment, or a piece of a statement whose text does not    *)
(* matter.                                                                  *)
Statements(pieces) ==
  LET Of(piece) == IF piece.is = "comment" THEN <<" ">> ELSE piece.text
      ends == {0, Len(pieces) + 1} \cup {i \in DOMAIN pieces : pieces[i].is = "end"}
      cuts == SetToSortSeq(ends, <)
      Between(i, j) == Trim(FlattenSeq([k \in 1..(j - i - 1) |-> Of(pieces[i + k])]))
  IN  SelectSeq([i \in 1..(Len(cuts) - 1) |-> Between(cuts[i], cuts[i + 1])], LAMBDA s : s # << >>)

(* The statements of a migration are those that were written, whatever its  *)
(* 'literals', $bodies$ and comments that do not nest contain, and nothing  *)
(* of one statement is lost or sent with another (runner.rs:631-736).       *)
SplitExact == Returned("split") => answer = Statements(argument)
=============================================================================

------------------------------- MODULE Lexer --------------------------------
(***************************************************************************)
(* The lexer (lexer.x), on a text that is given as the pieces flex matches *)
(* it by: [kind, first, mid, rest], where first is how many characters a   *)
(* piece has up to its first line break, which counts with them, mid how   *)
(* many each of the lines has that are in it from end to end, and rest how *)
(* many there are after its last line break.  A comment inside a line is   *)
(* as good as blanks.                                                      *)
(* Before its action every match moves current_column by its length.       *)
(***************************************************************************)
EXTENDS Integers, Sequences

(* What kinds of pieces there are; "other" is a character no rule is for.  *)
Kinds == {"token", "blank", "newline", "comment", "lines", "other"}

VARIABLES
  text,
  at,                 \* how many pieces were matched
  yylineno, current_column,
  yylloc,             \* where the last match is: [line, col, end]
  tokens              \* the tokens returned: [piece, line, col, end]

vars == <<text, at, yylineno, current_column, yylloc, tokens>>

Init ==
  /\ at = 0 /\ yylineno = 1 /\ current_column = 1
  /\ yylloc = [line |-> 1, col |-> 1, end |-> 1] /\ tokens = <<>>

(* The kinds of pieces that end the line or go over several.               *)
Breaking == {"newline", "comment", "lines"}

Sum(q) ==
  LET upto[n \in 0..Len(q)] == IF n = 0 THEN 0 ELSE upto[n - 1] + q[n]
  IN  upto[Len(q)]

piece  == text[at + 1]
length == piece.first + Sum(piece.mid) + piece.rest

(* Some definitions are not used by the others: each is the one after it   *)
(* as a likely mistake would have left it.                                 *)

(* flex counts the line breaks of a match before YY_USER_ACTION is run.    *)
Breaks(p)     == IF p.kind \in Breaking THEN 1 + Len(p.mid) ELSE 0
LinesAfter(p) == yylineno + Breaks(p)

(* YY_USER_ACTION, but for current_column.                                 *)
Match(kinds) ==
  /\ at < Len(text) /\ piece.kind \in kinds
  /\ at' = at + 1 /\ yylineno' = LinesAfter(piece)
  /\ yylloc' = [line |-> yylineno', col |-> current_column, end |-> current_column + length - 1]
  /\ UNCHANGED text

Skip ==
  /\ Match({"blank", "comment", "lines", "other"})
  /\ current_column' = current_column + length /\ UNCHANGED tokens

NotReset ==
  /\ Match({"newline"})
  /\ current_column' = current_column + length /\ UNCHANGED tokens

NewLine ==
  /\ Match({"newline"})
  /\ current_column' = 1 /\ UNCHANGED tokens

Return ==
  /\ Match({"token"})
  /\ tokens' = Append(tokens, [piece |-> at + 1, line |-> yylloc'.line, col |-> yylloc'.col, end |-> yylloc'.end])
  /\ current_column' = current_column + length

Next == Skip \/ NewLine \/ Return

-----------------------------------------------------------------------------
(* The characters of the line of piece n before it.                        *)
Before[n \in 0..Len(text)] ==
  IF n = 0 THEN 0
  ELSE IF text[n].kind = "newline" THEN 0
  ELSE IF text[n].kind \in Breaking THEN text[n].rest
  ELSE Before[n - 1] + text[n].first

(* No comment ends or breaks a line between the last line break that is a  *)
(* token of its own and piece n.                                           *)
AfterNewline(n) ==
  \A j \in 1..(n - 1) :
    text[j].kind \in {"comment", "lines"} => \E l \in (j + 1)..(n - 1) : text[l].kind = "newline"

(* The columns messages point at are those of the token in its line; only  *)
(* a comment that ends its line, or goes over several, leaves wrong ones,  *)
(* until the next line break outside of a comment, and none is ever to the *)
(* left of the token.                                                      *)
ColumnsRight ==
  \A t \in 1..Len(tokens) :
    LET n == tokens[t].piece
    IN  /\ tokens[t].col > Before[n - 1]
        /\ AfterNewline(n) => /\ tokens[t].col = Before[n - 1] + 1
                              /\ tokens[t].end = Before[n - 1] + text[n].first
=============================================================================

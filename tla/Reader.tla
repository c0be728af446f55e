------------------------------- MODULE Reader -------------------------------
(***************************************************************************)
(* A file as it is read: the parser calls the lexer where it needs a       *)
(* token, which goes over the text up to the next one, and a message shows *)
(* the line it is about: yyerror that of the match the lexer left in       *)
(* yylloc, _error_underline for the checker that of an identifier.         *)
(***************************************************************************)
EXTENDS Parser, FiniteSets

CONSTANTS
  Texts(_),   \* the texts, sequences of pieces, of a sequence of tokens
  SLine       \* the size of the buffer a message reads lines into

(* The pieces of a text have at least a character, those that do not go    *)
(* over several lines have none behind the first line break, and its       *)
(* tokens are those of the sequence.                                       *)
ASSUME TextsAssumption ==
  /\ SLine \in Nat \ {0, 1}
  /\ \A q \in Inputs : \A t \in Texts(q) :
       /\ t \in Seq([kind : {"token", "blank", "newline", "comment", "lines", "other"},
                      first : Nat \ {0}, mid : Seq(Nat), rest : Nat])
       /\ \A j \in 1..Len(t) : t[j].kind # "lines" => t[j].mid = <<>> /\ t[j].rest = 0
       /\ Cardinality({j \in 1..Len(t) : t[j].kind = "token"}) = Len(q)

VARIABLES
  text, at, yylineno, current_column, yylloc, tokens,   \* of Lexer
  lines,                                                \* the lengths of the lines of the text
  frow, current_line, position, line, showing           \* of Messages

lexvars     == <<text, at, yylineno, current_column, yylloc, tokens>>
messagevars == <<lines, frow, current_line, position, line, showing>>
allvars     == <<vars, lexvars, messagevars>>

Lex     == INSTANCE Lexer
Message == INSTANCE Messages WITH at <- position, pc <- showing

(* The line of the text that its piece n begins in.                        *)
LineOf[n \in 1..(Len(text) + 1)] ==
  IF n = 1 THEN 1 ELSE LineOf[n - 1] + Lex!Breaks(text[n - 1])

(* How many characters of piece p are in the k-th line after its first.    *)
Part(p, k) ==
  IF k = 0 THEN p.first
  ELSE IF k \in 1..(Lex!Breaks(p) - 1) THEN p.mid[k]
  ELSE IF k > 0 /\ k = Lex!Breaks(p) THEN p.rest
  ELSE 0

Length(l) == Lex!Sum([n \in 1..Len(text) |-> Part(text[n], l - LineOf[n])])

(* What is behind the last line break is a line if there is anything.      *)
LinesOfText ==
  LET n == LineOf[Len(text) + 1]
  IN  [l \in 1..(IF Length(n) = 0 THEN n - 1 ELSE n) |-> Length(l)]

ReaderInit ==
  /\ Init /\ Lex!Init /\ Message!Init
  /\ text \in Texts(input) /\ lines = LinesOfText

-----------------------------------------------------------------------------
(* yylex, from the call of it to its return.                               *)
Called == pc = "parse" /\ look = NULL /\ Shiftable # {} /\ Len(tokens) = read

LexStep == Called /\ Lex!Next /\ UNCHANGED <<vars, messagevars>>

TokenStep ==
  /\ Len(tokens) > read \/ at = Len(text)
  /\ ReadToken /\ UNCHANGED <<lexvars, messagevars>>

ParseStep == Parse /\ UNCHANGED <<lexvars, messagevars>>

(* yyerror, for a syntax error or because the stack is exhausted, or a     *)
(* message of the checker about a name in a file that was accepted.        *)
Report ==
  /\ \/ pc \in {"error", "exhausted"} /\ Message!Open(yylloc.line)
     \/ pc = "accept" /\ \E t \in 1..Len(tokens) :
                           input[t].kind = "id" /\ Message!Open(tokens[t].line)
  /\ UNCHANGED <<vars, lexvars>>

MessageStep == Message!Next /\ UNCHANGED <<vars, lexvars>>

ReaderStep == LexStep \/ TokenStep \/ ParseStep \/ Report \/ MessageStep

ReaderOver == showing = "done" /\ UNCHANGED allvars

ReaderSpec     == ReaderInit /\ [][ReaderStep \/ ReaderOver]_allvars
FairReaderSpec == ReaderSpec /\ WF_allvars(ReaderStep)

-----------------------------------------------------------------------------
(* The columns of a token are those it has in its line, up to the first    *)
(* comment that ends or breaks a line, and never to the left of it.        *)
ColumnsRight == Lex!ColumnsRight

(* The line a message is about: that of the token the parser refused or    *)
(* had no room for, or the last one when the text ends too early.          *)
Meant ==
  IF pc = "accept" THEN {LineOf[tokens[t].piece] : t \in {u \in 1..Len(tokens) : tokens[u].line = frow}}
  ELSE IF look = EndOfInput THEN {Len(lines)}
  ELSE {LineOf[tokens[read].piece]}

(* The line that is shown is that of the token, wherever line breaks and   *)
(* comments are and whatever lies between the token and what the lexer     *)
(* matched last, when the lines before it fit into the buffer.  Lines that *)
(* do not fit are counted more than once: what is shown may then be an     *)
(* earlier line, never a later one, and is nothing at all only for a file  *)
(* without lines, when what is printed was never written.                  *)
RightLine ==
  showing = "show" =>
    /\ line = 0 => lines = <<>>
    /\ \A l \in Meant : line <= l /\ (Message!FitBefore(l) => line = l)

(* Every file is accepted, or refused with a message that ends: no chain   *)
(* of reductions and no search for a line goes on for ever.                *)
ReaderEnds == <>(pc = "accept" \/ showing = "done")
=============================================================================

------------------------------- MODULE Parser -------------------------------
(***************************************************************************)
(* The parser: the grammar of parser.y with its actions, run by the        *)
(* machine bison makes of it.  The machine keeps a stack of symbols with   *)
(* their values; what it may do depends on the topmost symbols alone.      *)
(* Where every continuation of a handle is the same reduction, it reduces  *)
(* without looking at the next token; where there is a choice it reads     *)
(* one token ahead, shifts it if it can and otherwise reduces, and it is   *)
(* an error only if there is nothing to reduce.                            *)
(*                                                                         *)
(* Tokens are what the lexer returns; positions are left out.              *)
(***************************************************************************)
EXTENDS Expressions, Integers

CONSTANTS
  NULL,
  Inputs,      \* the token sequences to parse
  YYMaxDepth   \* YYMAXDEPTH, how many symbols bison's stack can hold

(* The value of a token is the name of an identifier, and "" otherwise.    *)
Token(kind)  == [kind |-> kind, str |-> ""]
Named(x)     == [kind |-> "id", str |-> x]
EndOfInput   == Token("$end")
Terminals    == {"let", "=", "\\", ",", "->", "(", ")", ";", "id"}

(* No token to look at is not the end of them.                             *)
ASSUME InputsAssumption ==
  /\ YYMaxDepth \in Nat /\ NULL # EndOfInput
  /\ \A q \in Inputs : q \in Seq([kind : Terminals, str : STRING])

VARIABLES
  input,   \* the tokens of the file
  read,    \* how many the lexer has returned
  look,    \* yychar: the token read ahead, or NULL
  yylval,  \* the name of the last identifier read
  stack,   \* symbols and their values: [sym, val]
  ast,     \* what main sees, NULL before it is made
  pc       \* "parse", or what yyparse ends with: "accept", "error", "exhausted"

vars == <<input, read, look, yylval, stack, ast, pc>>

Init ==
  /\ input \in Inputs
  /\ read = 0 /\ look = NULL /\ yylval = NULL
  /\ stack = <<>> /\ ast = NULL /\ pc = "parse"

Sym(j) == IF j < Len(stack) THEN stack[Len(stack) - j].sym ELSE "bottom"
Val(j) == stack[Len(stack) - j].val

top   == Sym(0)
below == Sym(1)

(* The tokens that can be shifted.                                         *)
Shiftable ==
  CASE top = "bottom"                           -> {"let"}
    [] top \in {"let", "\\", ","}               -> {"id"}
    [] top = "ident" /\ below = "let"           -> {"="}
    [] top \in {"=", "->", "("}                 -> {"id", "\\", "("}
    [] top = "token" /\ below \in {"\\", ","}   -> {","}
    [] top = "list" /\ below = "\\"             -> {"->"}
    [] top = "app"                              -> {"id", "("}
    [] top = "expr" /\ below = "("              -> {")"}
    [] top = "expr" /\ below = "="              -> {";"}
    [] top = "stmt"                             -> {"let"}
    [] top = "lambda"                           -> {"$end"}
    [] OTHER                                    -> {}

Reducible ==
  \/ top \in {"id", "singleton", "app", "token", ")", ";", "stmt", "program"}
  \/ top = "ident" /\ below # "let"
  \/ top = "list" /\ below = ","
  \/ top = "expr" /\ below = "->"

-----------------------------------------------------------------------------
(* Some definitions are not used by the others: each is the one after it   *)
(* as a likely mistake would have left it.                                 *)

(* yylex, called only where the next token decides.                        *)
ReadToken ==
  /\ pc = "parse" /\ look = NULL /\ Shiftable # {}
  /\ look' = IF read < Len(input) THEN input[read + 1] ELSE EndOfInput
  /\ read' = IF read < Len(input) THEN read + 1 ELSE read
  /\ yylval' = IF look'.kind = "id" THEN look'.str ELSE yylval
  /\ UNCHANGED <<input, stack, ast, pc>>

(* A symbol enters in place of the n topmost ones, if there is room.       *)
Push(n, sym, val) ==
  /\ stack' = Append(SubSeq(stack, 1, Len(stack) - n), [sym |-> sym, val |-> val])
  /\ pc' = IF Len(stack) - n < YYMaxDepth THEN pc ELSE "exhausted"

Shift ==
  /\ pc = "parse" /\ look # NULL /\ look.kind \in Shiftable /\ look # EndOfInput
  /\ Push(0, look.kind, NULL)
  /\ look' = NULL
  /\ UNCHANGED <<input, read, yylval, ast>>

EndNotLookedAt ==
  /\ pc = "parse" /\ top = "lambda" /\ look # NULL
  /\ pc' = "accept"
  /\ UNCHANGED <<input, read, look, yylval, stack, ast>>

Accept ==
  /\ pc = "parse" /\ look # NULL /\ look.kind \in Shiftable /\ look = EndOfInput
  /\ pc' = "accept"
  /\ UNCHANGED <<input, read, look, yylval, stack, ast>>

SyntaxError ==
  /\ pc = "parse" /\ look # NULL /\ look.kind \notin Shiftable /\ ~Reducible
  /\ pc' = "error"
  /\ UNCHANGED <<input, read, look, yylval, stack, ast>>

(* No token, or none that can be shifted, keeps the handle from being      *)
(* reduced.                                                                *)
Default == pc = "parse" /\ (Shiftable = {} \/ (look # NULL /\ look.kind \notin Shiftable))

Reduce(n, sym, val) ==
  Default /\ Push(n, sym, val) /\ UNCHANGED <<input, read, look, yylval, ast>>

-----------------------------------------------------------------------------
(* The rules.  The token of an identifier is made from yylval, not from    *)
(* the value of the symbol.                                                *)
LambdaToken      == top = "id" /\ Reduce(1, "token", yylval)
LambdaIdentifier == top = "token" /\ below \notin {"\\", ","} /\ Reduce(1, "ident", Val(0))
OneOfList        == top = "token" /\ below \in {"\\", ","} /\ Reduce(1, "list", <<Val(0)>>)
IdentifierList   == top = "list" /\ below = "," /\ Reduce(3, "list", <<Val(2)>> \o Val(0))

SingletonIdent  == top = "ident" /\ below # "let" /\ Reduce(1, "singleton", Ident(Val(0)))
SingletonParens == top = ")" /\ Reduce(3, "singleton", Val(1))

StaysSingle == top = "singleton" /\ below # "app" /\ Reduce(1, "singleton", Val(0))
FirstOfApp  == top = "singleton" /\ below # "app" /\ Reduce(1, "app", Val(0))
AppSwapped  == top = "singleton" /\ below = "app" /\ Reduce(2, "app", AppE(Val(0), Val(1)))
Application == top = "singleton" /\ below = "app" /\ Reduce(2, "app", AppE(Val(1), Val(0)))

ExprApp     == top = "app" /\ Reduce(1, "expr", Val(0))
Abstraction == top = "expr" /\ below = "->" /\ Reduce(4, "expr", Abs(Val(2), Val(0)))

LambdaStmt  == top = ";" /\ Reduce(5, "stmt", [var |-> Val(3), expr |-> Val(1)])
LastStmt    == top = "stmt" /\ Reduce(1, "program", <<Val(0)>>)
AddStmt     == top = "program" /\ below = "stmt" /\ Reduce(2, "program", <<Val(1)>> \o Val(0))

(* ast_create: ast is set before the end of the input is looked for.       *)
Lambda ==
  /\ top = "program" /\ below = "bottom" /\ Default
  /\ Push(1, "lambda", NULL) /\ ast' = Val(0)
  /\ UNCHANGED <<input, read, look, yylval>>

Parse ==
  \/ Shift \/ Accept \/ SyntaxError
  \/ LambdaToken \/ LambdaIdentifier \/ OneOfList \/ IdentifierList
  \/ SingletonIdent \/ SingletonParens \/ FirstOfApp \/ Application
  \/ ExprApp \/ Abstraction \/ LambdaStmt \/ LastStmt \/ AddStmt \/ Lambda

Step == ReadToken \/ Parse

Next == Step

Spec == Init /\ [][Next]_vars

-----------------------------------------------------------------------------
(* main takes a file for one that could not be parsed when there is no     *)
(* ast: a syntax error should leave none.                                  *)
ErrorLeavesNone == pc = "error" => ast = NULL
=============================================================================

------------------------------- MODULE Front --------------------------------
(***************************************************************************)
(* What main does with the AST up to the SK trees, in its order: ast_check *)
(* (Checker), ast_transform (Translation), ast_print (AstPrint), and the   *)
(* conversion of every statement (Translation).  Each phase works on the   *)
(* AST the one before left behind; what the check returns is never looked  *)
(* at, so that a file with undeclared names goes through all of them.      *)
(***************************************************************************)
EXTENDS Checker

CONSTANT Fuel   \* how far expressions are reduced to compare them

VARIABLES
  stmts, trees, phase,              \* of Translation
  shown, lines, list, rows, drawn   \* s, work, list, rows and pc of AstPrint

translationvars == <<stmts, trees, phase>>
printvars       == <<shown, lines, list, rows, drawn>>
allvars         == <<vars, translationvars, printvars>>

Printer   == INSTANCE AstPrint WITH file <- stmts, s <- shown, work <- lines, pc <- drawn
Translate == INSTANCE Translation

FrontInit == Init /\ stmts = file /\ Printer!Init /\ Translate!Init

-----------------------------------------------------------------------------
CheckStep == Step /\ UNCHANGED <<translationvars, printvars>>

Transform == pc = "done" /\ Translate!TransformAll /\ UNCHANGED <<vars, printvars>>

PrintStep == phase = "transformed" /\ Printer!Step /\ UNCHANGED <<vars, translationvars>>

Convert == drawn = "done" /\ Translate!ConvertNext /\ UNCHANGED <<vars, printvars>>

Walk == CheckStep \/ Transform \/ PrintStep

FrontStep == Walk \/ Convert

Over == pc = "corrupt" \/ drawn = "crash" \/ Len(trees) = Len(stmts)

FrontOver == Over /\ UNCHANGED allvars

FrontSpec     == FrontInit /\ [][FrontStep \/ FrontOver]_allvars
FairFrontSpec == FrontSpec /\ WF_allvars(Walk)

-----------------------------------------------------------------------------
(* What the expressions the translation handles mean is what their trees   *)
(* mean: no combination of nested abstractions, of the rules for them and  *)
(* of copies of sub-expressions changes it.                                *)
HandledKeepsMeaning == Translate!HandledKeepsMeaning

(* Splitting the abstractions of several variables keeps what each         *)
(* statement means and leaves one variable to each abstraction.            *)
TransformKeepsMeaning == Translate!TransformKeepsMeaning

(* The rule for an abstraction of a lone identifier is that of the         *)
(* report: every statement is translated to a tree that means what its     *)
(* expression means.                                                       *)
MeansItsExpression == Translate!MeansItsExpression

(* Nobody looks at what the check returns, so its warnings are all there   *)
(* is: a name that is left in an SK tree, not resolved to a statement, is  *)
(* one the checker has warned of in that statement, whatever hides names   *)
(* from the checker, and whatever is declared between check and            *)
(* conversion.                                                             *)
LeftWereWarned ==
  \A t \in 1..Len(trees) : \A x \in Translate!NamesIn(trees[t]) :
    \E o \in seen : o.stmt = t /\ o.var = x /\ o.warned

(* The walks over the AST, of the checker and of the printer, end for      *)
(* every file.                                                             *)
FrontEnds == <>(pc = "corrupt" \/ drawn \in {"done", "crash"})
=============================================================================

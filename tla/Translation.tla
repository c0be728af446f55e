---------------------------- MODULE Translation -----------------------------
(***************************************************************************)
(* The translation of a file as main runs it: ast_transform over all the   *)
(* statements, then _ast_expr_convert of each, compared with what the      *)
(* expressions mean in the lambda calculus.  (ast_convert reduces each     *)
(* statement before it converts the next; BetaRedu models that, and what   *)
(* is converted does not depend on it.)                                    *)
(***************************************************************************)
EXTENDS Convert, LambdaCalculus

CONSTANTS
  Files,   \* the files: sequences of [var, expr] statements
  Fuel     \* how far expressions are reduced to compare them

VARIABLES
  stmts,   \* the statements of the AST
  trees,   \* the SK trees of the statements converted so far
  phase

vars == <<stmts, trees, phase>>

Init == stmts \in Files /\ trees = <<>> /\ phase = "checked"

(* ast_transform.                                                          *)
TransformAll ==
  /\ phase = "checked" /\ phase' = "transformed"
  /\ stmts' = [s \in DOMAIN stmts |-> [stmts[s] EXCEPT !.expr = Transform(@)]]
  /\ UNCHANGED trees

ConvertNext ==
  /\ phase = "transformed" /\ Len(trees) < Len(stmts)
  /\ trees' = Append(trees, ConvertExpr(stmts[Len(trees) + 1].expr, TableOf(stmts)))
  /\ UNCHANGED <<stmts, phase>>

Done == Len(trees) = Len(stmts) /\ UNCHANGED vars

Next == TransformAll \/ ConvertNext \/ Done

Spec == Init /\ [][Next]_vars

-----------------------------------------------------------------------------
(* The abstractions in e with the variable of the one directly around.     *)
RECURSIVE Abstractions(_, _)
Abstractions(e, around) ==
  CASE e.type = "IDENT" -> {}
    [] e.type = "APP"   -> Abstractions(e.left, "") \cup Abstractions(e.right, "")
    [] e.type = "ABS"   ->
         LET x == e.vars[1]
         IN  {[var |-> x, body |-> e.expr, around |-> around]} \cup Abstractions(e.expr, x)

RECURSIVE Shadowing(_, _)
Shadowing(e, bound) ==
  CASE e.type = "IDENT" -> FALSE
    [] e.type = "APP"   -> Shadowing(e.left, bound) \/ Shadowing(e.right, bound)
    [] e.type = "ABS"   -> e.vars[1] \in bound \/ Shadowing(e.expr, bound \cup {e.vars[1]})

(* What the translation handles: no variable is bound twice or has the     *)
(* name of a statement, and an abstraction of a lone identifier is of its  *)
(* own variable or of that of the abstraction directly around it.          *)
Handled(e) ==
  /\ ~Shadowing(e, {})
  /\ \A a \in Abstractions(e, "") :
       /\ a.var \notin DOMAIN TableOf(stmts)
       /\ a.body.type = "IDENT" => a.body.var \in {a.var, a.around}

StmtNames   == [s \in DOMAIN stmts |-> stmts[s].var]
Reference(s) == NormalForm(OfExpr(stmts[s].expr, <<>>), Fuel)
Result(s)    == NormalForm(OfTree(trees[s], StmtNames), Fuel)

(* Each statement is translated to a tree that means what it means.        *)
MeansItsExpression == \A s \in DOMAIN trees : Result(s) = Reference(s)

(* The same for the expressions the translation handles: no combination of *)
(* nested abstractions, of the rules for them, the eta rule among them,    *)
(* and of copies of sub-expressions changes what an expression means.      *)
HandledKeepsMeaning == \A s \in DOMAIN trees : Handled(stmts[s].expr) => Result(s) = Reference(s)

(* The names in an SK tree.                                                *)
RECURSIVE NamesIn(_)
NamesIn(t) ==
  CASE t.type = "APP" -> NamesIn(t.left) \cup NamesIn(t.right)
    [] t.type = "LD"  -> {t.id}
    [] OTHER          -> {}

(* ast_transform leaves one variable to each abstraction, and the meaning  *)
(* of every statement alone.                                               *)
RECURSIVE Single(_)
Single(e) ==
  CASE e.type = "IDENT" -> TRUE
    [] e.type = "APP"   -> Single(e.left) /\ Single(e.right)
    [] e.type = "ABS"   -> Len(e.vars) = 1 /\ Single(e.expr)

TransformKeepsMeaning ==
  [][\A s \in DOMAIN stmts :
       Single(stmts'[s].expr) /\ OfExpr(stmts'[s].expr, <<>>) = OfExpr(stmts[s].expr, <<>>)]_stmts
=============================================================================

---------------------------- MODULE Expressions -----------------------------
(* The expressions of the AST (ast.h): EXPR_IDENT, EXPR_ABS with its list  *)
(* of variables, EXPR_APP.                                                 *)
EXTENDS Naturals, Sequences

Ident(x)      == [type |-> "IDENT", var |-> x]
Abs(vs, e)    == [type |-> "ABS", vars |-> vs, expr |-> e]
Lam(x, e)     == Abs(<<x>>, e)
AppE(l, r)    == [type |-> "APP", left |-> l, right |-> r]

IsAbs(e)      == e.type = "ABS"
=============================================================================

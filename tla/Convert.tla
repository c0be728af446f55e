------------------------------ MODULE Convert -------------------------------
(***************************************************************************)
(* The translation of a checked AST to SK trees: ast_transform, which      *)
(* splits the abstractions of several variables, and _ast_expr_convert     *)
(* with its helpers (interpreter.c).  The hash table of the statements is  *)
(* a function from names to statement numbers.                             *)
(*                                                                         *)
(* Some definitions are not used by the others: each is the one after it   *)
(* as a likely mistake would have left it.                                 *)
(*                                                                         *)
(* A sub-tree the C code builds or rewrites in place has one owner, so     *)
(* trees are values here.                                                  *)
(***************************************************************************)
EXTENDS SKTerms

(* _ast_expr_transform: \x, y, z -> e becomes \x -> \y -> \z -> e.         *)
RECURSIVE Transform(_)
FirstSplit(e) ==
  CASE e.type = "APP" -> AppE(Transform(e.left), Transform(e.right))
    [] e.type = "ABS" -> IF Len(e.vars) = 1 THEN Lam(e.vars[1], Transform(e.expr))
                         ELSE Lam(e.vars[1], Abs(Tail(e.vars), Transform(e.expr)))
    [] e.type = "IDENT" -> e

Transform(e) ==
  CASE e.type = "APP" -> AppE(Transform(e.left), Transform(e.right))
    [] e.type = "ABS" -> IF Len(e.vars) = 1 THEN Lam(e.vars[1], Transform(e.expr))
                         ELSE Lam(e.vars[1], Transform(Abs(Tail(e.vars), e.expr)))
    [] e.type = "IDENT" -> e

(* _ast_in_free_var_set: whether x occurs in e, also as an identifier that *)
(* an inner abstraction of e binds.                                        *)
RECURSIVE InFreeVarSet(_, _)
InFreeVarSet(e, x) ==
  CASE e.type = "APP"   -> InFreeVarSet(e.left, x) \/ InFreeVarSet(e.right, x)
    [] e.type = "ABS"   -> InFreeVarSet(e.expr, x)
    [] e.type = "IDENT" -> e.var = x

RECURSIVE InFreeVarSetSK(_, _)
InFreeVarSetSK(t, x) ==
  CASE t.type = "APP" -> InFreeVarSetSK(t.left, x) \/ InFreeVarSetSK(t.right, x)
    [] t.type = "LD"  -> t.id = x
    [] OTHER          -> FALSE

SKK == App(App(S, K), K)

(* _ast_expr_convert_sk: the abstraction of x from a tree.                 *)
RECURSIVE ConvertSK(_, _)
LeftIgnored(t, x) ==
  CASE t.type = "APP" ->
         LET part(u) == IF InFreeVarSetSK(u, x) THEN ConvertSK(u, x) ELSE App(K, u)
         IN  IF t.right = LD(x) THEN t.left ELSE App(App(S, part(t.left)), part(t.right))
    [] t.type = "LD" -> IF t.id = x THEN SKK ELSE t
    [] OTHER         -> t

ConvertSK(t, x) ==
  CASE t.type = "APP" ->
         LET freeLeft  == InFreeVarSetSK(t.left, x)
             freeRight == InFreeVarSetSK(t.right, x)
             part(u, free) == IF free THEN ConvertSK(u, x) ELSE App(K, u)
         IN  IF ~freeLeft /\ freeRight /\ t.right.type = "LD" THEN t.left
             ELSE App(App(S, part(t.left, freeLeft)), part(t.right, freeRight))
    [] t.type = "LD" -> IF t.id = x THEN SKK ELSE t
    [] OTHER         -> t

(* The body of an abstraction is an identifier.  When it is not the        *)
(* variable, the code looks the VARIABLE up: found, the node k it returns  *)
(* under the application is still as calloc left it, type 0, an S_NODE;    *)
(* not found, it returns K and the body is lost.                           *)
BodyWrapped(x, y, table) == IF y \in DOMAIN table THEN App(K, Ref(table[y])) ELSE LD(x)
ConvertIdentBody(x, y, table) ==
  IF y = x THEN SKK
  ELSE IF x \in DOMAIN table THEN App(S, Ref(table[x]))
  ELSE K

RECURSIVE ConvertExpr(_, _)
(* The body of an abstraction of x is an application.                      *)
ConvertAppBody(x, body, table) ==
  LET freeLeft  == InFreeVarSet(body.left, x)
      freeRight == InFreeVarSet(body.right, x)
      part(f, free) == IF free THEN ConvertExpr(Lam(x, f), table) ELSE App(K, ConvertExpr(f, table))
  IN  IF ~freeLeft /\ ~freeRight THEN App(K, ConvertExpr(body, table))
      ELSE IF ~freeLeft /\ body.right.type = "IDENT" THEN ConvertExpr(body.left, table)
      ELSE App(App(S, part(body.left, freeLeft)), part(body.right, freeRight))

(* _ast_expr_convert, on an expression Transform has been applied to.      *)
ConvertExpr(e, table) ==
  CASE e.type = "APP" -> App(ConvertExpr(e.left, table), ConvertExpr(e.right, table))
    [] e.type = "IDENT" -> IF e.var \in DOMAIN table THEN Ref(table[e.var]) ELSE LD(e.var)
    [] e.type = "ABS" ->
         LET x    == e.vars[1]
             body == e.expr
         IN  CASE body.type = "IDENT" -> ConvertIdentBody(x, body.var, table)
               [] body.type = "APP"   -> ConvertAppBody(x, body, table)
               [] body.type = "ABS"   ->
                    IF InFreeVarSet(body, x) THEN ConvertSK(ConvertExpr(body, table), x)
                    ELSE App(K, ConvertExpr(body, table))

-----------------------------------------------------------------------------
(* The nodes of a tree in post-order, children by position, the root last: *)
(* the form in which BetaRedu takes a statement.                           *)
RECURSIVE Nodes(_)
Nodes(t) ==
  LET node(type, l, r, id) == [type |-> type, left |-> l, right |-> r, id |-> id]
      shift(s, n) == [j \in 1..Len(s) |->
                        IF s[j].type = "APP" THEN [s[j] EXCEPT !.left = n + @, !.right = n + @] ELSE s[j]]
      l == Nodes(t.left)
      r == Nodes(t.right)
  IN  CASE t.type = "APP" -> l \o shift(r, Len(l)) \o <<node("APP", Len(l), Len(l) + Len(r), "-")>>
        [] t.type = "REF" -> <<node("REF", t.stmt, 0, "-")>>
        [] t.type = "LD"  -> <<node("LD", 0, 0, t.id)>>
        [] OTHER          -> <<node(t.type, 0, 0, "-")>>

(* ast_check enters every statement before anything is converted, so a     *)
(* name resolves to the last statement that declares it.                   *)
TableOf(stmts) ==
  [x \in {stmts[s].var : s \in DOMAIN stmts} |->
     CHOOSE s \in DOMAIN stmts : stmts[s].var = x /\ \A t \in DOMAIN stmts : stmts[t].var = x => t <= s]

(* A whole file, [var, expr] statements, as BetaRedu takes it.             *)
Compile(stmts) ==
  LET table == TableOf(stmts)
  IN  [s \in 1..Len(stmts) |->
         [var |-> stmts[s].var, code |-> Nodes(ConvertExpr(Transform(stmts[s].expr), table))]]
=============================================================================

--------------------------- MODULE LambdaCalculus ---------------------------
(***************************************************************************)
(* The lambda calculus, as the reference for the translation to S and K:   *)
(* terms with bound variables as de Bruijn indices, beta and eta           *)
(* reduction to normal form, and the terms that expressions of the AST and *)
(* SK trees stand for.                                                     *)
(***************************************************************************)
EXTENDS SKTerms, Integers

Var(n)   == [type |-> "VAR", n |-> n]
Name(x)  == [type |-> "NAME", id |-> x]
Fun(t)   == [type |-> "FUN", body |-> t]

IsFun(t) == t.type = "FUN"

(* t with its variables from c on moved by d.                              *)
RECURSIVE Shift(_, _, _)
Shift(t, d, c) ==
  CASE t.type = "VAR"  -> IF t.n >= c THEN Var(t.n + d) ELSE t
    [] t.type = "FUN"  -> Fun(Shift(t.body, d, c + 1))
    [] t.type = "APP"  -> App(Shift(t.left, d, c), Shift(t.right, d, c))
    [] t.type = "NAME" -> t

(* t with u for variable n, those above n moved down.                      *)
RECURSIVE Subst(_, _, _)
Subst(t, u, n) ==
  CASE t.type = "VAR"  -> IF t.n = n THEN Shift(u, n, 0) ELSE IF t.n > n THEN Var(t.n - 1) ELSE t
    [] t.type = "FUN"  -> Fun(Subst(t.body, u, n + 1))
    [] t.type = "APP"  -> App(Subst(t.left, u, n), Subst(t.right, u, n))
    [] t.type = "NAME" -> t

RECURSIVE Occurs(_, _)
Occurs(n, t) ==
  CASE t.type = "VAR"  -> t.n = n
    [] t.type = "FUN"  -> Occurs(n + 1, t.body)
    [] t.type = "APP"  -> Occurs(n, t.left) \/ Occurs(n, t.right)
    [] t.type = "NAME" -> FALSE

(* Beta reduction at the head, at most fuel times in a row.                *)
RECURSIVE HeadReduce(_, _)
HeadReduce(t, fuel) ==
  IF ~IsApp(t) \/ fuel = 0 THEN t
  ELSE LET f == HeadReduce(t.left, fuel)
       IN  IF IsFun(f) THEN HeadReduce(Subst(f.body, t.right, 0), fuel - 1) ELSE App(f, t.right)

Eta(t) == IF IsApp(t) /\ t.right = Var(0) /\ ~Occurs(0, t.left) THEN Shift(t.left, -1, 0) ELSE Fun(t)

(* The beta-eta normal form, if fuel is enough to reach it.                *)
RECURSIVE NormalForm(_, _)
NormalForm(t, fuel) ==
  LET h == HeadReduce(t, fuel)
  IN  CASE IsFun(h) -> Eta(NormalForm(h.body, fuel))
        [] IsApp(h) -> App(NormalForm(h.left, fuel), NormalForm(h.right, fuel))
        [] OTHER    -> h

-----------------------------------------------------------------------------
(* An expression of the AST under the variables bound around it, the       *)
(* innermost first.                                                        *)
RECURSIVE OfExpr(_, _)
OfExpr(e, bound) ==
  CASE e.type = "APP" -> App(OfExpr(e.left, bound), OfExpr(e.right, bound))
    [] e.type = "ABS" ->
         LET under == <<e.vars[1]>> \o bound
         IN  Fun(IF Len(e.vars) = 1 THEN OfExpr(e.expr, under)
                 ELSE OfExpr(Abs(Tail(e.vars), e.expr), under))
    [] e.type = "IDENT" ->
         LET places == {n \in 1..Len(bound) : bound[n] = e.var}
         IN  IF places = {} THEN Name(e.var)
             ELSE Var((CHOOSE n \in places : \A m \in places : n <= m) - 1)

TheK == Fun(Fun(Var(1)))
TheS == Fun(Fun(Fun(App(App(Var(2), Var(0)), App(Var(1), Var(0))))))

(* An SK tree, name[s] the name of statement s.                            *)
RECURSIVE OfTree(_, _)
OfTree(t, name) ==
  CASE t.type = "APP" -> App(OfTree(t.left, name), OfTree(t.right, name))
    [] t.type = "REF" -> Name(name[t.stmt])
    [] t.type = "LD"  -> Name(t.id)
    [] t.type = "S"   -> TheS
    [] t.type = "K"   -> TheK
=============================================================================

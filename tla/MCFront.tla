------------------------------ MODULE MCFront ------------------------------
(* Files of a declaration, d, and an expression over it, over free names   *)
(* and over the names its abstractions bind.                               *)
EXTENDS Front

(* The expressions of up to n nodes; an abstraction of two variables       *)
(* counts as two.                                                          *)
RECURSIVE Sized(_, _, _)
Sized(n, xs, free) ==
  IF n = 1 THEN {Ident(x) : x \in xs \cup free}
  ELSE {Lam(x, e) : x \in xs, e \in Sized(n - 1, xs, free)}
       \cup (IF n < 3 THEN {}
             ELSE {Abs(<<x, y>>, e) : x \in xs, y \in xs, e \in Sized(n - 2, xs, free)}
                  \cup UNION {{AppE(l, r) : l \in Sized(k, xs, free), r \in Sized(n - 1 - k, xs, free)} : k \in 1..(n - 2)})

(* The applications of n names.                                            *)
RECURSIVE Spines(_, _)
Spines(n, names) ==
  IF n = 1 THEN {Ident(x) : x \in names}
  ELSE UNION {{AppE(l, r) : l \in Spines(k, names), r \in Spines(n - k, names)} : k \in 1..(n - 1)}

(* Shallow expressions over three variables, a statement and free names,   *)
(* or over variables that have the name of a statement, deeper ones over   *)
(* two variables, and the combinators of three variables that apply up to  *)
(* four names.                                                             *)
Shallow     == UNION {Sized(n, {"x", "y", "z"}, {"d", "f"}) : n \in 1..5} \cup UNION {Sized(n, {"x", "y"}, {"p"}) : n \in 1..4}
               \cup UNION {Sized(n, {"d", "y"}, {"x"}) : n \in 1..5}
Deep        == UNION {Sized(n, {"x", "y"}, {}) : n \in 6..7}
Applied     == UNION {Spines(n, {"x", "y", "z", "d", "f"}) : n \in 1..4}
Combinators == {Abs(<<"x", "y", "z">>, e) : e \in Applied}

File(e)  == <<[var |-> "d", expr |-> Lam("x", Ident("x"))], [var |-> "p", expr |-> e]>>
AllExprs == Shallow \cup Deep \cup Applied \cup Combinators
AllFiles == {File(e) : e \in Shallow \cup Deep \cup Combinators}

(* These only name the sets above, which TLC then evaluates once.          *)
MCNames == {"d", "p", "f", "x", "y", "z"}
MCExprs == AllExprs
MCFiles == AllFiles

(* let p = \x -> d;                                                        *)
MCConstant == {File(Lam("x", Ident("d")))}

RECURSIVE DepthOf(_)
DepthOf(e) ==
  CASE e.type = "IDENT" -> 0
    [] e.type = "ABS"   -> Len(e.vars) + DepthOf(e.expr)
    [] e.type = "APP"   ->
         LET l == Marker(e.left) + DepthOf(e.left)
             r == (IF IsAbs(e.right) THEN Marker(e.left) ELSE 0) + DepthOf(e.right)
         IN  IF l > r THEN l ELSE r

RECURSIVE IsPlain(_)
IsPlain(e) ==
  CASE e.type = "IDENT" -> TRUE
    [] e.type = "ABS"   -> IsPlain(e.expr)
    [] e.type = "APP"   -> IsPlain(e.left) /\ IsPlain(e.right) /\ ~IsAbs(e.left) /\ ~IsAbs(e.right)

-----------------------------------------------------------------------------
(* The expression of the rows from j on, and the row after it: a row is    *)
(* known by its sign, @, a lambda or a name, and by its depth.             *)
RECURSIVE ReadRows(_)
ReadRows(j) ==
  LET row == rows[j]
      one == ReadRows(j + 1)
      two == ReadRows(one.next)
  IN  CASE row.sym = "APP"   -> [expr |-> AppE(one.expr, two.expr), next |-> two.next]
        [] row.sym = "ABS"   -> [expr |-> Abs(row.names, one.expr), next |-> one.next]
        [] row.sym = "IDENT" -> [expr |-> Ident(row.names[1]), next |-> j + 1]

(* The tree that is printed is that of the expression, all of it; there is *)
(* a flag for every level of a row, and the lines join.                    *)
AstReadsBack ==
  /\ Printer!LinesJoin
  /\ (lines = <<>> /\ shown > 0) => ReadRows(1) = [expr |-> stmts[shown].expr, next |-> Len(rows) + 1]
=============================================================================

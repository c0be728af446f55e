----------------------------- MODULE MCBetaRedu -----------------------------
(* Files for the reducer, written as source files are and put through the  *)
(* converter: a declaration and a statement that applies it.               *)
EXTENDS BetaReduMeaning

C == INSTANCE Convert

Stmt(x, e) == [var |-> x, expr |-> e]
V(x)       == C!Ident(x)
L(x, e)    == C!Lam(x, e)
A(l, r)    == C!AppE(l, r)

identity == L("x", V("x"))
const    == L("x", L("y", V("x")))
twice    == L("x", A(V("x"), V("x")))
flip     == L("x", L("y", A(V("y"), V("x"))))
fuse     == L("x", A(A(V("x"), V("b")), A(V("c"), V("x"))))
comb     == L("x", L("y", L("z", A(A(V("x"), V("z")), A(V("y"), V("z"))))))

Definitions == {identity, const, twice, flip, fuse, comb}

(* The applications of n names.                                            *)
RECURSIVE Spines(_, _)
Spines(n, names) ==
  IF n = 1 THEN {V(x) : x \in names}
  ELSE UNION {{A(l, r) : l \in Spines(k, names), r \in Spines(n - k, names)} : k \in 1..(n - 1)}

MCIdents   == {"d", "p", "q", "x", "y", "z", "f", "g", "b", "c"}

(* A declaration and a statement that applies it: all the ways to share    *)
(* and to copy it in expressions of up to four names.                      *)
MCApplied ==
  {C!Compile(<<Stmt("d", def), Stmt("p", e)>>) :
     def \in Definitions, e \in UNION {Spines(n, {"d", "f"}) : n \in 1..4}}

(* Statements that refer to each other in every order: to earlier ones, to *)
(* themselves, to later ones, to a name declared twice, to a free one.     *)
MCReferring ==
  {C!Compile(<<Stmt("d", def), Stmt("p", e1), Stmt(x, e2)>>) :
     def \in {const, twice, fuse}, x \in {"p", "q"},
     e1 \in UNION {Spines(n, {"d", "p", "q", "f"}) : n \in 1..2},
     e2 \in UNION {Spines(n, {"d", "p", "q", "f"}) : n \in 1..2}}

MCPrograms == MCApplied \cup MCReferring

(* let p = (\x -> x x) (\x -> x b (c x));                                 *)
MCSelfApplied == {C!Compile(<<Stmt("p", A(twice, fuse))>>)}

(* let p = q f; let q = f;                                                 *)
MCForward == {C!Compile(<<Stmt("p", A(V("q"), V("f"))), Stmt("q", V("f"))>>)}

(* What the proofs about the terms take of a reduction holds of the one    *)
(* TLC checks with, for terms that reduce to each other and others.        *)
SmallTerms == LET redex == App(App(K, S), K) IN {S, K, LD("x"), Undefined, redex, App(K, redex)}
ASSUME ReductionAssumption == Calculus!ReductionOn(SmallTerms)
=============================================================================

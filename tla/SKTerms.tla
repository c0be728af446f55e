------------------------------ MODULE SKTerms -------------------------------
(***************************************************************************)
(* SK trees (interpreter.h) as values, beside the expressions they come    *)
(* from, and the combinatory calculus the README says the interpreter      *)
(* implements: reduction of SK terms by the rules K x y -> x and           *)
(* S x y z -> x z (y z).                                                   *)
(***************************************************************************)
EXTENDS Expressions

(* SK trees.                                                               *)
S         == [type |-> "S"]
K         == [type |-> "K"]
LD(x)     == [type |-> "LD", id |-> x]
Ref(s)    == [type |-> "REF", stmt |-> s]
App(l, r) == [type |-> "APP", left |-> l, right |-> r]

IsApp(t)  == t.type = "APP"

-----------------------------------------------------------------------------
(* t reduces to u when any set of the redexes of t is contracted at once,  *)
(* none of them included.  This is the reduction a graph reducer performs: *)
(* contracting one shared node contracts all the copies it stands for.     *)
RECURSIVE ReducesTo(_, _)
ReducesTo(t, u) ==
  \/ t = u
  \/ /\ IsApp(t) /\ IsApp(u)
     /\ ReducesTo(t.left, u.left) /\ ReducesTo(t.right, u.right)
  \/ /\ IsApp(t) /\ IsApp(t.left) /\ t.left.left = K
     /\ ReducesTo(t.left.right, u)
  \/ /\ IsApp(t) /\ IsApp(t.left) /\ IsApp(t.left.left) /\ t.left.left.left = S
     /\ IsApp(u) /\ IsApp(u.left) /\ IsApp(u.right)
     /\ ReducesTo(t.left.left.right, u.left.left)
     /\ ReducesTo(t.left.right, u.right.left)
     /\ ReducesTo(t.right, u.left.right) /\ ReducesTo(t.right, u.right.right)
=============================================================================

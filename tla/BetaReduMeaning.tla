-------------------------- MODULE BetaReduMeaning ---------------------------
(***************************************************************************)
(* The graph of the reducer unfolded to the terms of SKTerms, and how far  *)
(* the reducer reduces them.                                               *)
(***************************************************************************)
EXTENDS BetaReduTerms, SKTerms

(* The term node a stands for: references replaced by what they refer to.  *)
(* above holds the nodes passed on the way, to stop on a cycle.            *)
Undefined == [type |-> "NULL"]
Cycle     == [type |-> "CYCLE"]

RECURSIVE Unfold(_, _)
Unfold(a, above) ==
  IF a = NULL THEN Undefined
  ELSE IF a \in above THEN Cycle
  ELSE LET x == mem[a]
           sub(b) == Unfold(b, above \cup {a})
       IN  CASE x.type = "APP" -> App(sub(x.left), sub(x.right))
             [] x.type = "REF" -> sub(x.left)
             [] x.type = "LD"  -> LD(x.id)
             [] x.type = "S"   -> S
             [] x.type = "K"   -> K

Meaning(a) == Unfold(a, {})

-----------------------------------------------------------------------------
(* The assertion after the copy, assert( *sub_expr != NULL), never fails.   *)
NoAssertFails == pc # "assert"
=============================================================================

----------------------------- MODULE SKCalculus -----------------------------
(***************************************************************************)
(* What interpreting a file means in the SK calculus, without nodes,       *)
(* pointers or sharing: each statement in turn is given the term its       *)
(* expression stands for, the names of earlier statements replaced by      *)
(* their terms, and that term is reduced by the rules of S and K.          *)
(*                                                                         *)
(* The terms and what reduces to what are parameters: SKTerms has the ones *)
(* TLC checks with, the proofs hold for all that have the rules.           *)
(***************************************************************************)
EXTENDS Naturals, Sequences

CONSTANTS
  Apply(_, _), SComb, KComb, Var(_),   \* the terms
  Unknown,              \* what a name without a definition yet stands for
  Reduces(_, _)         \* the reduction of terms

VARIABLES file,       \* [var, code] statements, as BetaRedu takes them
          env         \* the terms of the statements so far

(* The term of a statement's code: that of its last node.                  *)
TermOfCode(code) ==
  LET at[j \in 1..Len(code)] ==
        LET x == code[j]
        IN  CASE x.type = "APP" -> Apply(at[x.left], at[x.right])
              [] x.type = "REF" -> IF x.left \in DOMAIN env THEN env[x.left] ELSE Unknown
              [] x.type = "LD"  -> Var(x.id)
              [] x.type = "S"   -> SComb
              [] x.type = "K"   -> KComb
  IN  at[Len(code)]

CalculusInit == env = <<>>

Declare ==
  /\ Len(env) < Len(file)
  /\ env' = Append(env, TermOfCode(file[Len(env) + 1].code))
  /\ UNCHANGED file

Reduce ==
  /\ env # <<>> /\ DOMAIN env' = DOMAIN env
  /\ \A s \in 1..(Len(env) - 1) : env'[s] = env[s]
  /\ Reduces(env[Len(env)], env'[Len(env)])
  /\ UNCHANGED file

CalculusNext == Declare \/ Reduce
CalculusSpec == CalculusInit /\ [][CalculusNext]_<<file, env>>

-----------------------------------------------------------------------------
(* What makes Reduces a reduction of the calculus, as far as it is about   *)
(* the terms in T: nothing need be contracted, both sides of an            *)
(* application reduce on their own, and the two rules, whose arguments may *)
(* reduce at once, the one that S doubles in two ways.                     *)
ReductionOn(T) ==
  /\ \A x \in T : Reduces(x, x)
  /\ \A x, x2, y, y2 \in T :
       Reduces(x, x2) /\ Reduces(y, y2) => Reduces(Apply(x, y), Apply(x2, y2))
  /\ \A x, x2, y \in T : Reduces(x, x2) => Reduces(Apply(Apply(KComb, x), y), x2)
  /\ \A x, x2, y, y2, z, z2, z3 \in T :
       Reduces(x, x2) /\ Reduces(y, y2) /\ Reduces(z, z2) /\ Reduces(z, z3)
         => Reduces(Apply(Apply(Apply(SComb, x), y), z), Apply(Apply(x2, z2), Apply(y2, z3)))
=============================================================================

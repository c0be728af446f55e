--------------------------- MODULE BetaReduTerms ----------------------------
(***************************************************************************)
(* What the graph of the reducer stands for, and the reducer compared with *)
(* the SK calculus.  The terms and their reduction are the parameters of   *)
(* SKCalculus; nothing is recursive but functions over the nodes.          *)
(***************************************************************************)
EXTENDS BetaRedu

CONSTANTS
  Apply(_, _), SComb, KComb, Var(_), Unknown, Reduces(_, _),   \* of SKCalculus
  Endless            \* what a node stands for that can be reached from itself

(* The nodes that node a of the nodes m leads to.                          *)
Links(m, a) ==
  CASE m[a].type = "APP" -> {m[a].left, m[a].right} \ {NULL}
    [] m[a].type = "REF" -> {m[a].left} \ {NULL}
    [] OTHER             -> {}

(* The nodes that can be reached from those in A, with those a step nearer *)
(* bound to near: TLC then works them out once for each step.              *)
Reached(m, A) ==
  LET within[n \in 0..Len(m)] ==
        IF n = 0 THEN A
        ELSE UNION {near \cup UNION {Links(m, a) : a \in near} : near \in {within[n - 1]}}
  IN  within[Len(m)]

(* The nodes from which every path ends, so that they stand for a term.    *)
Grounded(m) ==
  LET within[n \in 0..Len(m)] ==
        IF n = 0 THEN {}
        ELSE UNION {near \cup {a \in 1..Len(m) \ near : Links(m, a) \subseteq near} : near \in {within[n - 1]}}
  IN  within[Len(m)]

(* The nodes from a down the left fields of applications.                  *)
LeftSpine(m, a) ==
  LET left[n \in 0..Len(m)] ==
        IF n = 0 THEN a
        ELSE LET b == left[n - 1] IN IF m[b].type = "APP" THEN m[b].left ELSE b
  IN  {left[n] : n \in 0..Len(m)}

(* A rule applies to node a itself: it refers to another, or it is K x y   *)
(* or S x y z.                                                             *)
HasRule(m, a) ==
  \/ m[a].type = "REF"
  \/ /\ m[a].type = "APP" /\ m[m[a].left].type = "APP"
     /\ LET f == m[m[a].left].left
        IN  m[f].type = "K" \/ (m[f].type = "APP" /\ m[m[f].left].type = "S")

(* The term of node a: references replaced by what they refer to.          *)
TermOf(m, a) ==
  LET ground == Grounded(m)
      term[b \in ground] ==
        LET x     == m[b]
            left  == IF x.left = NULL THEN Unknown ELSE term[x.left]
            right == IF x.right = NULL THEN Unknown ELSE term[x.right]
        IN  CASE x.type = "APP" -> Apply(left, right)
              [] x.type = "REF" -> left
              [] x.type = "LD"  -> Var(x.id)
              [] x.type = "S"   -> SComb
              [] x.type = "K"   -> KComb
  IN  IF a = NULL THEN Unknown
      ELSE IF a \in ground THEN term[a] ELSE Endless

-----------------------------------------------------------------------------
(* The terms of the finished statements and of the one being reduced.      *)
Current == IF roots # <<>> /\ expr = roots[Len(roots)] THEN NULL ELSE expr
Terms   == [s \in 1..Len(roots) |-> TermOf(mem, roots[s])]
             \o (IF Current = NULL THEN <<>> ELSE <<TermOf(mem, Current)>>)

Calculus == INSTANCE SKCalculus WITH file <- prog, env <- Terms

Roots   == {roots[s] : s \in DOMAIN roots} \cup ({expr} \ {NULL})
Live    == Reached(mem, Roots)
Acyclic == Roots \subseteq Grounded(mem)

(* The S rule is about to rewrite one of the partial applications S x and  *)
(* S x y, and something else still points at it.  They are not the redex:  *)
(* the node they are held in becomes something they do not reduce to.      *)
RewritesShared ==
  /\ pc = "reduce" /\ SRedex
  /\ LET q == spine[depth - 1]
         p == spine[depth]
     IN  \/ \E s \in DOMAIN roots : roots[s] \in {p, q}
         \/ \E a \in Live : \/ mem[a].right \in {p, q}
                            \/ mem[a].left = p /\ a # q
                            \/ mem[a].left = q /\ a # spine[depth - 2]

(* The statement is reduced to a bare variable, which takes its name.      *)
RenamesVariable == pc = "finish" /\ mem[expr].type = "LD" /\ mem[expr].id # Statement.var

(* The reducer is an implementation of the SK calculus.                    *)
ImplementsCalculus == Calculus!CalculusSpec

(* Every step of the reducer, on the graph with its references and its     *)
(* nodes used again, is a step of the SK calculus on the terms the graph   *)
(* stands for, as long as it rewrites no shared partial application and    *)
(* renames no variable: reductions of the one statement contract redexes   *)
(* of its term, copies change nothing, other statements keep their terms,  *)
(* and the graph gets no cycle.                                            *)
StepReduces ==
  [][(~RewritesShared /\ ~RenamesVariable /\ Acyclic)
       => Acyclic' /\ (Calculus!CalculusNext \/ UNCHANGED Terms)]_<<mem, roots, expr>>

(* The reducer leaves a statement only when no rule applies at its head,   *)
(* nor to a reference there, or when its iterations are used up.           *)
StopsAtHeadNormal ==
  pc = "finish" => i = MaxBetaReductions \/ \A a \in LeftSpine(mem, expr) : ~HasRule(mem, a)
=============================================================================

--------------------------- MODULE BetaReduProofs ---------------------------
(***************************************************************************)
(* What is true of the reducer for every file, every number of iterations  *)
(* and every size of the arena: the induction over the steps of BetaRedu,  *)
(* what a graph of nodes stands for, and the refinement of the SK calculus *)
(* by the reducer.                                                         *)
(***************************************************************************)
EXTENDS BetaReduTerms, ArithmeticLemmas, FiniteSetTheorems, SequenceTheorems, TLAPS

USE DEF NULL

(* The calls left after the first has pushed two, and after it pushed none. *)
LEMMA PushTwo ==
  ASSUME NEW T, NEW s \in Seq(T), s # <<>>, NEW e \in T, NEW f \in T,
         NEW u, u = <<e, f>> \o Tail(s)
  PROVE  /\ u \in Seq(T) /\ Len(u) = Len(s) + 1 /\ u[1] = e /\ u[2] = f
         /\ \A k \in 2..Len(s) : u[k + 1] = s[k]
         /\ \A k \in 3..Len(u) : u[k] = s[k - 1]
  OBVIOUS

(* The same when the first call pushed none.                               *)
LEMMA Pop ==
  ASSUME NEW T, NEW s \in Seq(T), s # <<>>
  PROVE  /\ Tail(s) \in Seq(T) /\ Len(Tail(s)) = Len(s) - 1 /\ Head(s) = s[1] /\ s[1] \in T
         /\ \A k \in 2..Len(s) : Tail(s)[k - 1] = s[k]
         /\ \A k \in 1..Len(Tail(s)) : Tail(s)[k] = s[k + 1]
  OBVIOUS

(* The leftmost node is added to the spine.                                *)
LEMMA Push ==
  ASSUME NEW T, NEW s \in Seq(T), NEW e \in T, NEW u, u = Append(s, e)
  PROVE  /\ u \in Seq(T) /\ Len(u) = Len(s) + 1 /\ u # <<>>
         /\ \A k \in 1..Len(s) : u[k] = s[k]
         /\ u[Len(s) + 1] = e
  OBVIOUS

(* The spine of a walk that begins, the calls of a copy that begins.       *)
LEMMA Single ==
  ASSUME NEW T, NEW e \in T
  PROVE  <<e>> \in Seq(T) /\ Len(<<e>>) = 1 /\ <<e>>[1] = e
  OBVIOUS

(* The nodes of a statement behind those of the arena.                     *)
LEMMA Concat ==
  ASSUME NEW T, NEW s \in Seq(T), NEW m \in Nat, NEW f \in [1..m -> T]
  PROVE  /\ s \o f \in Seq(T) /\ Len(s \o f) = Len(s) + m
         /\ \A k \in 1..Len(s) : (s \o f)[k] = s[k]
         /\ \A k \in (Len(s) + 1)..(Len(s) + m) : k - Len(s) \in 1..m /\ (s \o f)[k] = f[k - Len(s)]
  <1>2. f \in Seq(T)
    BY SeqDef
  <1>3. Len(f) = m
    BY <1>2, LenProperties
  <1>4. /\ s \o f \in Seq(T) /\ Len(s \o f) = Len(s) + m
        /\ \A k \in 1..(Len(s) + m) : (s \o f)[k] = IF k <= Len(s) THEN s[k] ELSE f[k - Len(s)]
    BY <1>2, <1>3, ConcatProperties
  <1>5. Len(s) \in Nat
    BY LenProperties
  <1> QED
    BY <1>4, <1>5

(* One field of a node, one element of a sequence.                         *)
LEMMA NodeUpdate ==
  ASSUME NEW x \in Node
  PROVE  /\ \A a \in Nat : /\ [x EXCEPT !.left = a] \in Node
                           /\ [x EXCEPT !.left = a].left = a
                           /\ [x EXCEPT !.left = a].type = x.type
                           /\ [x EXCEPT !.left = a].right = x.right
         /\ \A a \in Nat : /\ [x EXCEPT !.right = a] \in Node
                           /\ [x EXCEPT !.right = a].right = a
                           /\ [x EXCEPT !.right = a].type = x.type
                           /\ [x EXCEPT !.right = a].left = x.left
         /\ \A y \in Idents : /\ [x EXCEPT !.id = y] \in Node
                              /\ [x EXCEPT !.id = y].type = x.type
                              /\ [x EXCEPT !.id = y].left = x.left
                              /\ [x EXCEPT !.id = y].right = x.right
  BY DEF Node

(* A field of a node of the arena is written.                              *)
LEMMA Write ==
  ASSUME NEW T, NEW s \in Seq(T), NEW w \in 1..Len(s), NEW v \in T, NEW u, u = [s EXCEPT ![w] = v]
  PROVE  /\ u \in Seq(T) /\ Len(u) = Len(s) /\ u[w] = v
         /\ \A b \in 1..Len(s) : b # w => u[b] = s[b]
  BY ExceptSeq

(* A node of a statement, once in the arena.                               *)
LEMMA PlacedNode ==
  ASSUME TypeOK, prog \in Programs, NEW x, NEW j \in Nat, IsCodeNode(x, j, Len(prog))
  PROVE  /\ Placed(x) \in Node /\ Placed(x).type = x.type
         /\ x.type = "APP" => /\ Placed(x).left = Len(mem) + x.left
                              /\ Placed(x).right = Len(mem) + x.right
         /\ x.type = "REF" => Placed(x).left = SkExpr(x.left)
  <1>1. /\ x \in [type : Types, left : Nat, right : Nat, id : Idents \cup {NoIdent}]
        /\ Len(mem) \in Nat
    BY DEF IsCodeNode, Node, TypeOK
  <1>2. CASE x.type = "APP"
    <2>1. Placed(x) = [x EXCEPT !.left = Len(mem) + @, !.right = Len(mem) + @]
      BY <1>2 DEF Placed
    <2>2. Len(mem) + x.left \in Nat /\ Len(mem) + x.right \in Nat
      BY <1>1
    <2> QED
      BY <1>1, <1>2, <2>1, <2>2 DEF Node
  <1>3. CASE x.type = "REF"
    <2>1. Placed(x) = [x EXCEPT !.left = SkExpr(@), !.id = prog[x.left].var]
      BY <1>3 DEF Placed
    <2>2. x.left \in 1..Len(prog)
      BY <1>3 DEF IsCodeNode
    <2>3. prog[x.left].var \in Idents
      BY <2>2, ProgramsAssumption DEF IsStatement
    <2>4. SkExpr(x.left) \in Nat
      <3>1. \A s \in DOMAIN roots : roots[s] \in Nat
        BY LenProperties DEF TypeOK
      <3> QED
        BY <3>1 DEF SkExpr
    <2> QED
      BY <1>1, <1>3, <2>1, <2>3, <2>4 DEF Node
  <1>4. CASE x.type \notin {"APP", "REF"}
    <2>1. Placed(x) = x
      BY <1>4 DEF Placed
    <2> QED
      BY <1>1, <1>4, <2>1 DEF Node
  <1> QED
    BY <1>2, <1>3, <1>4

(* The invariant holds before the first statement is converted.            *)
THEOREM InitInv == Init => IInv
  BY BoundsAssumption DEF Init, IInv, TypeOK, HeapOK, RefsOK, StatementOK, SpineOK, CopyOK, PCs, Halted, NULL

-----------------------------------------------------------------------------
(* Steps that leave the nodes alone.                                       *)
LEMMA QuietStep ==
  ASSUME IInv, prog \in Programs,
         UNCHANGED <<prog, mem, roots, base, expr, i, todo, copied>>,
         \/ AllConverted \/ Iterate \/ BudgetSpent \/ WalkLeft \/ Arrived \/ NoRedex
         \/ ArenaFull \/ UNCHANGED vars
  PROVE  IInv'
  <1> USE DEF IInv
  <1>1. HeapOK' /\ RefsOK'
    BY DEF HeapOK, RefsOK, ChildOK, Pending
  <1>2. CASE UNCHANGED vars
    BY <1>2, <1>1 DEF vars, TypeOK, StatementOK, SpineOK, CopyOK
  <1>3. CASE AllConverted \/ BudgetSpent \/ NoRedex \/ ArenaFull
    BY <1>3, <1>1 DEF AllConverted, BudgetSpent, NoRedex, ArenaFull, TypeOK, StatementOK, SpineOK, CopyOK, PCs, Halted
  <1>4. CASE Iterate
    BY <1>4, <1>1 DEF Iterate, TypeOK, StatementOK, SpineOK, CopyOK, PCs, Halted
  <1>5. CASE WalkLeft
    <2>1. leftmost \in 1..Len(mem) /\ leftmost > base /\ Len(spine) \in Nat \ {0}
      BY <1>5 DEF WalkLeft, SpineOK, TypeOK, leftmost
    <2>2. ~Pending(leftmost, "left")
      BY <1>5 DEF WalkLeft, CopyOK, Pending
    <2>3. mem[leftmost].left \in 1..Len(mem) /\ mem[leftmost].left > base
      BY <1>5, <2>1, <2>2 DEF WalkLeft, HeapOK, ChildOK, TypeOK
    <2>4. /\ spine' \in Seq(1..Len(mem)) /\ spine' # <<>>
          /\ \A k \in 1..Len(spine') : spine'[k] > base
      <3>1. /\ spine' = Append(spine, mem[leftmost].left) /\ spine \in Seq(1..Len(mem))
            /\ \A k \in 1..Len(spine) : spine[k] > base
        BY <1>5 DEF WalkLeft, TypeOK, SpineOK
      <3>2. /\ spine' \in Seq(1..Len(mem)) /\ Len(spine') = Len(spine) + 1 /\ spine' # <<>>
            /\ \A k \in 1..Len(spine) : spine'[k] = spine[k]
            /\ spine'[Len(spine) + 1] = mem[leftmost].left
        BY <3>1, <2>3, Push
      <3> QED
        BY <3>1, <3>2, <2>1, <2>3
    <2>5. \A k \in 1..(Len(spine') - 1) : mem[spine'[k]].type = "APP"
      BY <1>5, <2>1 DEF WalkLeft, TypeOK, SpineOK, leftmost
    <2> QED
      BY <1>5, <1>1, <2>4, <2>5 DEF WalkLeft, TypeOK, StatementOK, SpineOK, CopyOK, PCs, Halted
  <1>6. CASE Arrived
    BY <1>6, <1>1 DEF Arrived, TypeOK, StatementOK, SpineOK, CopyOK, PCs, Halted
  <1> QED
    BY <1>2, <1>3, <1>4, <1>5, <1>6

(* A reference at the head starts a copy, or is NULL, which a file without *)
(* forward references never gets to.                                       *)
LEMMA RefStepInv ==
  ASSUME IInv, prog \in Programs, RefStep
  PROVE  IInv'
  <1> USE DEF IInv
  <1>1. todo = <<>>
    BY DEF RefStep, CopyOK
  <1>2. HeapOK' /\ RefsOK'
    BY <1>1 DEF RefStep, HeapOK, RefsOK, ChildOK, Pending
  <1>3. leftmost \in 1..Len(mem) /\ mem[leftmost].type = "REF"
    BY DEF RefStep, RefHead, SpineOK, TypeOK, leftmost
  <1>4. mem[leftmost].left = NULL => ~Closed(prog)
    BY <1>3 DEF RefsOK
  <1>5. mem[leftmost].left \in 0..Len(mem)
    BY <1>3 DEF HeapOK
  <1>6. CASE mem[leftmost].left = NULL
    BY <1>6, <1>2, <1>4, <1>1 DEF RefStep, TypeOK, StatementOK, SpineOK, CopyOK, PCs, Halted
  <1>7. CASE mem[leftmost].left # NULL
    <2>1. todo' \in Seq([src : 1..Len(mem), dst : 0..Len(mem), side : {"left", "right"}])
      <3>1. mem[leftmost].left \in 1..Len(mem) /\ Len(mem) \in Nat
        BY <1>7, <1>5 DEF TypeOK
      <3>2. [src |-> mem[leftmost].left, dst |-> NULL, side |-> "left"]
              \in [src : 1..Len(mem), dst : 0..Len(mem), side : {"left", "right"}]
        BY <3>1
      <3> QED
        BY <1>7, <3>2, Single DEF RefStep
    <2> QED
      BY <1>7, <1>2, <1>1, <2>1 DEF RefStep, TypeOK, StatementOK, SpineOK, CopyOK, PCs, Halted
  <1> QED
    BY <1>6, <1>7

-----------------------------------------------------------------------------
(* A statement enters the arena.                                           *)
LEMMA ConvertInv ==
  ASSUME IInv, prog \in Programs, ConvertStmt
  PROVE  IInv'
  <1> USE DEF IInv
  <1> DEFINE code == Statement.code
             s0   == Len(roots) + 1
             n    == Len(mem)
  <1>1. CASE ~Room(Len(code))
    BY <1>1, QuietStep DEF ConvertStmt, ArenaFull
  <1>2. CASE Room(Len(code))
    <2>1. s0 \in 1..Len(prog) /\ n \in Nat /\ Len(prog) \in Nat /\ IsStatement(prog[s0], Len(prog))
      BY ProgramsAssumption DEF ConvertStmt, TypeOK
    <2>2. /\ code \in Seq(Node) /\ Len(code) \in Nat \ {0}
          /\ \A j \in 1..Len(code) : IsCodeNode(code[j], j, Len(prog))
      BY <2>1 DEF IsStatement, Statement
    <2>3. \A s \in 1..Len(prog) : SkExpr(s) \in 0..n /\ (s < s0 => SkExpr(s) # NULL)
      BY <2>1 DEF SkExpr, TypeOK
    <2>4. \A s \in 1..Len(prog) : prog[s].var \in Idents
      BY ProgramsAssumption DEF IsStatement
    <2>5. \A j \in 1..Len(code) :
            /\ Placed(code[j]) \in Node
            /\ Placed(code[j]).type = code[j].type
            /\ code[j].type = "APP" => /\ Placed(code[j]).left \in (n + 1)..(n + Len(code))
                                       /\ Placed(code[j]).right \in (n + 1)..(n + Len(code))
            /\ code[j].type = "REF" => Placed(code[j]).left = SkExpr(code[j].left)
      <3> SUFFICES ASSUME NEW j \in 1..Len(code)
                   PROVE  /\ Placed(code[j]) \in Node
                          /\ Placed(code[j]).type = code[j].type
                          /\ code[j].type = "APP" => /\ Placed(code[j]).left \in (n + 1)..(n + Len(code))
                                                     /\ Placed(code[j]).right \in (n + 1)..(n + Len(code))
                          /\ code[j].type = "REF" => Placed(code[j]).left = SkExpr(code[j].left)
        OBVIOUS
      <3>1. IsCodeNode(code[j], j, Len(prog)) /\ j \in Nat
        BY <2>2
      <3>2. /\ Placed(code[j]) \in Node /\ Placed(code[j]).type = code[j].type
            /\ code[j].type = "APP" => /\ Placed(code[j]).left = Len(mem) + code[j].left
                                       /\ Placed(code[j]).right = Len(mem) + code[j].right
            /\ code[j].type = "REF" => Placed(code[j]).left = SkExpr(code[j].left)
        BY <3>1, PlacedNode
      <3>3. ASSUME code[j].type = "APP"
            PROVE  Len(mem) + code[j].left \in (n + 1)..(n + Len(code))
                   /\ Len(mem) + code[j].right \in (n + 1)..(n + Len(code))
        <4>1. code[j].left \in 1..(j - 1) /\ code[j].right \in 1..(j - 1)
          BY <3>1, <3>3 DEF IsCodeNode
        <4>2. n \in Nat /\ n = Len(mem) /\ Len(code) \in Nat /\ j <= Len(code)
          BY <2>1, <2>2
        <4> QED
          BY <3>1, <4>1, <4>2
      <3> QED
        BY <3>2, <3>3
    <2>6. /\ mem' \in Seq(Node) /\ Len(mem') = n + Len(code)
          /\ \A a \in 1..n : mem'[a] = mem[a]
          /\ \A a \in (n + 1)..Len(mem') : a - n \in 1..Len(code) /\ mem'[a] = Placed(code[a - n])
      <3> DEFINE f == [j \in 1..Len(code) |-> Placed(code[j])]
      <3>1. mem' = mem \o f /\ mem \in Seq(Node)
        BY <1>2 DEF ConvertStmt, TypeOK
      <3>2. \A j \in 1..Len(code) : f[j] = Placed(code[j]) /\ f[j] \in Node
        BY <2>5
      <3>3. f \in [1..Len(code) -> Node] /\ Len(code) \in Nat
        BY <2>2, <3>2
      <3> HIDE DEF f
      <3>4. /\ mem' \in Seq(Node) /\ Len(mem') = Len(mem) + Len(code)
            /\ \A k \in 1..Len(mem) : mem'[k] = mem[k]
            /\ \A k \in (Len(mem) + 1)..Len(mem') :
                  k - Len(mem) \in 1..Len(code) /\ mem'[k] = f[k - Len(mem)]
        <4>1. /\ mem \o f \in Seq(Node) /\ Len(mem \o f) = Len(mem) + Len(code)
              /\ \A k \in 1..Len(mem) : (mem \o f)[k] = mem[k]
              /\ \A k \in (Len(mem) + 1)..(Len(mem) + Len(code)) :
                    k - Len(mem) \in 1..Len(code) /\ (mem \o f)[k] = f[k - Len(mem)]
          <5> DEFINE m == Len(code)
          <5>1. mem \in Seq(Node) /\ m \in Nat /\ f \in [1..m -> Node]
            BY <3>1, <3>3
          <5> HIDE DEF m
          <5>2. mem \o f \in Seq(Node) /\ Len(mem \o f) = Len(mem) + m
            BY <5>1, Concat, SMT
          <5>3. \A k \in 1..Len(mem) : (mem \o f)[k] = mem[k]
            BY <5>1, Concat, SMT
          <5>4. \A k \in (Len(mem) + 1)..(Len(mem) + m) :
                   k - Len(mem) \in 1..m /\ (mem \o f)[k] = f[k - Len(mem)]
            BY <5>1, Concat, SMT
          <5> QED
            BY <5>2, <5>3, <5>4 DEF m
        <4> QED
          BY <4>1, <3>1
      <3> QED
        BY <3>4, <3>2
    <2>7. todo = <<>> /\ todo' = todo
      BY <1>2 DEF ConvertStmt, CopyOK
    <2>8. HeapOK'
      <3> SUFFICES ASSUME NEW a \in 1..Len(mem')
                   PROVE  /\ mem'[a].type = "APP" =>
                                ChildOK(a, mem[a].left, "left")' /\ ChildOK(a, mem[a].right, "right")'
                          /\ mem'[a].type = "REF" => mem'[a].left \in 0..Len(mem')
        BY DEF HeapOK
      <3>1. CASE a \in 1..n
        <4>1. mem'[a] = mem[a] /\ a \in 1..Len(mem)
          BY <3>1, <2>6, <2>1
        <4>2. /\ mem[a].type = "APP" => ChildOK(a, mem[a].left, "left") /\ ChildOK(a, mem[a].right, "right")
              /\ mem[a].type = "REF" => mem[a].left \in 0..Len(mem)
          BY <4>1 DEF HeapOK
        <4>3. base' = n /\ Len(mem) <= Len(mem') /\ Len(mem') \in Nat /\ n = Len(mem) /\ n \in Nat
          BY <1>2, <2>1, <2>2, <2>6 DEF ConvertStmt
        <4>4. \A b, side : ChildOK(a, b, side) => ChildOK(a, b, side)'
          BY <3>1, <2>7, <4>3 DEF ChildOK, Pending
        <4> QED
          BY <4>1, <4>2, <4>3, <4>4
      <3>2. CASE a \in (n + 1)..Len(mem')
        <4> DEFINE x == code[a - n]
        <4>1. /\ mem'[a] = Placed(x) /\ Placed(x).type = x.type /\ IsCodeNode(x, a - n, Len(prog))
              /\ x.type = "APP" => /\ Placed(x).left \in (n + 1)..(n + Len(code))
                                   /\ Placed(x).right \in (n + 1)..(n + Len(code))
              /\ x.type = "REF" => Placed(x).left = SkExpr(x.left)
          BY <3>2, <2>6, <2>5, <2>2
        <4>2. base' = n /\ n \in Nat /\ Len(mem') = n + Len(code) /\ Len(code) \in Nat
          BY <1>2, <2>6, <2>1, <2>2 DEF ConvertStmt
        <4>3. mem'[a].type = "REF" => mem'[a].left \in 0..Len(mem')
          BY <4>1, <4>2, <2>3 DEF IsCodeNode
        <4>4. ASSUME mem'[a].type = "APP"
              PROVE  ChildOK(a, mem[a].left, "left")' /\ ChildOK(a, mem[a].right, "right")'
          BY <4>1, <4>2, <4>4 DEF ChildOK
        <4> QED
          BY <4>3, <4>4
      <3> QED
        BY <3>1, <3>2, <2>6, <2>1, <2>2
    <2>9. RefsOK'
      <3> SUFFICES ASSUME Closed(prog), NEW a \in 1..Len(mem'), mem'[a].type = "REF"
                   PROVE  mem'[a].left # NULL
        BY <1>2 DEF RefsOK, ConvertStmt
      <3>1. CASE a \in 1..n
        BY <3>1, <2>6 DEF RefsOK
      <3>2. CASE a \in (n + 1)..Len(mem')
        BY <3>2, <2>6, <2>5, <2>3, <2>2, <2>1 DEF Closed, Statement, IsCodeNode
      <3> QED
        BY <3>1, <3>2, <2>6, <2>1, <2>2
    <2>10. TypeOK'
      <3>1. /\ roots' = roots /\ spine' = spine /\ todo' = todo /\ copied' = copied
            /\ prog' = prog /\ base' = n /\ expr' = n + Len(code) /\ i' = 0 /\ pc' = "loop"
        BY <1>2 DEF ConvertStmt
      <3>2. roots \in Seq(1..Len(mem')) /\ spine \in Seq(1..Len(mem'))
        BY <2>6, <2>1, <2>2, SeqMonotonic DEF TypeOK
      <3> QED
        BY <3>1, <3>2, <2>7, <2>6, <2>1, <2>2, BoundsAssumption DEF TypeOK, PCs
    <2> QED
      BY <1>2, <2>7, <2>8, <2>9, <2>10, <2>1, <2>2 DEF ConvertStmt, StatementOK, SpineOK, CopyOK, TypeOK
  <1> QED
    BY <1>1, <1>2

-----------------------------------------------------------------------------
(* An assignment to expr or to the left field of a node of the spine.      *)
LEMMA RedirectInv ==
  ASSUME IInv, todo = <<>>, pc \in {"reduce", "copy"}, UNCHANGED <<prog, base, todo>>,
         NEW d \in 0..(Len(spine) - 1), NEW a \in 1..Len(mem), a > base, Redirect(d, a)
  PROVE  /\ HeapOK' /\ RefsOK'
         /\ mem' \in Seq(Node) /\ Len(mem') = Len(mem)
         /\ expr' \in 1..Len(mem) /\ expr' > base
         /\ \A b \in 1..base : mem'[b] = mem[b]
  <1> USE DEF IInv
  <1>1. /\ mem \in Seq(Node) /\ Len(mem) \in Nat /\ base \in 0..Len(mem)
        /\ expr \in 0..Len(mem) /\ expr > base /\ spine \in Seq(1..Len(mem))
    BY DEF TypeOK, StatementOK
  <1>2. CASE d = 0
    BY <1>1, <1>2 DEF Redirect, HeapOK, RefsOK, ChildOK, Pending
  <1>3. CASE d # 0
    <2> DEFINE w == spine[d]
    <2>1. d \in 1..Len(spine) /\ w \in 1..Len(mem) /\ w > base
      BY <1>1, <1>3, LenProperties DEF SpineOK
    <2>2. mem' = [mem EXCEPT ![w] = [mem[w] EXCEPT !.left = a]] /\ expr' = expr
      BY <1>3 DEF Redirect
    <2> HIDE DEF w
    <2>3. mem[w] \in Node /\ [mem[w] EXCEPT !.left = a] \in Node
      <3>1. mem[w] \in Node /\ a \in Nat
        BY <1>1, <2>1, ElementOfSeq
      <3> QED
        BY <3>1, NodeUpdate
    <2>4. /\ mem' \in Seq(Node) /\ Len(mem') = Len(mem)
          /\ \A b \in 1..Len(mem) : b # w => mem'[b] = mem[b]
          /\ mem'[w] = [mem[w] EXCEPT !.left = a]
      BY <1>1, <2>1, <2>2, <2>3, Write
    <2>5. mem'[w].type = mem[w].type /\ mem'[w].left = a /\ mem'[w].right = mem[w].right
      BY <2>3, <2>4, <1>1, NodeUpdate
    <2>6. HeapOK'
      <3> SUFFICES ASSUME NEW b \in 1..Len(mem)
                   PROVE  /\ mem'[b].type = "APP" =>
                                ChildOK(b, mem[b].left, "left")' /\ ChildOK(b, mem[b].right, "right")'
                          /\ mem'[b].type = "REF" => mem'[b].left \in 0..Len(mem)
        BY <2>4 DEF HeapOK
      <3>1. \A c, side : ChildOK(b, c, side) => ChildOK(b, c, side)'
        BY <2>4 DEF ChildOK, Pending
      <3>2. ChildOK(b, a, "left")'
        BY <1>1, <2>4 DEF ChildOK
      <3>3. /\ mem[b].type = "APP" => ChildOK(b, mem[b].left, "left") /\ ChildOK(b, mem[b].right, "right")
            /\ mem[b].type = "REF" => mem[b].left \in 0..Len(mem)
        BY DEF HeapOK
      <3>4. CASE b = w
        BY <3>1, <3>2, <3>3, <3>4, <2>5 DEF ChildOK
      <3>5. CASE b # w
        BY <3>1, <3>3, <3>5, <2>4 DEF ChildOK
      <3> QED
        BY <3>4, <3>5
    <2>7. RefsOK'
      <3> SUFFICES ASSUME Closed(prog), NEW b \in 1..Len(mem), mem'[b].type = "REF"
                   PROVE  mem'[b].left # NULL
        BY <2>4 DEF RefsOK
      <3>1. CASE b = w
        BY <3>1, <2>5
      <3>2. CASE b # w
        BY <3>2, <2>4 DEF RefsOK
      <3> QED
        BY <3>1, <3>2
    <2> QED
      BY <1>1, <2>1, <2>2, <2>4, <2>6, <2>7
  <1> QED
    BY <1>2, <1>3

(* The K rule puts the first argument in the place of the redex:           *)
(* skt_beta_redu, case K_NODE.                                             *)
LEMMA KStepInv ==
  ASSUME IInv, prog \in Programs, KStep
  PROVE  IInv' /\ \A b \in 1..base : mem'[b] = mem[b]
  <1> USE DEF IInv
  <1> DEFINE p == spine[depth]
  <1>1. /\ todo = <<>> /\ spine \in Seq(1..Len(mem)) /\ Len(mem) \in Nat /\ base \in 0..Len(mem)
        /\ Len(spine) \in Nat /\ depth = Len(spine) - 1 /\ depth >= 2
    BY LenProperties DEF KStep, KRedex, CopyOK, TypeOK, depth
  <1>2. p \in 1..Len(mem) /\ p > base /\ mem[p].type = "APP"
    <2>1. depth \in 1..(Len(spine) - 1) /\ depth \in 1..Len(spine)
      BY <1>1
    <2>2. /\ \A k \in 1..Len(spine) : spine[k] > base
          /\ \A k \in 1..(Len(spine) - 1) : mem[spine[k]].type = "APP"
      BY DEF KStep, SpineOK
    <2>3. spine[depth] \in 1..Len(mem)
      BY <1>1, <2>1, ElementOfSeq
    <2> QED
      BY <2>1, <2>2, <2>3
  <1>3. ~Pending(p, "right")
    BY <1>1 DEF Pending
  <1>4. mem[p].right \in 1..Len(mem) /\ mem[p].right > base
    BY <1>1, <1>2, <1>3 DEF HeapOK, ChildOK
  <1>5. /\ UNCHANGED <<prog, roots, base, spine, todo, copied>> /\ pc = "reduce"
        /\ i' = i + 1 /\ pc' = "loop" /\ Redirect(depth - 2, mem[p].right)
        /\ depth - 2 \in 0..(Len(spine) - 1)
    BY <1>1 DEF KStep
  <1>6. /\ HeapOK' /\ RefsOK'
        /\ mem' \in Seq(Node) /\ Len(mem') = Len(mem)
        /\ expr' \in 1..Len(mem) /\ expr' > base
        /\ \A b \in 1..base : mem'[b] = mem[b]
    BY <1>1, <1>4, <1>5, RedirectInv
  <1>7. i < MaxBetaReductions /\ i \in Nat /\ MaxBetaReductions \in Nat /\ Len(roots) < Len(prog)
    BY <1>5, BoundsAssumption DEF StatementOK, TypeOK
  <1>8. TypeOK'
    <2>1. i' \in 0..MaxBetaReductions /\ pc' \in PCs
      BY <1>5, <1>7 DEF PCs
    <2>2. /\ roots' \in Seq(1..Len(mem')) /\ Len(roots') <= Len(prog') /\ base' \in 0..Len(mem')
          /\ spine' \in Seq(1..Len(mem')) /\ copied' \in 0..Len(mem')
          /\ todo' \in Seq([src : 1..Len(mem'), dst : 0..Len(mem'), side : {"left", "right"}])
      BY <1>5, <1>6 DEF TypeOK
    <2>3. mem' \in Seq(Node) /\ expr' \in 0..Len(mem')
      BY <1>1, <1>6
    <2> QED
      BY <2>1, <2>2, <2>3 DEF TypeOK
  <1>9. StatementOK'
    BY <1>1, <1>5, <1>6, <1>7 DEF StatementOK
  <1>10. SpineOK' /\ CopyOK'
    BY <1>1, <1>5 DEF SpineOK, CopyOK
  <1> QED
    BY <1>5, <1>6, <1>8, <1>9, <1>10

(* The result of skt_copy takes the place of the reference.                *)
LEMMA CopyReturnsInv ==
  ASSUME IInv, prog \in Programs, CopyReturns
  PROVE  IInv' /\ \A b \in 1..base : mem'[b] = mem[b]
  <1> USE DEF IInv
  <1>1. /\ todo = <<>> /\ spine \in Seq(1..Len(mem)) /\ Len(mem) \in Nat /\ base \in 0..Len(mem)
        /\ Len(spine) \in Nat \ {0} /\ depth = Len(spine) - 1
    BY LenProperties DEF CopyReturns, SpineOK, TypeOK, depth
  <1>2. copied \in 1..Len(mem) /\ copied > base
    BY <1>1 DEF CopyReturns, CopyOK, TypeOK
  <1>3. /\ UNCHANGED <<prog, roots, base, spine, todo, copied>> /\ pc = "copy"
        /\ i' = i + 1 /\ pc' = "loop" /\ Redirect(depth, copied)
        /\ depth \in 0..(Len(spine) - 1)
    BY <1>1 DEF CopyReturns
  <1>4. /\ HeapOK' /\ RefsOK'
        /\ mem' \in Seq(Node) /\ Len(mem') = Len(mem)
        /\ expr' \in 1..Len(mem) /\ expr' > base
        /\ \A b \in 1..base : mem'[b] = mem[b]
    BY <1>1, <1>2, <1>3, RedirectInv
  <1>5. i < MaxBetaReductions /\ i \in Nat /\ MaxBetaReductions \in Nat /\ Len(roots) < Len(prog)
    BY <1>3, BoundsAssumption DEF StatementOK, TypeOK
  <1>6. TypeOK'
    BY <1>1, <1>3, <1>4, <1>5 DEF TypeOK, PCs
  <1> QED
    BY <1>1, <1>3, <1>4, <1>5, <1>6 DEF StatementOK, SpineOK, CopyOK

(* The root of a finished statement gets its name.                         *)
LEMMA FinishInv ==
  ASSUME IInv, prog \in Programs, FinishStmt
  PROVE  IInv' /\ \A b \in 1..base : mem'[b] = mem[b]
  <1> USE DEF IInv
  <1> DEFINE x == Statement.var
  <1>1. /\ todo = <<>> /\ Len(mem) \in Nat /\ base \in 0..Len(mem) /\ mem \in Seq(Node)
        /\ expr \in 1..Len(mem) /\ expr > base /\ Len(roots) < Len(prog) /\ Len(roots) \in Nat
        /\ Len(prog) \in Nat
    BY ProgramsAssumption DEF FinishStmt, CopyOK, TypeOK, StatementOK
  <1>2. x \in Idents
    BY <1>1, ProgramsAssumption DEF IsStatement, Statement
  <1>3. mem' = [mem EXCEPT ![expr] = [mem[expr] EXCEPT !.id = x]]
    BY DEF FinishStmt
  <1> HIDE DEF x
  <1>4. mem[expr] \in Node /\ [mem[expr] EXCEPT !.id = x] \in Node
    <2>1. mem[expr] \in Node
      BY <1>1, ElementOfSeq
    <2> QED
      BY <2>1, <1>2, NodeUpdate
  <1>5. /\ mem' \in Seq(Node) /\ Len(mem') = Len(mem)
        /\ \A b \in 1..Len(mem) : b # expr => mem'[b] = mem[b]
        /\ mem'[expr] = [mem[expr] EXCEPT !.id = x]
    BY <1>1, <1>3, <1>4, Write
  <1>6. \A b \in 1..Len(mem) : /\ mem'[b].type = mem[b].type
                               /\ mem'[b].left = mem[b].left /\ mem'[b].right = mem[b].right
    <2>1. /\ mem'[expr].type = mem[expr].type
          /\ mem'[expr].left = mem[expr].left /\ mem'[expr].right = mem[expr].right
      BY <1>2, <1>4, <1>5, NodeUpdate
    <2> QED
      BY <2>1, <1>5
  <1>7. /\ UNCHANGED <<prog, base, expr, i, spine, todo, copied>> /\ pc' = "convert"
        /\ roots' = Append(roots, expr)
    BY DEF FinishStmt
  <1>8. HeapOK' /\ RefsOK'
    BY <1>5, <1>6, <1>7 DEF HeapOK, RefsOK, ChildOK, Pending
  <1>9. roots' \in Seq(1..Len(mem)) /\ Len(roots') = Len(roots) + 1
    BY <1>1, <1>7, Push DEF TypeOK
  <1>10. TypeOK'
    BY <1>1, <1>5, <1>7, <1>9 DEF TypeOK, PCs
  <1> QED
    BY <1>1, <1>5, <1>7, <1>8, <1>10 DEF StatementOK, SpineOK, CopyOK

-----------------------------------------------------------------------------
(* u is mem after assignments to fields of nodes of this statement, each   *)
(* of a node of this statement, the one allocated by the step included.    *)
Fresh == (base + 1)..(Len(mem) + 1)

Kept(u) ==
  /\ u \in Seq(Node) /\ Len(u) = Len(mem)
  /\ \A b \in 1..Len(mem) :
       /\ u[b].type = mem[b].type
       /\ u[b].left = mem[b].left \/ u[b].left \in Fresh
       /\ u[b].right = mem[b].right \/ u[b].right \in Fresh
       /\ b <= base => u[b] = mem[b]

(* Nodes changed in this way keep their left children sound.               *)
LEMMA KeptLeft ==
  ASSUME TypeOK, NEW u, Kept(u), NEW w \in 1..Len(mem), w > base, NEW a \in Fresh
  PROVE  /\ Kept([u EXCEPT ![w].left = a])
         /\ [u EXCEPT ![w].left = a][w].left = a
  <1>1. u \in Seq(Node) /\ w \in 1..Len(u) /\ base \in Nat /\ Len(mem) \in Nat /\ Len(u) = Len(mem)
    BY DEF Kept, TypeOK
  <1>2. u[w] \in Node /\ a \in Nat
    BY <1>1, ElementOfSeq DEF Fresh
  <1> DEFINE v == [u[w] EXCEPT !.left = a]
             t == [u EXCEPT ![w] = v]
  <1>3. v \in Node /\ v.left = a /\ v.type = u[w].type /\ v.right = u[w].right
    BY <1>2, NodeUpdate
  <1>4. t = [u EXCEPT ![w].left = a]
    OBVIOUS
  <1> HIDE DEF v
  <1>5. /\ t \in Seq(Node) /\ Len(t) = Len(u) /\ t[w] = v
        /\ \A b \in 1..Len(u) : b # w => t[b] = u[b]
    BY <1>1, <1>3, Write
  <1> HIDE DEF t
  <1>6. ASSUME NEW b \in 1..Len(mem)
        PROVE  /\ t[b].type = mem[b].type
               /\ t[b].left = mem[b].left \/ t[b].left \in Fresh
               /\ t[b].right = mem[b].right \/ t[b].right \in Fresh
               /\ b <= base => t[b] = mem[b]
    <2>1. CASE b = w
      BY <2>1, <1>1, <1>3, <1>5 DEF Kept
    <2>2. CASE b # w
      BY <2>2, <1>1, <1>5 DEF Kept
    <2> QED
      BY <2>1, <2>2
  <1>7. Kept(t)
    BY <1>1, <1>5, <1>6 DEF Kept
  <1> QED
    BY <1>3, <1>4, <1>5, <1>7

(* The same for the right children.                                        *)
LEMMA KeptRight ==
  ASSUME TypeOK, NEW u, Kept(u), NEW w \in 1..Len(mem), w > base, NEW a \in Fresh
  PROVE  /\ Kept([u EXCEPT ![w].right = a])
         /\ [u EXCEPT ![w].right = a][w].right = a
  <1>1. u \in Seq(Node) /\ w \in 1..Len(u) /\ base \in Nat /\ Len(mem) \in Nat /\ Len(u) = Len(mem)
    BY DEF Kept, TypeOK
  <1>2. u[w] \in Node /\ a \in Nat
    BY <1>1, ElementOfSeq DEF Fresh
  <1> DEFINE v == [u[w] EXCEPT !.right = a]
             t == [u EXCEPT ![w] = v]
  <1>3. v \in Node /\ v.right = a /\ v.type = u[w].type /\ v.left = u[w].left
    BY <1>2, NodeUpdate
  <1>4. t = [u EXCEPT ![w].right = a]
    OBVIOUS
  <1> HIDE DEF v
  <1>5. /\ t \in Seq(Node) /\ Len(t) = Len(u) /\ t[w] = v
        /\ \A b \in 1..Len(u) : b # w => t[b] = u[b]
    BY <1>1, <1>3, Write
  <1> HIDE DEF t
  <1>6. ASSUME NEW b \in 1..Len(mem)
        PROVE  /\ t[b].type = mem[b].type
               /\ t[b].left = mem[b].left \/ t[b].left \in Fresh
               /\ t[b].right = mem[b].right \/ t[b].right \in Fresh
               /\ b <= base => t[b] = mem[b]
    <2>1. CASE b = w
      BY <2>1, <1>1, <1>3, <1>5 DEF Kept
    <2>2. CASE b # w
      BY <2>2, <1>1, <1>5 DEF Kept
    <2> QED
      BY <2>1, <2>2
  <1>7. Kept(t)
    BY <1>1, <1>5, <1>6 DEF Kept
  <1> QED
    BY <1>3, <1>4, <1>5, <1>7

(* A step that changes fields in this way and allocates one node.          *)
LEMMA GrowInv ==
  ASSUME TypeOK, RefsOK, NEW u, Kept(u), NEW v \in Node, mem' = Append(u, v),
         UNCHANGED <<prog, base>>,
         v.type = "REF" => v.left \in 0..Len(mem) /\ (Closed(prog) => v.left # NULL)
  PROVE  /\ mem' \in Seq(Node) /\ Len(mem') = Len(mem) + 1
         /\ mem'[Len(mem) + 1] = v
         /\ \A b \in 1..Len(mem) : mem'[b] = u[b]
         /\ \A b \in 1..base : mem'[b] = mem[b]
         /\ RefsOK'
  <1>1. /\ u \in Seq(Node) /\ Len(u) = Len(mem) /\ Len(mem) \in Nat /\ base \in 0..Len(mem)
    BY DEF Kept, TypeOK
  <1>2. /\ mem' \in Seq(Node) /\ Len(mem') = Len(mem) + 1
        /\ \A b \in 1..Len(mem) : mem'[b] = u[b]
        /\ mem'[Len(mem) + 1] = v
    BY <1>1, Push
  <1>3. \A b \in 1..base : mem'[b] = mem[b]
    BY <1>1, <1>2 DEF Kept
  <1>4. RefsOK'
    <2> SUFFICES ASSUME Closed(prog), NEW b \in 1..(Len(mem) + 1), mem'[b].type = "REF"
                 PROVE  mem'[b].left # NULL
      BY <1>2 DEF RefsOK
    <2>1. CASE b = Len(mem) + 1
      BY <2>1, <1>2
    <2>2. CASE b \in 1..Len(mem)
      BY <2>2, <1>1, <1>2 DEF Kept, RefsOK, Fresh
    <2> QED
      BY <2>1, <2>2, <1>1
  <1> QED
    BY <1>2, <1>3, <1>4

(* The S rule uses the three applications of the redex again and allocates *)
(* one reference: skt_beta_redu, case S_NODE.                              *)
LEMMA SStepInv ==
  ASSUME IInv, prog \in Programs, SStep
  PROVE  /\ IInv' /\ \A b \in 1..base : mem'[b] = mem[b]
         /\ Room(1) => Len(mem') = Len(mem) + 1
  <1> USE DEF IInv
  <1>0. CASE ~Room(1)
    BY <1>0, QuietStep DEF SStep, ArenaFull
  <1>1. CASE Room(1)
    <2> DEFINE r == spine[depth - 2]
               q == spine[depth - 1]
               p == spine[depth]
               z == mem[r].right
    <2>1. /\ todo = <<>> /\ spine \in Seq(1..Len(mem)) /\ Len(mem) \in Nat /\ base \in 0..Len(mem)
          /\ Len(spine) \in Nat /\ depth = Len(spine) - 1 /\ depth >= 3 /\ pc = "reduce"
          /\ mem \in Seq(Node)
      BY LenProperties DEF SStep, SRedex, CopyOK, TypeOK, depth
    <2>2. \A k \in 1..depth : spine[k] \in 1..Len(mem) /\ spine[k] > base /\ mem[spine[k]].type = "APP"
      <3>1. ASSUME NEW k \in 1..depth
            PROVE  k \in 1..Len(spine) /\ k \in 1..(Len(spine) - 1)
        BY <2>1
      <3>2. /\ \A k \in 1..Len(spine) : spine[k] > base
            /\ \A k \in 1..(Len(spine) - 1) : mem[spine[k]].type = "APP"
        BY <2>1 DEF SpineOK
      <3> QED
        BY <3>1, <3>2, <2>1, ElementOfSeq
    <2>3. \A k \in 1..depth : mem[spine[k]].right \in 1..Len(mem) /\ mem[spine[k]].right > base
      <3> SUFFICES ASSUME NEW k \in 1..depth
                   PROVE  mem[spine[k]].right \in 1..Len(mem) /\ mem[spine[k]].right > base
        OBVIOUS
      <3>1. ChildOK(spine[k], mem[spine[k]].right, "right")
        BY <2>2 DEF HeapOK
      <3>2. ~Pending(spine[k], "right")
        BY <2>1 DEF Pending
      <3>3. spine[k] > base
        BY <2>2
      <3> QED
        BY <2>1, <3>1, <3>2, <3>3 DEF ChildOK
    <2>4. /\ p \in 1..Len(mem) /\ p > base /\ q \in 1..Len(mem) /\ q > base
          /\ r \in 1..Len(mem) /\ r > base
          /\ z \in 1..Len(mem) /\ z > base
          /\ mem[p].right \in 1..Len(mem) /\ mem[p].right > base
          /\ mem[q].right \in 1..Len(mem) /\ mem[q].right > base
      <3>1. depth - 2 \in 1..depth /\ depth - 1 \in 1..depth /\ depth \in 1..depth
        BY <2>1
      <3> QED
        BY <2>2, <2>3, <3>1
    <2> HIDE DEF p, q, r, z
    <2>5. /\ p \in Fresh /\ q \in Fresh /\ z \in Fresh /\ mem[p].right \in Fresh
          /\ mem[q].right \in Fresh /\ Len(mem) + 1 \in Fresh
      <3>1. \A a \in 1..Len(mem) : a > base => a \in Fresh
        BY <2>1 DEF Fresh
      <3>2. Len(mem) + 1 \in Fresh
        BY <2>1 DEF Fresh
      <3> QED
        BY <3>1, <3>2, <2>4
    <2> DEFINE u1 == [mem EXCEPT ![p].left  = mem[p].right]
               u2 == [u1  EXCEPT ![p].right = z]
               u3 == [u2  EXCEPT ![q].left  = mem[q].right]
               u4 == [u3  EXCEPT ![q].right = Len(mem) + 1]
               u5 == [u4  EXCEPT ![r].left  = p]
               u6 == [u5  EXCEPT ![r].right = q]
    <2>6. mem' = Append(u6, RefTo(z))
      BY <1>1 DEF SStep, p, q, r, z
    <2>7. UNCHANGED <<prog, roots, base, expr, spine, todo, copied>> /\ i' = i + 1 /\ pc' = "loop"
      BY <1>1 DEF SStep
    <2>8. Kept(u6)
      <3>0. Kept(mem)
        BY <2>1 DEF Kept
      <3> HIDE DEF u1, u2, u3, u4, u5, u6
      <3>1. Kept(u1)
        BY <3>0, <2>4, <2>5, KeptLeft DEF u1
      <3>2. Kept(u2)
        BY <3>1, <2>4, <2>5, KeptRight DEF u2
      <3>3. Kept(u3)
        BY <3>2, <2>4, <2>5, KeptLeft DEF u3
      <3>4. Kept(u4)
        BY <3>3, <2>4, <2>5, KeptRight DEF u4
      <3>5. Kept(u5)
        BY <3>4, <2>4, <2>5, KeptLeft DEF u5
      <3> QED
        BY <3>5, <2>4, <2>5, KeptRight DEF u6
    <2> HIDE DEF u1, u2, u3, u4, u5, u6
    <2>9. RefTo(z) \in Node /\ RefTo(z).type = "REF" /\ RefTo(z).left = z
      BY <2>4, <2>1 DEF RefTo, Node, Types
    <2>10. /\ mem' \in Seq(Node) /\ Len(mem') = Len(mem) + 1
           /\ mem'[Len(mem) + 1] = RefTo(z)
           /\ \A b \in 1..Len(mem) : mem'[b] = u6[b]
           /\ \A b \in 1..base : mem'[b] = mem[b]
           /\ RefsOK'
      <3>1. RefTo(z).left \in 0..Len(mem) /\ RefTo(z).left # NULL
        BY <2>4, <2>9
      <3> QED
        BY <2>6, <2>7, <2>8, <2>9, <3>1, GrowInv
    <2>11. HeapOK'
      <3> SUFFICES ASSUME NEW b \in 1..(Len(mem) + 1)
                   PROVE  /\ mem'[b].type = "APP" =>
                                ChildOK(b, mem[b].left, "left")' /\ ChildOK(b, mem[b].right, "right")'
                          /\ mem'[b].type = "REF" => mem'[b].left \in 0..Len(mem')
        BY <2>10 DEF HeapOK
      <3>1. CASE b = Len(mem) + 1
        BY <3>1, <2>10, <2>9, <2>4, <2>1
      <3>2. CASE b \in 1..Len(mem)
        <4>1. /\ mem'[b].type = mem[b].type
              /\ mem'[b].left = mem[b].left \/ mem'[b].left \in Fresh
              /\ mem'[b].right = mem[b].right \/ mem'[b].right \in Fresh
          BY <3>2, <2>8, <2>10 DEF Kept
        <4>2. \A c \in Fresh : \A side : ChildOK(b, c, side)'
          BY <2>10, <2>7, <2>1 DEF ChildOK, Fresh
        <4>3. \A c, side : ChildOK(b, c, side) => ChildOK(b, c, side)'
          BY <2>10, <2>7, <2>1 DEF ChildOK, Pending
        <4>4. /\ mem[b].type = "APP" => ChildOK(b, mem[b].left, "left") /\ ChildOK(b, mem[b].right, "right")
              /\ mem[b].type = "REF" => mem[b].left \in 0..Len(mem)
          BY <3>2 DEF HeapOK
        <4>5. mem'[b].type = "REF" => mem'[b].left \in 0..Len(mem')
          BY <4>1, <4>4, <2>10, <2>1 DEF Fresh
        <4>6. ASSUME mem'[b].type = "APP"
              PROVE  ChildOK(b, mem[b].left, "left")' /\ ChildOK(b, mem[b].right, "right")'
          <5>1. ChildOK(b, mem[b].left, "left")'
            <6>1. CASE mem'[b].left \in Fresh
              BY <6>1, <4>2 DEF ChildOK
            <6>2. CASE mem'[b].left = mem[b].left
              BY <6>2, <4>1, <4>3, <4>4, <4>6 DEF ChildOK
            <6> QED
              BY <6>1, <6>2, <4>1
          <5>2. ChildOK(b, mem[b].right, "right")'
            <6>1. CASE mem'[b].right \in Fresh
              BY <6>1, <4>2 DEF ChildOK
            <6>2. CASE mem'[b].right = mem[b].right
              BY <6>2, <4>1, <4>3, <4>4, <4>6 DEF ChildOK
            <6> QED
              BY <6>1, <6>2, <4>1
          <5> QED
            BY <5>1, <5>2
        <4> QED
          BY <4>5, <4>6
      <3> QED
        BY <3>1, <3>2, <2>1
    <2>12. i < MaxBetaReductions /\ i \in Nat /\ MaxBetaReductions \in Nat /\ Len(roots) < Len(prog)
           /\ expr > base
      BY <2>1, BoundsAssumption DEF StatementOK, TypeOK
    <2>13. roots \in Seq(1..Len(mem')) /\ spine \in Seq(1..Len(mem'))
      BY <2>10, <2>1, SeqMonotonic DEF TypeOK
    <2>14. TypeOK'
      BY <2>1, <2>7, <2>10, <2>12, <2>13 DEF TypeOK, PCs
    <2>15. IInv'
      BY <2>1, <2>7, <2>10, <2>11, <2>12, <2>14 DEF StatementOK, SpineOK, CopyOK
    <2> QED
      BY <2>10, <2>15
  <1> QED
    BY <1>0, <1>1

-----------------------------------------------------------------------------
(* One call of skt_copy.                                                   *)
Call == [src : 1..Len(mem), dst : 0..Len(mem), side : {"left", "right"}]

(* A call of skt_copy allocates its node, links it to the node of its      *)
(* caller and leaves its children to be copied.                            *)
LEMMA CopyNodeInv ==
  ASSUME IInv, prog \in Programs, CopyNode
  PROVE  IInv' /\ \A b \in 1..base : mem'[b] = mem[b]
  <1> USE DEF IInv
  <1>0. CASE ~Room(1)
    BY <1>0, QuietStep DEF CopyNode, ArenaFull
  <1>1. CASE Room(1)
    <2> DEFINE new  == Len(mem) + 1
               call == Head(todo)
               x    == mem[call.src]
               sub(side, a) == [src |-> a, dst |-> new, side |-> side]
               linked == IF call.dst = NULL THEN mem
                         ELSE IF call.side = "left" THEN [mem EXCEPT ![call.dst].left = new]
                         ELSE [mem EXCEPT ![call.dst].right = new]
               v == CASE x.type = "APP" -> Leaf("APP", NoIdent)
                      [] x.type = "REF" -> RefTo(x.left)
                      [] x.type = "LD"  -> Leaf("LD", x.id)
                      [] x.type \in {"S", "K"} -> Leaf(x.type, NoIdent)
               first == call.dst = NULL
    <2>1. /\ pc = "copy" /\ todo # <<>> /\ todo \in Seq(Call) /\ mem \in Seq(Node)
          /\ Len(mem) \in Nat /\ base \in 0..Len(mem) /\ copied \in 0..Len(mem)
      BY DEF CopyNode, TypeOK, Call
    <2>2. /\ call = todo[1] /\ call \in Call /\ 1 \in 1..Len(todo) /\ Len(todo) \in Nat
      BY <2>1, Pop, LenProperties
    <2>3. /\ call.src \in 1..Len(mem) /\ call.dst \in 0..Len(mem) /\ call.side \in {"left", "right"}
      BY <2>2 DEF Call
    <2>4. x \in Node
      BY <2>1, <2>3, ElementOfSeq
    <2>5. /\ UNCHANGED <<prog, roots, base, pc, expr, i, spine>>
          /\ copied' = IF first THEN new ELSE copied
      BY <1>1 DEF CopyNode
    <2>6. /\ mem' = Append(linked, v)
          /\ x.type = "APP" => todo' = <<sub("left", x.left), sub("right", x.right)>> \o Tail(todo)
          /\ x.type # "APP" => todo' = Tail(todo)
      <3>1. x.type \in {"APP", "REF", "LD", "S", "K"}
        BY <2>4 DEF Node, Types
      <3> QED
        BY <1>1, <3>1 DEF CopyNode
    <2>7. /\ v \in Node /\ v.type = x.type
          /\ x.type = "REF" => v.left = x.left
          /\ x.type = "APP" => v.left = NULL /\ v.right = NULL
      <3>1. /\ x.type \in {"APP", "REF", "LD", "S", "K"} /\ x.id \in Idents \cup {NoIdent}
            /\ x.left \in Nat
        BY <2>4 DEF Node, Types
      <3> QED
        BY <3>1 DEF Node, Types, Leaf, RefTo
    (* The copy is complete below the nodes it makes.                      *)
    <2>8. /\ first => Len(todo) = 1
          /\ ~first => /\ copied > base
                       /\ \A t \in 1..Len(todo) : todo[t].dst >= copied /\ todo[t].src < copied
                       /\ \A a \in 1..(copied - 1) :
                            mem[a].type = "APP" => mem[a].left < copied /\ mem[a].right < copied
      BY <2>1, <2>2 DEF CopyOK
    <2>9. ASSUME x.type = "APP"
          PROVE  /\ x.left \in 1..Len(mem) /\ x.right \in 1..Len(mem)
                 /\ x.left < copied' /\ x.right < copied'
      <3>1. /\ ChildOK(call.src, x.left, "left") /\ ChildOK(call.src, x.right, "right")
        BY <2>9, <2>3 DEF HeapOK
      <3>2. ~Pending(call.src, "left") /\ ~Pending(call.src, "right")
        <4>1. ASSUME NEW t \in 1..Len(todo)
              PROVE  todo[t].dst # call.src
          <5>1. CASE first
            <6>1. t = 1
              <7>1. Len(todo) = 1
                BY <5>1, <2>8
              <7> QED
                BY <7>1
            <6> QED
              BY <5>1, <6>1, <2>2, <2>3
          <5>2. CASE ~first
            <6>1. todo[t].dst >= copied /\ call.src < copied
              BY <5>2, <2>8, <2>2
            <6>2. todo[t] \in Call
              BY <2>1, ElementOfSeq
            <6> QED
              BY <6>1, <6>2, <2>1, <2>3 DEF Call
          <5> QED
            BY <5>1, <5>2
        <4> QED
          BY <4>1 DEF Pending
      <3>3. x.left \in 1..Len(mem) /\ x.right \in 1..Len(mem)
        BY <3>1, <3>2, <2>1 DEF ChildOK
      <3>4. CASE first
        BY <3>3, <3>4, <2>5, <2>1
      <3>5. CASE ~first
        <4>1. call.src \in 1..(copied - 1)
          BY <3>5, <2>8, <2>2, <2>3, <2>1
        <4> QED
          BY <3>3, <3>5, <4>1, <2>5, <2>8, <2>9
      <3> QED
        BY <3>4, <3>5
    <2>10. /\ Kept(linked)
           /\ \A b \in 1..Len(mem) : b # call.dst => linked[b] = mem[b]
           /\ ~first /\ call.side = "left" => linked[call.dst].left = new
           /\ ~first /\ call.side = "right" => linked[call.dst].right = new
      <3>1. Kept(mem)
        BY <2>1 DEF Kept
      <3>2. new \in Fresh
        BY <2>1 DEF Fresh
      <3>3. CASE first
        BY <3>1, <3>3
      <3>4. CASE ~first
        <4>1. call.dst \in 1..Len(mem) /\ call.dst > base
          BY <3>4, <2>3, <2>8, <2>2, <2>1
        <4>2. CASE call.side = "left"
          <5>1. linked = [mem EXCEPT ![call.dst].left = new]
            BY <3>4, <4>2
          <5>2. Kept(linked) /\ linked[call.dst].left = new
            <6> DEFINE w == call.dst
            <6>1. linked = [mem EXCEPT ![w].left = new] /\ w \in 1..Len(mem) /\ w > base
              BY <5>1, <4>1
            <6> HIDE DEF w, new, linked
            <6>2. Kept(linked) /\ linked[w].left = new
              BY <3>1, <3>2, <6>1, KeptLeft
            <6> QED
              BY <6>2 DEF w
          <5>3. \A b \in 1..Len(mem) : b # call.dst => linked[b] = mem[b]
            BY <5>1, <2>1
          <5> QED
            BY <4>2, <5>2, <5>3
        <4>3. CASE call.side = "right"
          <5>1. linked = [mem EXCEPT ![call.dst].right = new]
            BY <3>4, <4>3
          <5>2. Kept(linked) /\ linked[call.dst].right = new
            <6> DEFINE w == call.dst
            <6>1. linked = [mem EXCEPT ![w].right = new] /\ w \in 1..Len(mem) /\ w > base
              BY <5>1, <4>1
            <6> HIDE DEF w, new, linked
            <6>2. Kept(linked) /\ linked[w].right = new
              BY <3>1, <3>2, <6>1, KeptRight
            <6> QED
              BY <6>2 DEF w
          <5>3. \A b \in 1..Len(mem) : b # call.dst => linked[b] = mem[b]
            BY <5>1, <2>1
          <5> QED
            BY <4>3, <5>2, <5>3
        <4> QED
          BY <4>2, <4>3, <2>3
      <3> QED
        BY <3>3, <3>4
    <2> HIDE DEF v, linked
    <2>11. /\ mem' \in Seq(Node) /\ Len(mem') = Len(mem) + 1
           /\ mem'[Len(mem) + 1] = v
           /\ \A b \in 1..Len(mem) : mem'[b] = linked[b]
           /\ \A b \in 1..base : mem'[b] = mem[b]
           /\ RefsOK'
      <3>1. v.type = "REF" => v.left \in 0..Len(mem) /\ (Closed(prog) => v.left # NULL)
        BY <2>7, <2>3 DEF HeapOK, RefsOK
      <3> QED
        BY <2>5, <2>6, <2>7, <2>10, <3>1, GrowInv
    <2> DEFINE T == [src : 1..Len(mem'), dst : 0..Len(mem'), side : {"left", "right"}]
    (* The calls that are left, and those the new node adds.               *)
    <2>12. /\ todo' \in Seq(T)
           /\ \A t \in 1..Len(todo') : \/ \E k \in 2..Len(todo) : todo'[t] = todo[k]
                                       \/ x.type = "APP" /\ todo'[t] = sub("left", x.left)
                                       \/ x.type = "APP" /\ todo'[t] = sub("right", x.right)
           /\ \A k \in 2..Len(todo) : \E t \in 1..Len(todo') : todo'[t] = todo[k]
           /\ x.type = "APP" => /\ \E t \in 1..Len(todo') : todo'[t] = sub("left", x.left)
                                /\ \E t \in 1..Len(todo') : todo'[t] = sub("right", x.right)
      <3>1. Call \subseteq T
        BY <2>11, <2>1 DEF Call
      <3>2. todo \in Seq(T)
        BY <3>1, <2>1, SeqMonotonic
      <3> HIDE DEF T
      <3>3. CASE x.type # "APP"
        <4>0. todo' = Tail(todo)
          BY <3>3, <2>6
        <4>1. /\ todo' \in Seq(T) /\ Len(todo') = Len(todo) - 1
              /\ \A k \in 2..Len(todo) : todo'[k - 1] = todo[k]
              /\ \A k \in 1..Len(todo') : todo'[k] = todo[k + 1]
          BY <3>2, <2>1, <4>0, Pop
        <4>2. ASSUME NEW t \in 1..Len(todo')
              PROVE  \E k \in 2..Len(todo) : todo'[t] = todo[k]
          <5>1. t + 1 \in 2..Len(todo) /\ todo'[t] = todo[t + 1]
            BY <4>1, <2>2
          <5> QED
            BY <5>1
        <4>3. ASSUME NEW k \in 2..Len(todo)
              PROVE  \E t \in 1..Len(todo') : todo'[t] = todo[k]
          <5>1. k - 1 \in 1..Len(todo') /\ todo'[k - 1] = todo[k]
            BY <4>1, <2>2
          <5> QED
            BY <5>1
        <4> QED
          BY <3>3, <4>1, <4>2, <4>3
      <3>4. CASE x.type = "APP"
        <4> DEFINE e == sub("left", x.left)
                   f == sub("right", x.right)
        <4>1. e \in T /\ f \in T
          BY <3>4, <2>9, <2>11, <2>1 DEF T
        <4>2. todo' = <<e, f>> \o Tail(todo)
          BY <3>4, <2>6
        <4> HIDE DEF e, f
        <4>3. /\ todo' \in Seq(T) /\ Len(todo') = Len(todo) + 1 /\ todo'[1] = e /\ todo'[2] = f
          BY <4>1, <4>2, <3>2, <2>1, PushTwo
        <4>4. /\ \A k \in 2..Len(todo) : todo'[k + 1] = todo[k]
              /\ \A k \in 3..Len(todo') : todo'[k] = todo[k - 1]
          BY <4>1, <4>2, <3>2, <2>1, PushTwo
        <4>5. ASSUME NEW t \in 1..Len(todo')
              PROVE  (\E k \in 2..Len(todo) : todo'[t] = todo[k]) \/ todo'[t] = e \/ todo'[t] = f
          <5>1. CASE t \in 3..Len(todo')
            <6>1. t - 1 \in 2..Len(todo) /\ todo'[t] = todo[t - 1]
              BY <5>1, <4>3, <4>4, <2>2
            <6> QED
              BY <6>1
          <5>2. t = 1 \/ t = 2 \/ t \in 3..Len(todo')
            BY <4>3, <2>2
          <5> QED
            BY <5>1, <5>2, <4>3
        <4>6. ASSUME NEW k \in 2..Len(todo)
              PROVE  \E t \in 1..Len(todo') : todo'[t] = todo[k]
          <5>1. k + 1 \in 1..Len(todo') /\ todo'[k + 1] = todo[k]
            BY <4>3, <4>4, <2>2
          <5> QED
            BY <5>1
        <4>7. 1 \in 1..Len(todo') /\ 2 \in 1..Len(todo')
          BY <4>3, <2>2
        <4> QED
          BY <3>4, <4>3, <4>5, <4>6, <4>7 DEF e, f
      <3> QED
        BY <3>3, <3>4
    <2>13. HeapOK'
      <3> SUFFICES ASSUME NEW b \in 1..(Len(mem) + 1)
                   PROVE  /\ mem'[b].type = "APP" =>
                                ChildOK(b, mem[b].left, "left")' /\ ChildOK(b, mem[b].right, "right")'
                          /\ mem'[b].type = "REF" => mem'[b].left \in 0..Len(mem')
        BY <2>11 DEF HeapOK
      <3>1. CASE b = Len(mem) + 1
        <4>1. mem'[b].type = "REF" => mem'[b].left \in 0..Len(mem')
          BY <3>1, <2>11, <2>7, <2>3, <2>1 DEF HeapOK
        <4>2. ASSUME mem'[b].type = "APP"
              PROVE  ChildOK(b, mem[b].left, "left")' /\ ChildOK(b, mem[b].right, "right")'
          <5>1. x.type = "APP" /\ mem'[b].left = NULL /\ mem'[b].right = NULL
            BY <4>2, <3>1, <2>11, <2>7
          <5>2. Pending(b, "left")' /\ Pending(b, "right")'
            BY <5>1, <3>1, <2>12 DEF Pending
          <5> QED
            BY <5>1, <5>2, <2>11, <2>1 DEF ChildOK
        <4> QED
          BY <4>1, <4>2
      <3>2. CASE b \in 1..Len(mem)
        <4>1. /\ mem'[b].type = mem[b].type
              /\ mem'[b].left = mem[b].left \/ mem'[b].left \in Fresh
              /\ mem'[b].right = mem[b].right \/ mem'[b].right \in Fresh
          BY <3>2, <2>10, <2>11 DEF Kept
        <4>2. \A c \in Fresh : \A side : ChildOK(b, c, side)'
          BY <2>11, <2>5, <2>1 DEF ChildOK, Fresh
        <4>3. ASSUME NEW c, NEW side, ChildOK(b, c, side), ~(call.dst = b /\ call.side = side)
              PROVE  ChildOK(b, c, side)'
          <5>1. Pending(b, side) => Pending(b, side)'
            <6> SUFFICES ASSUME NEW t \in 1..Len(todo), todo[t].dst = b, todo[t].side = side
                         PROVE  Pending(b, side)'
              BY DEF Pending
            <6>1. t \in 2..Len(todo)
              BY <4>3, <2>2
            <6> QED
              BY <6>1, <2>12 DEF Pending
          <5> QED
            BY <4>3, <5>1, <2>11, <2>5, <2>1 DEF ChildOK
        <4>4. /\ mem[b].type = "APP" => ChildOK(b, mem[b].left, "left") /\ ChildOK(b, mem[b].right, "right")
              /\ mem[b].type = "REF" => mem[b].left \in 0..Len(mem)
          BY <3>2 DEF HeapOK
        <4>5. mem'[b].type = "REF" => mem'[b].left \in 0..Len(mem')
          BY <4>1, <4>4, <2>11, <2>1 DEF Fresh
        <4>6. ~first /\ call.dst = b => /\ call.side = "left" => mem'[b].left \in Fresh
                                        /\ call.side = "right" => mem'[b].right \in Fresh
          BY <3>2, <2>10, <2>11, <2>1 DEF Fresh
        <4>7. call.dst = b => ~first
          BY <3>2
        <4>8. ASSUME mem'[b].type = "APP"
              PROVE  ChildOK(b, mem[b].left, "left")' /\ ChildOK(b, mem[b].right, "right")'
          <5>1. ChildOK(b, mem[b].left, "left")'
            <6>1. CASE mem'[b].left \in Fresh
              BY <6>1, <4>2 DEF ChildOK
            <6>2. CASE mem'[b].left \notin Fresh
              <7>1. mem'[b].left = mem[b].left /\ ~(call.dst = b /\ call.side = "left")
                BY <6>2, <4>1, <4>6, <4>7
              <7>2. ChildOK(b, mem[b].left, "left")
                BY <4>1, <4>4, <4>8
              <7> QED
                BY <7>1, <7>2, <4>3 DEF ChildOK
            <6> QED
              BY <6>1, <6>2
          <5>2. ChildOK(b, mem[b].right, "right")'
            <6>1. CASE mem'[b].right \in Fresh
              BY <6>1, <4>2 DEF ChildOK
            <6>2. CASE mem'[b].right \notin Fresh
              <7>1. mem'[b].right = mem[b].right /\ ~(call.dst = b /\ call.side = "right")
                BY <6>2, <4>1, <4>6, <4>7
              <7>2. ChildOK(b, mem[b].right, "right")
                BY <4>1, <4>4, <4>8
              <7> QED
                BY <7>1, <7>2, <4>3 DEF ChildOK
            <6> QED
              BY <6>1, <6>2
          <5> QED
            BY <5>1, <5>2
        <4> QED
          BY <4>5, <4>8
      <3> QED
        BY <3>1, <3>2, <2>1
    <2>14. CopyOK'
      <3>1. copied' > base' /\ copied' \in 1..Len(mem')
        BY <2>5, <2>8, <2>11, <2>1
      <3>2. ASSUME NEW t \in 1..Len(todo')
            PROVE  todo'[t].dst >= copied' /\ todo'[t].src < copied'
        <4>1. ASSUME NEW k \in 2..Len(todo), todo'[t] = todo[k]
              PROVE  todo'[t].dst >= copied' /\ todo'[t].src < copied'
          BY <4>1, <2>5, <2>8, <2>2
        <4>2. CASE x.type = "APP" /\ todo'[t] = sub("left", x.left)
          BY <4>2, <2>5, <2>9, <2>1
        <4>3. CASE x.type = "APP" /\ todo'[t] = sub("right", x.right)
          BY <4>3, <2>5, <2>9, <2>1
        <4> QED
          BY <4>1, <4>2, <4>3, <2>12
      <3>3. ASSUME NEW a \in 1..(copied' - 1), mem'[a].type = "APP"
            PROVE  mem'[a].left < copied' /\ mem'[a].right < copied'
        <4>1. CASE first
          <5>1. a \in 1..Len(mem) /\ copied' = Len(mem) + 1
            BY <4>1, <2>5, <2>1
          <5>2. mem'[a] = mem[a]
            BY <4>1, <5>1, <2>10, <2>11
          <5>3. mem[a].left \in 0..Len(mem) /\ mem[a].right \in 0..Len(mem)
            BY <5>1, <5>2, <3>3 DEF HeapOK, ChildOK
          <5> QED
            BY <5>1, <5>2, <5>3, <2>1
        <4>2. CASE ~first
          <5>1. a \in 1..Len(mem) /\ a \in 1..(copied - 1) /\ copied' = copied /\ a # call.dst
            BY <4>2, <2>5, <2>8, <2>2, <2>3, <2>1
          <5>2. mem'[a] = mem[a]
            BY <5>1, <2>10, <2>11
          <5> QED
            BY <4>2, <5>1, <5>2, <3>3, <2>8
        <4> QED
          BY <4>1, <4>2
      <3> QED
        BY <3>1, <3>2, <3>3, <2>1, <2>5 DEF CopyOK
    <2>15. TypeOK'
      <3>1. roots \in Seq(1..Len(mem')) /\ spine \in Seq(1..Len(mem'))
        BY <2>11, <2>1, SeqMonotonic DEF TypeOK
      <3>2. copied' \in 0..Len(mem')
        BY <2>5, <2>11, <2>1
      <3> QED
        BY <2>1, <2>5, <2>11, <2>12, <3>1, <3>2 DEF TypeOK
    <2>16. StatementOK' /\ SpineOK'
      BY <2>1, <2>5 DEF StatementOK, SpineOK
    <2> QED
      BY <2>1, <2>5, <2>11, <2>13, <2>14, <2>15, <2>16
  <1> QED
    BY <1>0, <1>1

-----------------------------------------------------------------------------
(* The invariant is kept by every step, and no step changes a node that    *)
(* existed when the statement it works on was converted.                   *)
THEOREM StepInv ==
  ASSUME IInv, prog \in Programs, [Next]_vars
  PROVE  IInv' /\ \A b \in 1..base : mem'[b] = mem[b]
  <1>1. CASE Iterate \/ BudgetSpent \/ WalkLeft \/ Arrived \/ NoRedex \/ AllConverted \/ UNCHANGED vars
    <2>1. UNCHANGED <<prog, mem, roots, base, expr, i, todo, copied>>
      BY <1>1 DEF Iterate, BudgetSpent, WalkLeft, Arrived, NoRedex, AllConverted, vars
    <2> QED
      BY <1>1, <2>1, QuietStep
  <1>2. CASE Terminated
    <2>1. UNCHANGED vars
      BY <1>2 DEF Terminated
    <2> QED
      BY <1>1, <2>1
  <1>3. CASE RefStep
    BY <1>3, RefStepInv DEF RefStep
  <1>4. CASE ConvertStmt
    <2>1. \A b \in 1..base : mem'[b] = mem[b]
      <3>1. CASE Room(Len(Statement.code))
        <4> DEFINE placed == [j \in 1..Len(Statement.code) |-> Placed(Statement.code[j])]
        <4>1. mem' = mem \o placed /\ mem \in Seq(Node) /\ base \in 0..Len(mem)
          BY <1>4, <3>1 DEF ConvertStmt, IInv, TypeOK
        <4> QED
          BY <4>1
      <3>2. CASE ~Room(Len(Statement.code))
        BY <1>4, <3>2 DEF ConvertStmt, ArenaFull
      <3> QED
        BY <3>1, <3>2
    <2> QED
      BY <1>4, <2>1, ConvertInv
  <1>5. CASE KStep
    BY <1>5, KStepInv
  <1>6. CASE SStep
    BY <1>6, SStepInv
  <1>7. CASE CopyNode
    BY <1>7, CopyNodeInv
  <1>8. CASE CopyReturns
    BY <1>8, CopyReturnsInv
  <1>9. CASE FinishStmt
    BY <1>9, FinishInv
  <1> QED
    BY <1>1, <1>2, <1>3, <1>4, <1>5, <1>6, <1>7, <1>8, <1>9 DEF Next, Step

(* The file is the same throughout.                                        *)
LEMMA SameProgram == Spec => [](prog \in Programs)
  <1>1. Init => prog \in Programs
    BY DEF Init
  <1>2. prog \in Programs /\ [Next]_vars => (prog \in Programs)'
    BY DEF Next, Step, vars, ConvertStmt, AllConverted, FinishStmt, Iterate, BudgetSpent, WalkLeft,
           Arrived, KStep, SStep, RefStep, NoRedex, CopyNode, CopyReturns, Terminated, ArenaFull
  <1> QED
    BY <1>1, <1>2, PTL DEF Spec

(* The inductive invariant holds of every run of the reducer.              *)
THEOREM Invariance == Spec => []IInv
  <1>1. Init => IInv
    BY InitInv
  <1>2. IInv /\ prog \in Programs /\ [Next]_vars => IInv'
    BY StepInv
  <1> QED
    BY <1>1, <1>2, SameProgram, PTL DEF Spec

(* Every variable keeps its type: in particular no walk of the spine and   *)
(* no copy follows a NULL or dangling pointer, whatever the file.          *)
THEOREM TypeCorrect == Spec => []TypeOK
  BY Invariance, PTL DEF IInv

(* No rewrite and no copy leaves a dangling child behind, and no           *)
(* application of one statement has a child in another.                    *)
THEOREM HeapCorrect == Spec => []HeapOK
  BY Invariance, PTL DEF IInv

(* In a file whose statements only use earlier ones, a reference at the    *)
(* head always has something to copy.                                      *)
THEOREM ClosedNeverAsserts == Spec => []NoAssertWhenClosed
  <1>1. IInv => NoAssertWhenClosed
    BY DEF IInv, NoAssertWhenClosed
  <1> QED
    BY Invariance, <1>1, PTL

(* What has been reduced is never rewritten again, although the statements *)
(* after it are built from references into it.                             *)
THEOREM FinishedNeverChanges == Spec => FinishedFrozen
  <1>1. IInv /\ prog \in Programs /\ [Next]_vars => [\A a \in 1..base : mem'[a] = mem[a]]_vars
    BY StepInv
  <1> QED
    BY Invariance, SameProgram, <1>1, PTL DEF Spec, FinishedFrozen

-----------------------------------------------------------------------------
(* Heaps, the nodes that can be reached in them and the terms they stand   *)
(* for.                                                                    *)

(* A set that grows step by step within 1..N grows no more after N steps.  *)
LEMMA Climbs ==
  ASSUME NEW N \in Nat, NEW f \in [0..N -> SUBSET (1..N)],
         NEW step \in [SUBSET (1..N) -> SUBSET (1..N)],
         \A n \in 1..N : f[n] = step[f[n - 1]],
         \A A \in SUBSET (1..N) : A \subseteq step[A]
  PROVE  step[f[N]] = f[N]
  <1> DEFINE Z == {n \in 0..N : step[f[n]] = f[n] \/ Cardinality(f[n]) >= n}
  <1>1. IsFiniteSet(1..N) /\ Cardinality(1..N) = N
    BY FS_Interval
  <1>2. \A A \in SUBSET (1..N) : IsFiniteSet(A) /\ Cardinality(A) \in Nat
    BY <1>1, FS_Subset, FS_CardinalityType
  <1>3. 0 \in Z
    <2>1. Cardinality(f[0]) \in Nat
      BY <1>2
    <2> QED
      BY <2>1
  <1>4. ASSUME NEW n \in 1..N, n - 1 \in Z
        PROVE  n \in Z
    <2>1. n \in 0..N /\ n - 1 \in 0..N /\ f[n] \in SUBSET (1..N) /\ f[n - 1] \in SUBSET (1..N)
      OBVIOUS
    <2>2. f[n] = step[f[n - 1]] /\ f[n - 1] \subseteq f[n]
      BY <2>1
    <2>3. CASE f[n] = f[n - 1]
      BY <2>1, <2>2, <2>3
    <2>4. CASE f[n] # f[n - 1]
      <3>1. Cardinality(f[n - 1]) >= n - 1
        BY <1>4, <2>2, <2>4
      <3>2. /\ Cardinality(f[n - 1]) <= Cardinality(f[n])
            /\ Cardinality(f[n]) # Cardinality(f[n - 1])
        BY <1>2, <2>1, <2>2, <2>4, FS_Subset
      <3>3. Cardinality(f[n - 1]) \in Nat /\ Cardinality(f[n]) \in Nat
        BY <1>2, <2>1
      <3>4. Cardinality(f[n]) >= n
        BY <2>1, <3>1, <3>2, <3>3
      <3> QED
        BY <2>1, <3>4
    <2> QED
      BY <2>3, <2>4
  <1>5. N \in Z
    <2> HIDE DEF Z
    <2>1. \A n \in 0..N : n \in Z
      BY <1>3, <1>4, Upward
    <2> QED
      BY <2>1
  <1>6. CASE Cardinality(f[N]) >= N
    <2>1. f[N] \in SUBSET (1..N) /\ step[f[N]] \in SUBSET (1..N) /\ f[N] \subseteq step[f[N]]
      OBVIOUS
    <2>2. Cardinality(f[N]) <= N /\ Cardinality(f[N]) \in Nat
      BY <1>1, <1>2, <2>1, FS_Subset
    <2>3. f[N] = 1..N
      BY <1>1, <1>6, <2>1, <2>2, FS_Subset
    <2> QED
      BY <2>1, <2>3
  <1> QED
    BY <1>5, <1>6

(* The nodes of an arena, whose links lead to nodes of it.                 *)
IsHeap(m) == m \in Seq(Node) /\ \A a \in 1..Len(m) : Links(m, a) \subseteq 1..Len(m)

(* The nodes whose links all lead into A, added to A.                      *)
Settled(m, A) == A \cup {a \in 1..Len(m) \ A : Links(m, a) \subseteq A}

(* How Grounded is computed.                                               *)
LEMMA GroundLevels ==
  ASSUME NEW m, IsHeap(m)
  PROVE  \E g \in [0..Len(m) -> SUBSET (1..Len(m))] :
           /\ g[0] = {} /\ \A n \in 1..Len(m) : g[n] = Settled(m, g[n - 1])
           /\ Grounded(m) = g[Len(m)]
  <1> DEFINE N == Len(m)
             T == SUBSET (1..N)
             E(f, n) == IF n = 0 THEN {}
                        ELSE UNION {near \cup {a \in 1..Len(m) \ near : Links(m, a) \subseteq near} : near \in {f[n - 1]}}
             within[n \in 0..Len(m)] == E(within, n)
             step == [n \in 1..N |-> [A \in T |-> Settled(m, A)]]
  <1>1. Grounded(m) = within[N]
    BY DEF Grounded
  <1>2. N \in Nat
    BY LenProperties DEF IsHeap
  <1>3. step \in [1..N -> [T -> T]]
    BY DEF Settled
  <1>4. {} \in T
    OBVIOUS
  <1>5. PICK g : Stepped(g, N, T, {}, step)
    <2> HIDE DEF step, T
    <2> QED
      BY <1>2, <1>3, <1>4, Stepwise, Zenon
  <1>6. /\ g \in [0..N -> T] /\ g[0] = {}
        /\ \A n \in 1..N : g[n] = Settled(m, g[n - 1])
    <2>1. g \in [0..N -> T] /\ g[0] = {} /\ \A n \in 1..N : g[n] = step[n][g[n - 1]]
      BY <1>5 DEF Stepped
    <2>2. \A n \in 1..N : n - 1 \in 0..N
      BY <1>2
    <2>3. \A n \in 1..N : g[n - 1] \in T
      BY <2>1, <2>2
    <2> QED
      BY <2>1, <2>3
  <1>7. \A n \in 0..N : g[n] = E(g, n)
    <2> TAKE n \in 0..N
    <2>1. CASE n = 0
      BY <1>6, <2>1
    <2>2. CASE n # 0
      <3>1. n \in 1..N
        BY <1>2, <2>2
      <3>2. E(g, n) = Settled(m, g[n - 1])
        BY <2>2 DEF Settled
      <3> QED
        BY <1>6, <3>1, <3>2
    <2> QED
      BY <2>1, <2>2
  <1>8. g = [n \in 0..N |-> E(g, n)]
    BY <1>6, <1>7
  <1>9. within = CHOOSE f : f = [n \in 0..N |-> E(f, n)]
    OBVIOUS
  <1>10. \E f : f = [n \in 0..N |-> E(f, n)]
    BY <1>8, Zenon
  <1>11. within = [n \in 0..N |-> E(within, n)]
    BY <1>9, <1>10, Zenon
  <1>12. \A n \in 0..N : within[n] = E(within, n)
    BY <1>11
  <1> DEFINE Z == {n \in 0..N : within[n] = g[n]}
  <1>13. \A n \in 0..N : n \in Z
    <2> HIDE DEF within
    <2>1. 0 \in Z
      <3>1. 0 \in 0..N
        BY <1>2
      <3>2. within[0] = {}
        BY <1>12, <3>1
      <3> QED
        BY <1>6, <3>1, <3>2
    <2>2. ASSUME NEW n \in 1..N, n - 1 \in Z
          PROVE  n \in Z
      <3>1. n \in 0..N /\ n # 0 /\ within[n - 1] = g[n - 1]
        BY <1>2, <2>2
      <3>2. E(within, n) = E(g, n)
        BY <3>1
      <3> QED
        BY <1>7, <1>12, <3>1, <3>2
    <2> HIDE DEF Z
    <2> QED
      BY <1>2, <2>1, <2>2, Upward
  <1>14. within[N] = g[N]
    <2>1. N \in 0..N
      BY <1>2
    <2> HIDE DEF N, within
    <2> QED
      BY <1>13, <2>1
  <1> QED
    BY <1>1, <1>6, <1>14

(* The nodes the nodes of A lead to, added to A.                           *)
Entered(m, A) == A \cup UNION {Links(m, a) : a \in A}

(* How Reached is computed.                                                *)
LEMMA ReachLevels ==
  ASSUME NEW m, IsHeap(m), NEW A \in SUBSET (1..Len(m))
  PROVE  \E g \in [0..Len(m) -> SUBSET (1..Len(m))] :
           /\ g[0] = A /\ \A n \in 1..Len(m) : g[n] = Entered(m, g[n - 1])
           /\ Reached(m, A) = g[Len(m)]
  <1> DEFINE N == Len(m)
             T == SUBSET (1..N)
             E(f, n) == IF n = 0 THEN A
                        ELSE UNION {near \cup UNION {Links(m, a) : a \in near} : near \in {f[n - 1]}}
             within[n \in 0..Len(m)] == E(within, n)
             step == [n \in 1..N |-> [B \in T |-> Entered(m, B)]]
  <1>1. Reached(m, A) = within[N]
    BY DEF Reached
  <1>2. N \in Nat
    BY LenProperties DEF IsHeap
  <1>3. step \in [1..N -> [T -> T]]
    BY DEF Entered, IsHeap
  <1>4. A \in T
    OBVIOUS
  <1>5. PICK g : Stepped(g, N, T, A, step)
    <2> HIDE DEF step, T
    <2> QED
      BY <1>2, <1>3, <1>4, Stepwise, Zenon
  <1>6. /\ g \in [0..N -> T] /\ g[0] = A
        /\ \A n \in 1..N : g[n] = Entered(m, g[n - 1])
    <2>1. g \in [0..N -> T] /\ g[0] = A /\ \A n \in 1..N : g[n] = step[n][g[n - 1]]
      BY <1>5 DEF Stepped
    <2>2. \A n \in 1..N : n - 1 \in 0..N
      BY <1>2
    <2>3. \A n \in 1..N : g[n - 1] \in T
      BY <2>1, <2>2
    <2> QED
      BY <2>1, <2>3
  <1>7. \A n \in 0..N : g[n] = E(g, n)
    <2> TAKE n \in 0..N
    <2>1. CASE n = 0
      BY <1>6, <2>1
    <2>2. CASE n # 0
      <3>1. n \in 1..N
        BY <1>2, <2>2
      <3>2. E(g, n) = Entered(m, g[n - 1])
        BY <2>2 DEF Entered
      <3> QED
        BY <1>6, <3>1, <3>2
    <2> QED
      BY <2>1, <2>2
  <1>8. g = [n \in 0..N |-> E(g, n)]
    BY <1>6, <1>7
  <1>9. within = CHOOSE f : f = [n \in 0..N |-> E(f, n)]
    OBVIOUS
  <1>10. \E f : f = [n \in 0..N |-> E(f, n)]
    BY <1>8, Zenon
  <1>11. within = [n \in 0..N |-> E(within, n)]
    BY <1>9, <1>10, Zenon
  <1>12. \A n \in 0..N : within[n] = E(within, n)
    BY <1>11
  <1> DEFINE Z == {n \in 0..N : within[n] = g[n]}
  <1>13. \A n \in 0..N : n \in Z
    <2> HIDE DEF within
    <2>1. 0 \in Z
      <3>1. 0 \in 0..N
        BY <1>2
      <3>2. within[0] = A
        BY <1>12, <3>1
      <3> QED
        BY <1>6, <3>1, <3>2
    <2>2. ASSUME NEW n \in 1..N, n - 1 \in Z
          PROVE  n \in Z
      <3>1. n \in 0..N /\ n # 0 /\ within[n - 1] = g[n - 1]
        BY <1>2, <2>2
      <3>2. E(within, n) = E(g, n)
        BY <3>1
      <3> QED
        BY <1>7, <1>12, <3>1, <3>2
    <2> HIDE DEF Z
    <2> QED
      BY <1>2, <2>1, <2>2, Upward
  <1>14. within[N] = g[N]
    <2>1. N \in 0..N
      BY <1>2
    <2> HIDE DEF N, within
    <2> QED
      BY <1>13, <2>1
  <1> QED
    BY <1>1, <1>6, <1>14

(* What Reached holds: the nodes it starts from, and with a node those it  *)
(* leads to.                                                               *)
LEMMA ReachedFacts ==
  ASSUME NEW m, IsHeap(m), NEW A \in SUBSET (1..Len(m))
  PROVE  /\ Reached(m, A) \subseteq 1..Len(m) /\ A \subseteq Reached(m, A)
         /\ \A a \in Reached(m, A) : Links(m, a) \subseteq Reached(m, A)
  <1> DEFINE N == Len(m)
             T == SUBSET (1..N)
             step == [B \in T |-> Entered(m, B)]
  <1>1. N \in Nat
    BY LenProperties DEF IsHeap
  <1>2. PICK g \in [0..N -> T] : /\ g[0] = A /\ \A n \in 1..N : g[n] = Entered(m, g[n - 1])
                                 /\ Reached(m, A) = g[N]
    BY ReachLevels
  <1>3. step \in [T -> T] /\ (\A B \in T : step[B] = Entered(m, B) /\ B \subseteq step[B])
    BY DEF Entered, IsHeap
  <1>4. \A n \in 1..N : g[n] = step[g[n - 1]]
    <2>1. \A n \in 1..N : n - 1 \in 0..N
      BY <1>1
    <2> QED
      BY <1>2, <1>3, <2>1
  <1>5. step[g[N]] = g[N] /\ g[N] \in T
    <2>1. N \in 0..N
      BY <1>1
    <2> HIDE DEF step
    <2> QED
      BY <1>1, <1>2, <1>3, <1>4, <2>1, Climbs
  <1>6. A \subseteq g[N]
    <2> DEFINE Z == {n \in 0..N : A \subseteq g[n]}
    <2>1. 0 \in Z
      BY <1>1, <1>2
    <2>2. ASSUME NEW n \in 1..N, n - 1 \in Z
          PROVE  n \in Z
      BY <1>1, <1>2, <2>2 DEF Entered
    <2>3. \A n \in 0..N : n \in Z
      <3> HIDE DEF Z
      <3> QED
        BY <1>1, <2>1, <2>2, Upward
    <2> QED
      BY <1>1, <2>3
  <1>7. Entered(m, g[N]) = g[N]
    BY <1>3, <1>5
  <1> QED
    BY <1>2, <1>5, <1>6, <1>7 DEF Entered

(* What Grounded holds: a node exactly when all it leads to is in it, and  *)
(* nothing that such a closure does not force.                             *)
LEMMA GroundedFacts ==
  ASSUME NEW m, IsHeap(m)
  PROVE  /\ Grounded(m) \subseteq 1..Len(m)
         /\ \A a \in 1..Len(m) : a \in Grounded(m) <=> Links(m, a) \subseteq Grounded(m)
  <1> DEFINE N == Len(m)
             T == SUBSET (1..N)
             step == [B \in T |-> Settled(m, B)]
  <1>1. N \in Nat
    BY LenProperties DEF IsHeap
  <1>2. PICK g \in [0..N -> T] : /\ g[0] = {} /\ \A n \in 1..N : g[n] = Settled(m, g[n - 1])
                                 /\ Grounded(m) = g[N]
    BY GroundLevels
  <1>3. step \in [T -> T] /\ (\A B \in T : step[B] = Settled(m, B) /\ B \subseteq step[B])
    BY DEF Settled
  <1>4. \A n \in 1..N : g[n] = step[g[n - 1]]
    <2>1. \A n \in 1..N : n - 1 \in 0..N
      BY <1>1
    <2> QED
      BY <1>2, <1>3, <2>1
  <1>5. step[g[N]] = g[N] /\ g[N] \in T
    <2>1. N \in 0..N
      BY <1>1
    <2> HIDE DEF step
    <2> QED
      BY <1>1, <1>2, <1>3, <1>4, <2>1, Climbs
  <1>6. \A a \in g[N] : Links(m, a) \subseteq g[N]
    <2> DEFINE Z == {n \in 0..N : \A a \in g[n] : Links(m, a) \subseteq g[n]}
    <2>1. 0 \in Z
      BY <1>1, <1>2
    <2>2. ASSUME NEW n \in 1..N, n - 1 \in Z
          PROVE  n \in Z
      BY <1>1, <1>2, <2>2 DEF Settled
    <2>3. \A n \in 0..N : n \in Z
      <3> HIDE DEF Z
      <3> QED
        BY <1>1, <2>1, <2>2, Upward
    <2> QED
      BY <1>1, <2>3
  <1>7. Settled(m, g[N]) = g[N]
    BY <1>3, <1>5
  <1> QED
    BY <1>2, <1>5, <1>6, <1>7 DEF Settled

(* Grounded is the least set that has every node whose links all lead      *)
(* into it.                                                                *)
LEMMA GroundedLeast ==
  ASSUME NEW m, IsHeap(m), NEW A,
         \A a \in Grounded(m) : Links(m, a) \subseteq A => a \in A
  PROVE  Grounded(m) \subseteq A
  <1> DEFINE N == Len(m)
  <1>1. N \in Nat
    BY LenProperties DEF IsHeap
  <1>2. PICK g \in [0..N -> SUBSET (1..N)] :
          /\ g[0] = {} /\ \A n \in 1..N : g[n] = Settled(m, g[n - 1])
          /\ Grounded(m) = g[N]
    BY GroundLevels
  <1> DEFINE Z == {n \in 0..N : g[n] \subseteq g[N] => g[n] \subseteq A}
  <1>3. 0 \in Z
    BY <1>1, <1>2
  <1>4. ASSUME NEW n \in 1..N, n - 1 \in Z
        PROVE  n \in Z
    BY <1>1, <1>2, <1>4 DEF Settled
  <1>5. \A n \in 0..N : n \in Z
    <2> HIDE DEF Z
    <2> QED
      BY <1>1, <1>3, <1>4, Upward
  <1> QED
    BY <1>1, <1>2, <1>5

(* The same, looking at three links at once.                               *)
LEMMA GroundedDeep ==
  ASSUME NEW m, IsHeap(m), NEW A,
         \A a \in Grounded(m) :
           /\ Links(m, a) \subseteq A
           /\ \A b \in Links(m, a) : /\ Links(m, b) \subseteq A
                                     /\ \A c \in Links(m, b) : Links(m, c) \subseteq A
           => a \in A
  PROVE  Grounded(m) \subseteq A
  <1> DEFINE B == {a \in Grounded(m) : /\ a \in A /\ Links(m, a) \subseteq A
                                       /\ \A b \in Links(m, a) : Links(m, b) \subseteq A}
  <1>1. \A a \in Grounded(m) : Links(m, a) \subseteq B => a \in B
    OBVIOUS
  <1>2. Grounded(m) \subseteq B
    <2> HIDE DEF B
    <2> QED
      BY <1>1, GroundedLeast
  <1> QED
    BY <1>2

(* The term of a node, from those of the nodes its fields hold.            *)
Combined(x, left, right) ==
  CASE x.type = "APP" -> Apply(left, right)
    [] x.type = "REF" -> left
    [] x.type = "LD"  -> Var(x.id)
    [] x.type = "S"   -> SComb
    [] x.type = "K"   -> KComb

(* Every grounded node has a term, the one its links make.                 *)
LEMMA TermFacts ==
  ASSUME NEW m, IsHeap(m)
  PROVE  /\ TermOf(m, NULL) = Unknown
         /\ \A a \in Grounded(m) :
              TermOf(m, a) = Combined(m[a], TermOf(m, m[a].left), TermOf(m, m[a].right))
         /\ \A a \in (1..Len(m)) \ Grounded(m) : TermOf(m, a) = Endless
  <1> DEFINE N == Len(m)
             ground == Grounded(m)
             at(f, c) == IF c = NULL THEN Unknown ELSE f[c]
             E(f, b) ==
               LET x     == m[b]
                   left  == IF x.left = NULL THEN Unknown ELSE f[x.left]
                   right == IF x.right = NULL THEN Unknown ELSE f[x.right]
               IN  CASE x.type = "APP" -> Apply(left, right)
                     [] x.type = "REF" -> left
                     [] x.type = "LD"  -> Var(x.id)
                     [] x.type = "S"   -> SComb
                     [] x.type = "K"   -> KComb
             term[b \in ground] == E(term, b)
  <1>1. \A a : TermOf(m, a) = IF a = NULL THEN Unknown ELSE IF a \in ground THEN term[a] ELSE Endless
    BY DEF TermOf
  <1>2. N \in Nat /\ ground \subseteq 1..N
    BY LenProperties, GroundedFacts DEF IsHeap
  <1>3. PICK g \in [0..N -> SUBSET (1..N)] :
          /\ g[0] = {} /\ \A n \in 1..N : g[n] = Settled(m, g[n - 1])
          /\ ground = g[N]
    BY GroundLevels
  <1>4. \A b \in 1..N : m[b].type \in Types
    <2>1. \A b \in 1..N : m[b] \in Node
      BY ElementOfSeq DEF IsHeap
    <2> QED
      BY <2>1 DEF Node
  <1>5. ASSUME NEW b \in 1..N, NEW f, NEW h, \A c \in Links(m, b) : f[c] = h[c]
        PROVE  E(f, b) = E(h, b)
    <2>1. CASE m[b].type = "APP"
      <3>1. at(f, m[b].left) = at(h, m[b].left) /\ at(f, m[b].right) = at(h, m[b].right)
        BY <1>5, <2>1 DEF Links
      <3> QED
        BY <2>1, <3>1
    <2>2. CASE m[b].type = "REF"
      <3>1. at(f, m[b].left) = at(h, m[b].left)
        BY <1>5, <2>2 DEF Links
      <3> QED
        BY <2>2, <3>1
    <2>3. CASE m[b].type \notin {"APP", "REF"}
      BY <1>4, <2>3 DEF Types
    <2> QED
      BY <2>1, <2>2, <2>3
  <1> DEFINE Defined(n) == \E f : f = [b \in g[n] |-> E(f, b)]
             Z == {n \in 0..N : (\A b \in g[n] : Links(m, b) \subseteq g[n]) /\ Defined(n)}
  <1> HIDE DEF E
  <1>6. 0 \in Z
    <2> DEFINE f == [b \in {} |-> 0]
    <2>1. f = [b \in g[0] |-> E(f, b)]
      BY <1>3
    <2>2. Defined(0)
      BY <2>1
    <2>3. 0 \in 0..N /\ \A b \in g[0] : Links(m, b) \subseteq g[0]
      BY <1>2, <1>3
    <2> HIDE DEF Defined
    <2> QED
      BY <2>2, <2>3
  <1>7. ASSUME NEW n \in 1..N, n - 1 \in Z
        PROVE  n \in Z
    <2>1. n \in 0..N /\ n - 1 \in 0..N /\ g[n] = Settled(m, g[n - 1]) /\ g[n - 1] \subseteq g[n] /\ g[n] \subseteq 1..N
      BY <1>2, <1>3 DEF Settled
    <2>2. \A b \in g[n] : Links(m, b) \subseteq g[n - 1]
      BY <1>7, <2>1 DEF Settled
    <2>3. PICK f : f = [b \in g[n - 1] |-> E(f, b)]
      BY <1>7
    <2> DEFINE h == [b \in g[n] |-> E(f, b)]
    <2>4. \A c \in g[n - 1] : f[c] = h[c]
      <3>1. \A c \in g[n - 1] : f[c] = E(f, c)
        BY <2>3
      <3> QED
        BY <2>1, <3>1
    <2>5. \A b \in g[n] : E(f, b) = E(h, b)
      <3> HIDE DEF h
      <3> QED
        BY <1>5, <2>1, <2>2, <2>4
    <2>6. h = [b \in g[n] |-> E(h, b)]
      BY <2>5
    <2> HIDE DEF h
    <2>7. Defined(n)
      BY <2>6
    <2> QED
      BY <2>1, <2>2, <2>7
  <1>8. Defined(N)
    <2>1. \A n \in 0..N : n \in Z
      <3> HIDE DEF Z
      <3> QED
        BY <1>2, <1>6, <1>7, Upward
    <2> QED
      BY <1>2, <2>1
  <1>9. term = [b \in ground |-> E(term, b)]
    <2>1. \E f : f = [b \in ground |-> E(f, b)]
      BY <1>3, <1>8
    <2>2. term = CHOOSE f : f = [b \in ground |-> E(f, b)]
      BY DEF E
    <2> QED
      BY <2>1, <2>2, Zenon
  <1>10. \A b \in ground : term[b] = E(term, b)
    BY <1>9, Zenon
  <1> HIDE DEF term
  <1>11. ASSUME NEW a \in ground
         PROVE  TermOf(m, a) = Combined(m[a], TermOf(m, m[a].left), TermOf(m, m[a].right))
    <2>1. a # NULL /\ a \in 1..N /\ Links(m, a) \subseteq ground
      BY <1>2, GroundedFacts
    <2>2. TermOf(m, a) = E(term, a)
      BY <1>1, <1>10, <2>1
    <2>3. CASE m[a].type = "APP"
      <3>1. TermOf(m, m[a].left) = at(term, m[a].left) /\ TermOf(m, m[a].right) = at(term, m[a].right)
        BY <1>1, <2>1, <2>3 DEF Links
      <3> QED
        BY <2>2, <2>3, <3>1 DEF E, Combined
    <2>4. CASE m[a].type = "REF"
      <3>1. TermOf(m, m[a].left) = at(term, m[a].left)
        BY <1>1, <2>1, <2>4 DEF Links
      <3> QED
        BY <2>2, <2>4, <3>1 DEF E, Combined
    <2>5. CASE m[a].type \notin {"APP", "REF"}
      BY <1>4, <2>1, <2>2, <2>5 DEF E, Combined, Types
    <2> QED
      BY <2>3, <2>4, <2>5
  <1> QED
    BY <1>1, <1>11

-----------------------------------------------------------------------------
(* Reduces is a reduction of the SK calculus.                              *)
IsReduction == \A T : Calculus!ReductionOn(T)

(* That y is what x reduces to, should Reduces be such a reduction.        *)
Follows(x, y) == IsReduction => Reduces(x, y)

(* The rules of the calculus.                                              *)
LEMMA Rules ==
  /\ \A x : Follows(x, x)
  /\ \A x, x2, y, y2 : Follows(x, x2) /\ Follows(y, y2) => Follows(Apply(x, y), Apply(x2, y2))
  /\ \A x, x2, y : Follows(x, x2) => Follows(Apply(Apply(KComb, x), y), x2)
  /\ \A x, x2, y, y2, z, z2, z3 :
       Follows(x, x2) /\ Follows(y, y2) /\ Follows(z, z2) /\ Follows(z, z3)
         => Follows(Apply(Apply(Apply(SComb, x), y), z), Apply(Apply(x2, z2), Apply(y2, z3)))
  <1> SUFFICES ASSUME IsReduction
               PROVE  /\ \A x : Reduces(x, x)
                      /\ \A x, x2, y, y2 :
                           Reduces(x, x2) /\ Reduces(y, y2) => Reduces(Apply(x, y), Apply(x2, y2))
                      /\ \A x, x2, y : Reduces(x, x2) => Reduces(Apply(Apply(KComb, x), y), x2)
                      /\ \A x, x2, y, y2, z, z2, z3 :
                           Reduces(x, x2) /\ Reduces(y, y2) /\ Reduces(z, z2) /\ Reduces(z, z3)
                             => Reduces(Apply(Apply(Apply(SComb, x), y), z), Apply(Apply(x2, z2), Apply(y2, z3)))
    BY DEF Follows
  <1>1. ASSUME NEW x
        PROVE  Reduces(x, x)
    <2>1. Calculus!ReductionOn({x})
      BY DEF IsReduction
    <2> QED
      BY <2>1 DEF Calculus!ReductionOn
  <1>2. ASSUME NEW x, NEW x2, NEW y, NEW y2, Reduces(x, x2), Reduces(y, y2)
        PROVE  Reduces(Apply(x, y), Apply(x2, y2))
    <2>1. Calculus!ReductionOn({x, x2, y, y2})
      BY DEF IsReduction
    <2> QED
      BY <1>2, <2>1 DEF Calculus!ReductionOn
  <1>3. ASSUME NEW x, NEW x2, NEW y, Reduces(x, x2)
        PROVE  Reduces(Apply(Apply(KComb, x), y), x2)
    <2>1. Calculus!ReductionOn({x, x2, y})
      BY DEF IsReduction
    <2> QED
      BY <1>3, <2>1 DEF Calculus!ReductionOn
  <1>4. ASSUME NEW x, NEW x2, NEW y, NEW y2, NEW z, NEW z2, NEW z3,
               Reduces(x, x2), Reduces(y, y2), Reduces(z, z2), Reduces(z, z3)
        PROVE  Reduces(Apply(Apply(Apply(SComb, x), y), z), Apply(Apply(x2, z2), Apply(y2, z3)))
    <2> DEFINE T == {x, x2, y, y2, z, z2, z3}
    <2>1. x \in T /\ x2 \in T /\ y \in T /\ y2 \in T /\ z \in T /\ z2 \in T /\ z3 \in T
      OBVIOUS
    <2> HIDE DEF T
    <2>2. Calculus!ReductionOn(T)
      BY DEF IsReduction
    <2> QED
      BY <1>4, <2>1, <2>2 DEF Calculus!ReductionOn
  <1> QED
    BY <1>1, <1>2, <1>3, <1>4

(* Two nodes with the same links, and two that stand for the same if what  *)
(* their links lead to does.                                               *)
SameLinks(x, y) ==
  /\ x.type = y.type
  /\ x.type = "APP" => x.left = y.left /\ x.right = y.right
  /\ x.type = "REF" => x.left = y.left

SameNode(x, y) == SameLinks(x, y) /\ (x.type = "LD" => x.id = y.id)

(* A part of the graph that no link leaves and that stays as it is keeps   *)
(* what it stands for.                                                     *)
LEMMA PartGrounded ==
  ASSUME NEW m, IsHeap(m), NEW m2, IsHeap(m2), NEW C, C \subseteq 1..Len(m), C \subseteq 1..Len(m2),
         \A a \in C : Links(m, a) \subseteq C /\ SameLinks(m[a], m2[a])
  PROVE  \A a \in C \cap Grounded(m) : a \in Grounded(m2)
  <1> DEFINE A == {a \in Grounded(m) : a \in C => a \in Grounded(m2)}
  <1>1. \A a \in C : Links(m2, a) = Links(m, a)
    BY DEF Links, SameLinks
  <1>2. \A a \in Grounded(m) : Links(m, a) \subseteq A => a \in A
    BY <1>1, GroundedFacts
  <1>3. Grounded(m) \subseteq A
    <2> HIDE DEF A
    <2> QED
      BY <1>2, GroundedLeast
  <1> QED
    BY <1>3

(* Of two heaps that agree on a part no link leaves, the same nodes of the *)
(* part are grounded, and they stand for the same terms.                   *)
LEMMA PartKept ==
  ASSUME NEW m, IsHeap(m), NEW m2, IsHeap(m2), NEW C, C \subseteq 1..Len(m), C \subseteq 1..Len(m2),
         \A a \in C : Links(m, a) \subseteq C /\ SameNode(m[a], m2[a])
  PROVE  \A a \in C : /\ a \in Grounded(m) => a \in Grounded(m2) /\ TermOf(m2, a) = TermOf(m, a)
                      /\ a \in Grounded(m2) => a \in Grounded(m)
  <1>1. /\ \A a \in C : Links(m2, a) = Links(m, a)
        /\ \A a \in C : SameLinks(m[a], m2[a]) /\ SameLinks(m2[a], m[a])
    BY DEF Links, SameLinks, SameNode
  <1>2. \A a \in C : a \in Grounded(m) <=> a \in Grounded(m2)
    <2>1. \A a \in C \cap Grounded(m) : a \in Grounded(m2)
      BY <1>1, PartGrounded
    <2>2. \A a \in C \cap Grounded(m2) : a \in Grounded(m)
      BY <1>1, PartGrounded
    <2> QED
      BY <2>1, <2>2
  <1> DEFINE A == {a \in Grounded(m) : a \in C => TermOf(m2, a) = TermOf(m, a)}
  <1>3. ASSUME NEW a \in Grounded(m), Links(m, a) \subseteq A
        PROVE  a \in A
    <2>1. SUFFICES ASSUME a \in C
                   PROVE  TermOf(m2, a) = TermOf(m, a)
      OBVIOUS
    <2>2. /\ a \in Grounded(m2) /\ SameNode(m[a], m2[a]) /\ m[a].type \in Types
          /\ \A b \in Links(m, a) : TermOf(m2, b) = TermOf(m, b)
      <3>1. m[a] \in Node
        BY <2>1, ElementOfSeq DEF IsHeap
      <3> QED
        BY <1>2, <1>3, <2>1, <3>1 DEF Node
    <2>3. /\ TermOf(m, a) = Combined(m[a], TermOf(m, m[a].left), TermOf(m, m[a].right))
          /\ TermOf(m2, a) = Combined(m2[a], TermOf(m2, m2[a].left), TermOf(m2, m2[a].right))
          /\ TermOf(m, NULL) = TermOf(m2, NULL)
      BY <2>2, TermFacts
    <2>4. CASE m[a].type = "APP"
      <3>1. TermOf(m2, m2[a].left) = TermOf(m, m[a].left) /\ TermOf(m2, m2[a].right) = TermOf(m, m[a].right)
        BY <2>2, <2>3, <2>4 DEF Links, SameNode, SameLinks
      <3> QED
        BY <2>2, <2>3, <2>4, <3>1 DEF Combined, SameNode, SameLinks
    <2>5. CASE m[a].type = "REF"
      <3>1. TermOf(m2, m2[a].left) = TermOf(m, m[a].left)
        BY <2>2, <2>3, <2>5 DEF Links, SameNode, SameLinks
      <3> QED
        BY <2>2, <2>3, <2>5, <3>1 DEF Combined, SameNode, SameLinks
    <2>6. CASE m[a].type \notin {"APP", "REF"}
      BY <2>2, <2>3, <2>6 DEF Combined, SameNode, SameLinks, Types
    <2> QED
      BY <2>4, <2>5, <2>6
  <1>4. Grounded(m) \subseteq A
    <2> HIDE DEF A
    <2> QED
      BY <1>3, GroundedLeast
  <1> QED
    BY <1>2, <1>4

(* What a grounded node stands for, by its type.                           *)
LEMMA NodeTerm ==
  ASSUME NEW m, IsHeap(m), NEW a \in Grounded(m)
  PROVE  /\ a \in 1..Len(m) /\ m[a].type \in Types /\ TermOf(m, NULL) = Unknown
         /\ m[a].type = "APP" =>
              /\ TermOf(m, a) = Apply(TermOf(m, m[a].left), TermOf(m, m[a].right))
              /\ m[a].left # NULL => m[a].left \in Links(m, a) /\ m[a].left \in Grounded(m)
              /\ m[a].right # NULL => m[a].right \in Links(m, a) /\ m[a].right \in Grounded(m)
         /\ m[a].type = "REF" =>
              /\ TermOf(m, a) = TermOf(m, m[a].left)
              /\ m[a].left # NULL => m[a].left \in Links(m, a) /\ m[a].left \in Grounded(m)
         /\ m[a].type = "LD" => TermOf(m, a) = Var(m[a].id)
         /\ m[a].type = "S" => TermOf(m, a) = SComb
         /\ m[a].type = "K" => TermOf(m, a) = KComb
  <1>1. a \in 1..Len(m) /\ Links(m, a) \subseteq Grounded(m)
    BY GroundedFacts
  <1>2. m[a] \in Node
    BY <1>1, ElementOfSeq DEF IsHeap
  <1>3. m[a].type \in Types
    BY <1>2 DEF Node
  <1>4. TermOf(m, a) = Combined(m[a], TermOf(m, m[a].left), TermOf(m, m[a].right)) /\ TermOf(m, NULL) = Unknown
    BY TermFacts
  <1>5. CASE m[a].type = "APP"
    BY <1>1, <1>3, <1>4, <1>5 DEF Combined, Links
  <1>6. CASE m[a].type = "REF"
    BY <1>1, <1>3, <1>4, <1>6 DEF Combined, Links
  <1>7. CASE m[a].type \notin {"APP", "REF"}
    BY <1>1, <1>3, <1>4, <1>7 DEF Combined, Types
  <1> QED
    BY <1>5, <1>6, <1>7

(* A node that stays as it is stands for a reduct of what it stood for if  *)
(* all it leads to does.                                                   *)
LEMMA Congruence ==
  ASSUME NEW m, IsHeap(m), NEW m2, IsHeap(m2),
         NEW a \in Grounded(m), a \in 1..Len(m2), SameNode(m[a], m2[a]),
         \A b \in Links(m, a) : b \in Grounded(m2) /\ Follows(TermOf(m, b), TermOf(m2, b))
  PROVE  a \in Grounded(m2) /\ Follows(TermOf(m, a), TermOf(m2, a))
  <1>1. a \in Grounded(m2)
    <2>1. Links(m2, a) = Links(m, a)
      BY DEF Links, SameLinks, SameNode
    <2> QED
      BY <2>1, GroundedFacts
  <1>2. Follows(TermOf(m, NULL), TermOf(m2, NULL))
    BY TermFacts, Rules
  <1>3. CASE m[a].type = "APP"
    <2>1. /\ m2[a].type = "APP" /\ m2[a].left = m[a].left /\ m2[a].right = m[a].right
      BY <1>3 DEF SameLinks, SameNode
    <2>2. /\ TermOf(m, a) = Apply(TermOf(m, m[a].left), TermOf(m, m[a].right))
          /\ TermOf(m2, a) = Apply(TermOf(m2, m[a].left), TermOf(m2, m[a].right))
      BY <1>1, <1>3, <2>1, NodeTerm
    <2>3. /\ Follows(TermOf(m, m[a].left), TermOf(m2, m[a].left))
          /\ Follows(TermOf(m, m[a].right), TermOf(m2, m[a].right))
      BY <1>2, <1>3, NodeTerm
    <2> QED
      BY <1>1, <2>2, <2>3, Rules
  <1>4. CASE m[a].type = "REF"
    <2>1. m2[a].type = "REF" /\ m2[a].left = m[a].left
      BY <1>4 DEF SameLinks, SameNode
    <2>2. TermOf(m, a) = TermOf(m, m[a].left) /\ TermOf(m2, a) = TermOf(m2, m[a].left)
      BY <1>1, <1>4, <2>1, NodeTerm
    <2>3. Follows(TermOf(m, m[a].left), TermOf(m2, m[a].left))
      BY <1>2, <1>4, NodeTerm
    <2> QED
      BY <1>1, <2>2, <2>3
  <1>5. CASE m[a].type \notin {"APP", "REF"}
    <2>1. TermOf(m, a) = TermOf(m2, a)
      <3>1. m2[a].type = m[a].type /\ (m[a].type = "LD" => m2[a].id = m[a].id) /\ m[a].type \in {"S", "K", "LD"}
        BY <1>5, NodeTerm DEF SameLinks, SameNode, Types
      <3> QED
        BY <1>1, <3>1, NodeTerm
    <2> QED
      BY <1>1, <2>1, Rules
  <1> QED
    BY <1>3, <1>4, <1>5

(* K x y, the node n, is replaced by x in the left field of w.             *)
KRewrites(m, m2, w, n, p, k, x) ==
  /\ Len(m2) = Len(m) /\ {w, n, p, k, x} \subseteq 1..Len(m)
  /\ m[w].type = "APP" /\ m[w].left = n /\ m[n].type = "APP" /\ m[n].left = p
  /\ m[p].type = "APP" /\ m[p].left = k /\ m[k].type = "K" /\ m[p].right = x
  /\ \A a \in 1..Len(m) : a # w => m2[a] = m[a]
  /\ m2[w].type = "APP" /\ m2[w].left = x /\ m2[w].right = m[w].right

(* The nodes then stand for what their terms reduce to.                    *)
LEMMA KContracts ==
  ASSUME NEW m, IsHeap(m), NEW m2, IsHeap(m2), NEW w, NEW n, NEW p, NEW k, NEW x,
         KRewrites(m, m2, w, n, p, k, x)
  PROVE  \A a \in Grounded(m) : a \in Grounded(m2) /\ Follows(TermOf(m, a), TermOf(m2, a))
  <1> USE DEF KRewrites
  <1> DEFINE Good(a) == a \in Grounded(m2) /\ Follows(TermOf(m, a), TermOf(m2, a))
             A == {a \in Grounded(m) : Good(a)}
  <1>1. ASSUME NEW a \in Grounded(m), Links(m, a) \subseteq A,
               \A b \in Links(m, a) : /\ Links(m, b) \subseteq A
                                      /\ \A c \in Links(m, b) : Links(m, c) \subseteq A
        PROVE  a \in A
    <2>1. CASE a # w
      <3>1. a \in 1..Len(m2) /\ SameNode(m[a], m2[a])
        BY <2>1, NodeTerm DEF SameNode, SameLinks
      <3> QED
        BY <1>1, <3>1, Congruence
    <2>2. CASE a = w
      <3>1. n \in Links(m, w) /\ p \in Links(m, n) /\ x \in Links(m, p) /\ k \in Links(m, p)
        BY DEF Links
      <3>2. n \in Grounded(m) /\ p \in Grounded(m) /\ k \in Grounded(m) /\ w \in Grounded(m)
        BY <1>1, <2>2, <3>1, GroundedFacts
      <3>3. Good(x)
        BY <1>1, <2>2, <3>1
      <3>4. m[w].right # NULL => m[w].right \in Links(m, w) /\ Good(m[w].right)
        BY <1>1, <2>2 DEF Links
      <3> HIDE DEF Good
      <3>5. Follows(TermOf(m, m[w].right), TermOf(m2, m[w].right))
        <4>1. CASE m[w].right = NULL
          BY <4>1, TermFacts, Rules
        <4> QED
          BY <3>4, <4>1 DEF Good
      <3>6. TermOf(m, w) = Apply(Apply(Apply(KComb, TermOf(m, x)), TermOf(m, m[n].right)), TermOf(m, m[w].right))
        BY <3>2, NodeTerm
      <3>7. w \in Grounded(m2)
        <4>1. Links(m2, w) \subseteq Grounded(m2)
          BY <3>3, <3>4 DEF Links, Good
        <4> QED
          BY <4>1, GroundedFacts
      <3>8. TermOf(m2, w) = Apply(TermOf(m2, x), TermOf(m2, m[w].right))
        BY <3>7, NodeTerm
      <3>9. Follows(Apply(Apply(KComb, TermOf(m, x)), TermOf(m, m[n].right)), TermOf(m2, x))
        BY <3>3, Rules DEF Good
      <3>10. Follows(TermOf(m, w), TermOf(m2, w))
        BY <3>5, <3>6, <3>8, <3>9, Rules
      <3> QED
        BY <2>2, <3>2, <3>7, <3>10 DEF Good
    <2> QED
      BY <2>1, <2>2
  <1>2. Grounded(m) \subseteq A
    <2> HIDE DEF A
    <2> QED
      BY <1>1, GroundedDeep
  <1> QED
    BY <1>2

(* S x y z, held by p, q and r, is rewritten in place, where p and q are   *)
(* held by nothing else in the part L of the graph.                        *)
SRewrites(m, m2, L, p, q, r, k, x, y, z) ==
  /\ Len(m2) = Len(m) + 1 /\ {x, y, z} \subseteq 1..Len(m)
  /\ L \subseteq 1..Len(m) /\ {p, q, r, k} \subseteq L /\ \A a \in L : Links(m, a) \subseteq L
  /\ m[p].type = "APP" /\ m[p].left = k /\ m[p].right = x /\ m[k].type = "S"
  /\ m[q].type = "APP" /\ m[q].left = p /\ m[q].right = y
  /\ m[r].type = "APP" /\ m[r].left = q /\ m[r].right = z
  /\ \A a \in L : /\ m[a].right \notin {p, q}
                  /\ m[a].left = p => a = q
                  /\ m[a].left = q => a = r
  /\ \A a \in 1..Len(m) : a \notin {p, q, r} => m2[a] = m[a]
  /\ m2[p].type = "APP" /\ m2[p].left = x /\ m2[p].right = z
  /\ m2[q].type = "APP" /\ m2[q].left = y /\ m2[q].right = Len(m) + 1
  /\ m2[r].type = "APP" /\ m2[r].left = p /\ m2[r].right = q
  /\ m2[Len(m) + 1].type = "REF" /\ m2[Len(m) + 1].left = z

(* All nodes of the part but p and q then stand for what their terms       *)
(* reduce to.                                                              *)
LEMMA SContracts ==
  ASSUME NEW m, IsHeap(m), NEW m2, IsHeap(m2), NEW L,
         NEW p, NEW q, NEW r, NEW k, NEW x, NEW y, NEW z,
         SRewrites(m, m2, L, p, q, r, k, x, y, z)
  PROVE  \A a \in L \cap Grounded(m) :
           a \notin {p, q} => a \in Grounded(m2) /\ Follows(TermOf(m, a), TermOf(m2, a))
  <1> USE DEF SRewrites
  <1> DEFINE N == Len(m)
             Good(a) == a \in Grounded(m2) /\ Follows(TermOf(m, a), TermOf(m2, a))
             A == {a \in Grounded(m) : a \in L /\ a \notin {p, q} => Good(a)}
  <1>1. N \in Nat /\ N + 1 \in 1..Len(m2) /\ \A a \in 1..N : a \in 1..Len(m2)
    BY LenProperties DEF IsHeap
  <1>2. p # q /\ p # r /\ q # r /\ p # k /\ q # k /\ r # k
    OBVIOUS
  <1>3. /\ k \in Links(m, p) /\ x \in Links(m, p) /\ p \in Links(m, q) /\ y \in Links(m, q)
        /\ q \in Links(m, r) /\ z \in Links(m, r)
    BY DEF Links
  <1>4. /\ x \in L /\ y \in L /\ z \in L
        /\ x \notin {p, q} /\ y \notin {p, q} /\ z \notin {p, q}
    BY <1>3
  <1>5. ASSUME NEW a \in Grounded(m), Links(m, a) \subseteq A,
               \A b \in Links(m, a) : /\ Links(m, b) \subseteq A
                                      /\ \A c \in Links(m, b) : Links(m, c) \subseteq A
        PROVE  a \in A
    <2>1. SUFFICES ASSUME a \in L, a \notin {p, q}
                   PROVE  Good(a)
      BY <1>5
    <2>2. CASE a # r
      <3>1. a \in 1..Len(m2) /\ SameNode(m[a], m2[a])
        BY <1>1, <2>1, <2>2 DEF SameNode, SameLinks
      <3>2. \A b \in Links(m, a) : b \in L /\ b \notin {p, q}
        <4> TAKE b \in Links(m, a)
        <4>1. b = m[a].left \/ b = m[a].right
          BY DEF Links
        <4> QED
          BY <2>1, <2>2, <4>1
      <3>3. \A b \in Links(m, a) : Good(b)
        BY <1>5, <3>2
      <3> QED
        BY <3>1, <3>3, Congruence
    <2>3. CASE a = r
      <3>1. Good(x) /\ Good(y) /\ Good(z)
        BY <1>3, <1>4, <1>5, <2>3
      <3>2. r \in Grounded(m) /\ q \in Grounded(m) /\ p \in Grounded(m) /\ k \in Grounded(m)
        BY <1>3, <1>5, <2>3, GroundedFacts
      <3>3. p \in Grounded(m2) /\ N + 1 \in Grounded(m2)
        <4>1. Links(m2, p) \subseteq Grounded(m2) /\ Links(m2, N + 1) \subseteq Grounded(m2)
          BY <3>1 DEF Links
        <4> QED
          BY <1>1, <4>1, GroundedFacts
      <3>4. q \in Grounded(m2)
        <4>1. Links(m2, q) \subseteq Grounded(m2)
          BY <3>1, <3>3 DEF Links
        <4> QED
          BY <1>1, <4>1, GroundedFacts
      <3>5. r \in Grounded(m2)
        <4>1. Links(m2, r) \subseteq Grounded(m2)
          BY <3>3, <3>4 DEF Links
        <4> QED
          BY <1>1, <4>1, GroundedFacts
      <3> HIDE DEF N
      <3>6. TermOf(m, r) = Apply(Apply(Apply(SComb, TermOf(m, x)), TermOf(m, y)), TermOf(m, z))
        BY <3>2, NodeTerm
      <3>7. TermOf(m2, r) = Apply(Apply(TermOf(m2, x), TermOf(m2, z)), Apply(TermOf(m2, y), TermOf(m2, z)))
        <4>1. TermOf(m2, N + 1) = TermOf(m2, z)
          BY <3>3, NodeTerm DEF N
        <4>2. TermOf(m2, p) = Apply(TermOf(m2, x), TermOf(m2, z))
          BY <3>3, NodeTerm
        <4>3. TermOf(m2, q) = Apply(TermOf(m2, y), TermOf(m2, N + 1))
          BY <3>4, NodeTerm DEF N
        <4> QED
          BY <3>5, <4>1, <4>2, <4>3, NodeTerm
      <3> QED
        BY <2>3, <3>1, <3>5, <3>6, <3>7, Rules
    <2> QED
      BY <2>2, <2>3
  <1>6. Grounded(m) \subseteq A
    <2> HIDE DEF A
    <2> QED
      BY <1>5, GroundedDeep
  <1> QED
    BY <1>6

(* A node that stays as it is keeps its term if what it leads to does.     *)
LEMMA SameTerm ==
  ASSUME NEW m, IsHeap(m), NEW m2, IsHeap(m2), NEW b \in Grounded(m), NEW a \in 1..Len(m2),
         m2[a].type = m[b].type, m[b].type = "LD" => m2[a].id = m[b].id,
         m[b].type \in {"APP", "REF"} =>
           /\ m2[a].left = NULL <=> m[b].left = NULL
           /\ m[b].left # NULL => m2[a].left \in Grounded(m2) /\ TermOf(m2, m2[a].left) = TermOf(m, m[b].left),
         m[b].type = "APP" =>
           /\ m2[a].right = NULL <=> m[b].right = NULL
           /\ m[b].right # NULL => m2[a].right \in Grounded(m2) /\ TermOf(m2, m2[a].right) = TermOf(m, m[b].right)
  PROVE  a \in Grounded(m2) /\ TermOf(m2, a) = TermOf(m, b)
  <1>1. TermOf(m, NULL) = TermOf(m2, NULL)
    BY TermFacts
  <1>2. a \in Grounded(m2)
    <2>1. Links(m2, a) \subseteq Grounded(m2)
      BY DEF Links
    <2> QED
      BY <2>1, GroundedFacts
  <1>3. CASE m[b].type = "APP"
    <2>1. /\ TermOf(m2, m2[a].left) = TermOf(m, m[b].left)
          /\ TermOf(m2, m2[a].right) = TermOf(m, m[b].right)
      BY <1>1, <1>3
    <2>2. TermOf(m2, a) = Apply(TermOf(m2, m2[a].left), TermOf(m2, m2[a].right))
      BY <1>2, <1>3, NodeTerm
    <2>3. TermOf(m, b) = Apply(TermOf(m, m[b].left), TermOf(m, m[b].right))
      BY <1>3, NodeTerm
    <2> QED
      BY <1>2, <2>1, <2>2, <2>3
  <1>4. CASE m[b].type = "REF"
    <2>1. TermOf(m2, m2[a].left) = TermOf(m, m[b].left)
      BY <1>1, <1>4
    <2>2. TermOf(m2, a) = TermOf(m2, m2[a].left)
      BY <1>2, <1>4, NodeTerm
    <2>3. TermOf(m, b) = TermOf(m, m[b].left)
      BY <1>4, NodeTerm
    <2> QED
      BY <1>2, <2>1, <2>2, <2>3
  <1>5. CASE m[b].type \notin {"APP", "REF"}
    <2>1. m[b].type \in {"S", "K", "LD"}
      BY <1>5, NodeTerm DEF Types
    <2>2. /\ m[b].type = "LD" => TermOf(m, b) = Var(m[b].id)
          /\ m[b].type = "S" => TermOf(m, b) = SComb
          /\ m[b].type = "K" => TermOf(m, b) = KComb
      BY NodeTerm
    <2>3. /\ m2[a].type = "LD" => TermOf(m2, a) = Var(m2[a].id)
          /\ m2[a].type = "S" => TermOf(m2, a) = SComb
          /\ m2[a].type = "K" => TermOf(m2, a) = KComb
      BY <1>2, NodeTerm
    <2> QED
      BY <1>2, <2>1, <2>2, <2>3
  <1> QED
    BY <1>3, <1>4, <1>5

(* Node b is copied to a, the children of an application to copies of      *)
(* them: orig says of what each node from c on is a copy.                  *)
CopyOf(m, c, orig, a) ==
  LET x == m[a]
      y == m[orig[a]]
  IN  /\ x.type = y.type
      /\ x.type = "LD" => x.id = y.id
      /\ x.type = "REF" => x.left = y.left
      /\ x.type = "APP" => /\ x.left = NULL \/ (x.left \in c..Len(m) /\ orig[x.left] = y.left)
                           /\ x.right = NULL \/ (x.right \in c..Len(m) /\ orig[x.right] = y.right)

(* The nodes from c on are a copy that is complete, c of what a reference  *)
(* refers to, and c is put in its place, in the left field of w, if any.   *)
CopyPlaced(m, m2, c, orig, w) ==
  /\ Len(m2) = Len(m) /\ c \in 1..Len(m) /\ w \in 0..(c - 1)
  /\ \A a \in 1..(c - 1) : Links(m, a) \subseteq 1..(c - 1)
  /\ orig \in [c..Len(m) -> 1..(c - 1)]
  /\ \A a \in c..Len(m) : /\ CopyOf(m, c, orig, a)
                          /\ m[a].type = "APP" => m[a].left # NULL /\ m[a].right # NULL
  /\ \A a \in 1..Len(m) : a # w => m2[a] = m[a]
  /\ w # 0 => LET r == m[w].left
              IN  /\ m[w].type = "APP" /\ r \in 1..Len(m) /\ m[r].type = "REF"
                  /\ m[r].left = orig[c]
                  /\ m2[w].type = "APP" /\ m2[w].left = c /\ m2[w].right = m[w].right

(* The copy stands for what it is a copy of, and no term changes.          *)
LEMMA CopyMeans ==
  ASSUME NEW m, IsHeap(m), NEW m2, IsHeap(m2), NEW c, NEW orig, NEW w, CopyPlaced(m, m2, c, orig, w)
  PROVE  \A b \in Grounded(m) : b < c =>
           /\ b \in Grounded(m2) /\ TermOf(m2, b) = TermOf(m, b)
           /\ \A a \in c..Len(m) : orig[a] = b => a \in Grounded(m2) /\ TermOf(m2, a) = TermOf(m, b)
  <1> USE DEF CopyPlaced
  <1> DEFINE Same(a, b) == a \in Grounded(m2) /\ TermOf(m2, a) = TermOf(m, b)
             Copied(b) == \A a \in c..Len(m) : orig[a] = b => Same(a, b)
             A == {b \in Grounded(m) : b < c => Same(b, b) /\ Copied(b)}
  <1>1. /\ Len(m) \in Nat /\ c \in c..Len(m) /\ \A a \in c..Len(m) : a \in 1..Len(m) /\ a # w /\ m2[a] = m[a]
        /\ \A b \in 1..Len(m) : b < c <=> b \in 1..(c - 1)
    BY LenProperties DEF IsHeap
  <1>2. ASSUME NEW b \in Grounded(m), Links(m, b) \subseteq A,
               \A d \in Links(m, b) : Links(m, d) \subseteq A
        PROVE  b \in A
    <2>1. SUFFICES ASSUME b < c
                   PROVE  Same(b, b) /\ Copied(b)
      BY <1>2
    <2>2. b \in 1..(c - 1) /\ Links(m, b) \subseteq 1..(c - 1)
      BY <1>1, <2>1, NodeTerm
    <2>3. \A d \in Links(m, b) : Same(d, d) /\ Copied(d)
      BY <1>1, <1>2, <2>2
    <2>4. /\ m[b].type \in {"APP", "REF"} /\ m[b].left # NULL => m[b].left \in Links(m, b)
          /\ m[b].type = "APP" /\ m[b].right # NULL => m[b].right \in Links(m, b)
      BY DEF Links
    <2>5. Copied(b)
      <3>1. SUFFICES ASSUME NEW a \in c..Len(m), orig[a] = b
                     PROVE  Same(a, b)
        OBVIOUS
      <3>2. a \in 1..Len(m2) /\ m2[a] = m[a]
        BY <1>1
      <3>3. /\ m[a].type = m[b].type
            /\ m[a].type = "LD" => m[a].id = m[b].id
            /\ m[a].type = "REF" => m[a].left = m[b].left
            /\ m[a].type = "APP" => /\ m[a].left \in c..Len(m) /\ orig[m[a].left] = m[b].left
                                    /\ m[a].right \in c..Len(m) /\ orig[m[a].right] = m[b].right
                                    /\ m[a].left # NULL /\ m[a].right # NULL
        BY <3>1 DEF CopyOf
      <3>4. m[a].type = "APP" => m[b].left # NULL /\ m[b].right # NULL
        BY <3>3
      <3>5. m[a].type = "APP" => Same(m[a].left, m[b].left) /\ Same(m[a].right, m[b].right)
        BY <2>3, <2>4, <3>3, <3>4
      <3>6. m[a].type = "REF" /\ m[a].left # NULL => Same(m[a].left, m[b].left)
        BY <2>3, <2>4, <3>3
      <3> QED
        BY <3>2, <3>3, <3>4, <3>5, <3>6, SameTerm
    <2>6. CASE b # w
      <3>1. b \in 1..Len(m2) /\ m2[b] = m[b]
        BY <2>6, NodeTerm
      <3>2. m[b].type \in {"APP", "REF"} /\ m[b].left # NULL => Same(m[b].left, m[b].left)
        BY <2>3, <2>4
      <3>3. m[b].type = "APP" /\ m[b].right # NULL => Same(m[b].right, m[b].right)
        BY <2>3, <2>4
      <3> QED
        BY <2>5, <3>1, <3>2, <3>3, SameTerm
    <2>7. CASE b = w
      <3> DEFINE r == m[w].left
                 src == orig[c]
      <3>1. /\ m[w].type = "APP" /\ r \in 1..Len(m) /\ m[r].type = "REF" /\ m[r].left = src
            /\ m2[w].type = "APP" /\ m2[w].left = c /\ m2[w].right = m[w].right
            /\ src \in 1..(c - 1) /\ w \in 1..Len(m2)
        BY <1>1, <2>2, <2>7
      <3>2. r \in Links(m, w) /\ src \in Links(m, r)
        BY <3>1 DEF Links
      <3>3. r \in Grounded(m) /\ Copied(src)
        BY <1>1, <1>2, <2>7, <3>1, <3>2
      <3>4. Same(c, src) /\ TermOf(m, r) = TermOf(m, src)
        BY <1>1, <3>1, <3>3, NodeTerm
      <3>5. m[w].right # NULL => Same(m[w].right, m[w].right)
        BY <2>3, <2>4, <2>7, <3>1
      <3>6. Same(w, w)
        BY <2>7, <3>1, <3>4, <3>5, SameTerm
      <3> QED
        BY <2>5, <2>7, <3>6
    <2> QED
      BY <2>6, <2>7
  <1>3. Grounded(m) \subseteq A
    <2> HIDE DEF A
    <2> QED
      BY <1>2, GroundedDeep
  <1> QED
    BY <1>3

-----------------------------------------------------------------------------
(* The spine runs from expr down the left fields, and a copy is made of    *)
(* what the reference at its end refers to.                                *)
SpineLinked ==
  pc \in {"walk", "reduce", "copy"} =>
    /\ spine[1] = expr
    /\ \A k \in 1..(Len(spine) - 1) :
         mem[spine[k]].type = "APP" /\ spine[k + 1] = mem[spine[k]].left
    /\ pc = "copy" => RefHead /\ mem[leftmost].left # NULL

(* Which of the statements is being reduced: none of the finished ones,    *)
(* and in between the last of them.                                        *)
RootsOK ==
  /\ pc \in {"loop", "walk", "reduce", "copy", "finish"} => \A s \in DOMAIN roots : roots[s] <= base
  /\ pc \in {"convert", "done"} => IF roots = <<>> THEN expr = NULL ELSE expr = roots[Len(roots)]

(* Nodes made before the statement lead only to such nodes.                *)
Older == \A a \in 1..base : Links(mem, a) \subseteq 1..base

(* A copy under way: each of its nodes is the copy of an older one, with   *)
(* its children linked or still to be made.                                *)
CopyBegun(orig) ==
  /\ orig[copied] = mem[leftmost].left
  /\ \A a \in copied..Len(mem) : CopyOf(mem, copied, orig, a)
  /\ \A t \in 1..Len(todo) :
       LET dst == todo[t].dst
       IN  /\ dst \in copied..Len(mem) /\ mem[dst].type = "APP"
           /\ todo[t].src = IF todo[t].side = "left" THEN mem[orig[dst]].left ELSE mem[orig[dst]].right

Copying ==
  pc = "copy" =>
    \/ todo = <<[src |-> mem[leftmost].left, dst |-> NULL, side |-> "left"]>>
    \/ /\ copied \in 1..Len(mem)
       /\ \A k \in 1..Len(spine) : spine[k] < copied
       /\ \A a \in 1..(copied - 1) : Links(mem, a) \subseteq 1..(copied - 1)
       /\ \E orig \in [copied..Len(mem) -> 1..(copied - 1)] : CopyBegun(orig)

GInv == SpineLinked /\ RootsOK /\ Older /\ Copying

(* The links of the arena lead to nodes of it.                             *)
LEMMA HeapIs ==
  ASSUME IInv
  PROVE  IsHeap(mem)
  <1>1. mem \in Seq(Node) /\ Len(mem) \in Nat
    BY DEF IInv, TypeOK
  <1>2. \A a \in 1..Len(mem) : Links(mem, a) \subseteq 1..Len(mem)
    BY <1>1 DEF IInv, HeapOK, ChildOK, Links
  <1> QED
    BY <1>1, <1>2 DEF IsHeap

(* The same of the arena after a step.                                     *)
LEMMA HeapWillBe ==
  ASSUME IInv'
  PROVE  IsHeap(mem')
  <1>1. mem' \in Seq(Node) /\ Len(mem') \in Nat
    BY DEF IInv, TypeOK
  <1>2. \A a \in 1..Len(mem') : Links(mem', a) \subseteq 1..Len(mem')
    BY <1>1 DEF IInv, HeapOK, ChildOK, Links
  <1> QED
    BY <1>1, <1>2 DEF IsHeap

(* The nodes of the finished statements stay as they are, and so do their  *)
(* links.                                                                  *)
LEMMA OlderKept ==
  ASSUME IInv, Older, base' = base, \A b \in 1..base : mem'[b] = mem[b]
  PROVE  Older'
  BY DEF Older, Links

(* What one call of skt_copy makes.                                        *)
LEMMA CopyMakes ==
  ASSUME IInv, prog \in Programs, CopyNode, Room(1)
  PROVE  LET call == todo[1]
             x    == mem[call.src]
             new  == Len(mem) + 1
         IN  /\ UNCHANGED <<prog, roots, base, pc, expr, i, spine>> /\ pc = "copy"
             /\ copied' = IF call.dst = NULL THEN new ELSE copied
             /\ Len(todo) \in Nat /\ 1 \in 1..Len(todo)
             /\ call.src \in 1..Len(mem) /\ call.dst \in 0..Len(mem) /\ call.side \in {"left", "right"}
             /\ x \in Node /\ Len(mem) \in Nat /\ Len(mem') = new
             /\ mem'[new].type = x.type
             /\ x.type = "REF" => mem'[new].left = x.left
             /\ x.type = "LD" => mem'[new].id = x.id
             /\ x.type = "APP" => mem'[new].left = NULL /\ mem'[new].right = NULL
             /\ \A b \in 1..Len(mem) : b # call.dst => mem'[b] = mem[b]
             /\ call.dst # NULL =>
                  /\ mem'[call.dst].type = mem[call.dst].type
                  /\ mem'[call.dst].left = IF call.side = "left" THEN new ELSE mem[call.dst].left
                  /\ mem'[call.dst].right = IF call.side = "left" THEN mem[call.dst].right ELSE new
             /\ \A t \in 1..Len(todo') :
                  \/ \E k \in 2..Len(todo) : todo'[t] = todo[k]
                  \/ /\ x.type = "APP"
                     /\ \/ todo'[t] = [src |-> x.left, dst |-> new, side |-> "left"]
                        \/ todo'[t] = [src |-> x.right, dst |-> new, side |-> "right"]
  <1> USE DEF IInv
  <1> DEFINE new  == Len(mem) + 1
             call == Head(todo)
             x    == mem[call.src]
             sub(side, a) == [src |-> a, dst |-> new, side |-> side]
             linked == IF call.dst = NULL THEN mem
                       ELSE IF call.side = "left" THEN [mem EXCEPT ![call.dst].left = new]
                       ELSE [mem EXCEPT ![call.dst].right = new]
             v == CASE x.type = "APP" -> Leaf("APP", NoIdent)
                    [] x.type = "REF" -> RefTo(x.left)
                    [] x.type = "LD"  -> Leaf("LD", x.id)
                    [] x.type \in {"S", "K"} -> Leaf(x.type, NoIdent)
  <1>1. /\ pc = "copy" /\ todo # <<>> /\ todo \in Seq(Call) /\ mem \in Seq(Node)
        /\ Len(mem) \in Nat /\ new \in Nat
    BY DEF CopyNode, TypeOK, Call
  <1>2. /\ call = todo[1] /\ call \in Call /\ 1 \in 1..Len(todo) /\ Len(todo) \in Nat
    BY <1>1, Pop, LenProperties
  <1>3. /\ call.src \in 1..Len(mem) /\ call.dst \in 0..Len(mem) /\ call.side \in {"left", "right"}
    BY <1>2 DEF Call
  <1>4. x \in Node
    BY <1>1, <1>3, ElementOfSeq
  <1>5. /\ UNCHANGED <<prog, roots, base, pc, expr, i, spine>>
        /\ copied' = IF call.dst = NULL THEN new ELSE copied
    BY DEF CopyNode
  <1>6. /\ mem' = Append(linked, v)
        /\ x.type = "APP" => todo' = <<sub("left", x.left), sub("right", x.right)>> \o Tail(todo)
        /\ x.type # "APP" => todo' = Tail(todo)
    <2>1. x.type \in {"APP", "REF", "LD", "S", "K"}
      BY <1>4 DEF Node, Types
    <2> QED
      BY <2>1 DEF CopyNode
  <1>7. /\ v \in Node /\ v.type = x.type
        /\ x.type = "REF" => v.left = x.left
        /\ x.type = "LD" => v.id = x.id
        /\ x.type = "APP" => v.left = NULL /\ v.right = NULL
    <2>1. /\ x.type \in {"APP", "REF", "LD", "S", "K"} /\ x.id \in Idents \cup {NoIdent}
          /\ x.left \in Nat
      BY <1>4 DEF Node, Types
    <2> QED
      BY <2>1 DEF Node, Types, Leaf, RefTo
  <1>8. /\ linked \in Seq(Node) /\ Len(linked) = Len(mem)
        /\ \A b \in 1..Len(mem) : b # call.dst => linked[b] = mem[b]
        /\ call.dst # NULL =>
             /\ linked[call.dst].type = mem[call.dst].type
             /\ linked[call.dst].left = IF call.side = "left" THEN new ELSE mem[call.dst].left
             /\ linked[call.dst].right = IF call.side = "left" THEN mem[call.dst].right ELSE new
    <2> DEFINE w == call.dst
               y == mem[w]
    <2>1. CASE w = NULL
      BY <1>1, <2>1
    <2>2. CASE w # NULL
      <3>1. w \in 1..Len(mem) /\ y \in Node
        BY <1>1, <1>3, <2>2, ElementOfSeq
      <3>2. CASE call.side = "left"
        <4> DEFINE u == [y EXCEPT !.left = new]
        <4>1. u \in Node /\ u.left = new /\ u.type = y.type /\ u.right = y.right
          BY <1>1, <3>1, NodeUpdate
        <4>2. linked = [mem EXCEPT ![w] = u]
          BY <2>2, <3>2
        <4> HIDE DEF u, w, linked
        <4>3. /\ linked \in Seq(Node) /\ Len(linked) = Len(mem) /\ linked[w] = u
              /\ \A b \in 1..Len(mem) : b # w => linked[b] = mem[b]
          BY <1>1, <3>1, <4>1, <4>2, Write
        <4> QED
          BY <3>2, <4>1, <4>3 DEF w
      <3>3. CASE call.side = "right"
        <4> DEFINE u == [y EXCEPT !.right = new]
        <4>1. u \in Node /\ u.right = new /\ u.type = y.type /\ u.left = y.left
          BY <1>1, <3>1, NodeUpdate
        <4>2. linked = [mem EXCEPT ![w] = u]
          BY <2>2, <3>3
        <4> HIDE DEF u, w, linked
        <4>3. /\ linked \in Seq(Node) /\ Len(linked) = Len(mem) /\ linked[w] = u
              /\ \A b \in 1..Len(mem) : b # w => linked[b] = mem[b]
          BY <1>1, <3>1, <4>1, <4>2, Write
        <4> QED
          BY <3>3, <4>1, <4>3 DEF w
      <3> QED
        BY <1>3, <3>2, <3>3
    <2> QED
      BY <2>1, <2>2
  <1> HIDE DEF v, linked
  <1>9. /\ Len(mem') = new /\ mem'[new] = v
        /\ \A b \in 1..Len(mem) : mem'[b] = linked[b]
    BY <1>1, <1>6, <1>7, <1>8
  <1>10. ASSUME NEW t \in 1..Len(todo')
         PROVE  \/ \E k \in 2..Len(todo) : todo'[t] = todo[k]
                \/ x.type = "APP" /\ (todo'[t] = sub("left", x.left) \/ todo'[t] = sub("right", x.right))
    <2>1. /\ Tail(todo) \in Seq(Call) /\ Len(Tail(todo)) = Len(todo) - 1
          /\ \A k \in 1..Len(Tail(todo)) : Tail(todo)[k] = todo[k + 1]
      BY <1>1, Pop
    <2>2. CASE x.type # "APP"
      <3>1. todo' = Tail(todo)
        BY <1>6, <2>2
      <3>2. t \in 1..Len(Tail(todo)) /\ Tail(todo)[t] = todo[t + 1]
        BY <2>1, <3>1
      <3>3. t + 1 \in 2..Len(todo)
        BY <1>2, <2>1, <3>2
      <3> QED
        BY <3>1, <3>2, <3>3
    <2>3. CASE x.type = "APP"
      <3> DEFINE e == sub("left", x.left)
                 f == sub("right", x.right)
                 T == {e, f} \cup Call
      <3>1. todo' = <<e, f>> \o Tail(todo)
        BY <1>6, <2>3
      <3>2. e \in T /\ f \in T /\ todo \in Seq(T)
        <4>1. Call \subseteq T
          OBVIOUS
        <4> QED
          BY <1>1, <4>1, SeqMonotonic
      <3> HIDE DEF e, f, T
      <3>3. /\ Len(todo') = Len(todo) + 1 /\ todo'[1] = e /\ todo'[2] = f
            /\ \A k \in 3..Len(todo') : todo'[k] = todo[k - 1]
        BY <1>1, <3>1, <3>2, PushTwo
      <3>4. CASE t \in 3..Len(todo')
        <4>1. t - 1 \in 2..Len(todo) /\ todo'[t] = todo[t - 1]
          BY <1>2, <3>3, <3>4
        <4> QED
          BY <4>1
      <3>5. t = 1 \/ t = 2 \/ t \in 3..Len(todo')
        BY <1>2, <3>3
      <3> QED
        BY <2>3, <3>3, <3>4, <3>5 DEF e, f
    <2> QED
      BY <2>2, <2>3
  <1> QED
    BY <1>1, <1>2, <1>3, <1>4, <1>5, <1>7, <1>8, <1>9, <1>10

(* A call of skt_copy keeps the copy one of what it is a copy of.          *)
LEMMA CopyingKept ==
  ASSUME IInv, prog \in Programs, SpineLinked, Copying, CopyNode, Room(1), IsHeap(mem')
  PROVE  SpineLinked' /\ Copying'
  <1> DEFINE call == todo[1]
             x    == mem[call.src]
             new  == Len(mem) + 1
             first == call.dst = NULL
  <1>1. /\ UNCHANGED <<prog, roots, base, pc, expr, i, spine>> /\ pc = "copy"
        /\ copied' = IF first THEN new ELSE copied
        /\ Len(todo) \in Nat /\ 1 \in 1..Len(todo)
        /\ call.src \in 1..Len(mem) /\ call.dst \in 0..Len(mem) /\ call.side \in {"left", "right"}
        /\ x \in Node /\ Len(mem) \in Nat /\ Len(mem') = new
        /\ mem'[new].type = x.type
        /\ x.type = "REF" => mem'[new].left = x.left
        /\ x.type = "LD" => mem'[new].id = x.id
        /\ x.type = "APP" => mem'[new].left = NULL /\ mem'[new].right = NULL
        /\ \A b \in 1..Len(mem) : b # call.dst => mem'[b] = mem[b]
    BY CopyMakes
  <1>2. ~first =>
          /\ mem'[call.dst].type = mem[call.dst].type
          /\ mem'[call.dst].left = IF call.side = "left" THEN new ELSE mem[call.dst].left
          /\ mem'[call.dst].right = IF call.side = "left" THEN mem[call.dst].right ELSE new
    BY CopyMakes
  <1>3. \A t \in 1..Len(todo') :
          \/ \E k \in 2..Len(todo) : todo'[t] = todo[k]
          \/ /\ x.type = "APP"
             /\ \/ todo'[t] = [src |-> x.left, dst |-> new, side |-> "left"]
                \/ todo'[t] = [src |-> x.right, dst |-> new, side |-> "right"]
    BY CopyMakes
  <1>4. /\ spine \in Seq(1..Len(mem)) /\ Len(spine) \in Nat /\ Len(spine) >= 1 /\ Len(spine) \in 1..Len(spine)
        /\ leftmost' = leftmost /\ leftmost = spine[Len(spine)]
        /\ \A k \in 1..Len(spine) : spine[k] \in 1..Len(mem)
    <2>1. spine \in Seq(1..Len(mem)) /\ spine # <<>>
      BY <1>1 DEF IInv, TypeOK, SpineOK
    <2> QED
      BY <1>1, <2>1, LenProperties, EmptySeq, ElementOfSeq DEF leftmost
  (* The nodes of the spine and what is copied are not of the copy.        *)
  <1>5. /\ first => todo = <<[src |-> mem[leftmost].left, dst |-> NULL, side |-> "left"]>>
        /\ ~first => /\ copied \in 1..Len(mem) /\ copied' = copied
                     /\ \A k \in 1..Len(spine) : spine[k] < copied
                     /\ \A a \in 1..(copied - 1) : Links(mem, a) \subseteq 1..(copied - 1)
                     /\ \E orig \in [copied..Len(mem) -> 1..(copied - 1)] : CopyBegun(orig)
    <2>1. CASE todo = <<[src |-> mem[leftmost].left, dst |-> NULL, side |-> "left"]>>
      BY <1>1, <2>1
    <2>2. CASE todo # <<[src |-> mem[leftmost].left, dst |-> NULL, side |-> "left"]>>
      <3>1. /\ copied \in 1..Len(mem)
            /\ \A k \in 1..Len(spine) : spine[k] < copied
            /\ \A a \in 1..(copied - 1) : Links(mem, a) \subseteq 1..(copied - 1)
            /\ \E orig \in [copied..Len(mem) -> 1..(copied - 1)] : CopyBegun(orig)
        BY <1>1, <2>2 DEF Copying
      <3>2. ~first
        BY <1>1, <3>1 DEF CopyBegun
      <3> QED
        BY <1>1, <3>1, <3>2
    <2> QED
      BY <2>1, <2>2
  <1>6. ~first => call.dst >= copied /\ call.src < copied
    <2>1. \/ Len(todo) = 1 /\ todo[1].dst = NULL
          \/ \A t \in 1..Len(todo) : todo[t].dst >= copied /\ todo[t].src < copied
      BY <1>1 DEF IInv, CopyOK
    <2> QED
      BY <1>1, <2>1
  <1>7. \A a \in 1..Len(mem) : a < copied' => mem'[a] = mem[a]
    BY <1>1, <1>5, <1>6
  <1>8. /\ \A k \in 1..Len(spine) : spine[k] < copied' /\ mem'[spine[k]] = mem[spine[k]]
        /\ mem'[leftmost] = mem[leftmost]
    <2>1. \A k \in 1..Len(spine) : spine[k] < copied'
      BY <1>1, <1>4, <1>5
    <2> QED
      BY <1>4, <1>7, <2>1
  <1>9. SpineLinked'
    <2>1. \A k \in 1..(Len(spine) - 1) : k \in 1..Len(spine)
      BY <1>4
    <2> QED
      BY <1>1, <1>4, <1>8, <2>1 DEF SpineLinked, RefHead
  <1>10. copied' \in 1..Len(mem') /\ copied' - 1 \in 0..Len(mem)
    BY <1>1, <1>5
  <1>11. \A a \in 1..(copied' - 1) : Links(mem', a) \subseteq 1..(copied' - 1)
    <2> SUFFICES ASSUME NEW a \in 1..(copied' - 1)
                 PROVE  Links(mem', a) \subseteq 1..(copied' - 1)
      OBVIOUS
    <2>0. a \in 1..Len(mem) /\ a < copied'
      BY <1>1, <1>10
    <2>1. a \in 1..Len(mem) /\ Links(mem', a) = Links(mem, a)
      BY <1>7, <2>0 DEF Links
    <2>2. CASE first
      BY <1>1, <2>1, <2>2, HeapIs DEF IsHeap
    <2>3. CASE ~first
      BY <1>5, <2>1, <2>3
    <2> QED
      BY <2>2, <2>3
  <1>12. \E o \in [copied'..Len(mem') -> 1..(copied' - 1)] : CopyBegun(o)'
    <2>1. CASE first
      <3> DEFINE o == [a \in new..new |-> call.src]
      <3>1. copied' = new /\ copied'..Len(mem') = new..new /\ 1..(copied' - 1) = 1..Len(mem)
        BY <1>1, <2>1
      <3>2. o \in [copied'..Len(mem') -> 1..(copied' - 1)] /\ o[new] = call.src
        BY <1>1, <3>1
      <3> HIDE DEF o
      <3>3. o[copied'] = mem'[leftmost'].left
        BY <1>4, <1>5, <1>8, <2>1, <3>1, <3>2
      <3>4. mem'[call.src] = mem[call.src]
        BY <1>1, <1>7, <3>1
      <3>5. \A a \in copied'..Len(mem') : CopyOf(mem', copied', o, a)
        BY <1>1, <3>1, <3>2, <3>4 DEF CopyOf
      <3>6. ASSUME NEW t \in 1..Len(todo')
            PROVE  LET dst == todo'[t].dst
                   IN  /\ dst \in copied'..Len(mem') /\ mem'[dst].type = "APP"
                       /\ todo'[t].src = IF todo'[t].side = "left" THEN mem'[o[dst]].left ELSE mem'[o[dst]].right
        <4>1. Len(todo) = 1
          BY <1>5, <2>1
        <4>2. /\ x.type = "APP"
              /\ \/ todo'[t] = [src |-> x.left, dst |-> new, side |-> "left"]
                 \/ todo'[t] = [src |-> x.right, dst |-> new, side |-> "right"]
          BY <1>3, <4>1
        <4> QED
          BY <1>1, <3>1, <3>2, <3>4, <4>2
      <3> QED
        BY <3>2, <3>3, <3>5, <3>6 DEF CopyBegun
    <2>2. CASE ~first
      <3>1. PICK p \in [copied..Len(mem) -> 1..(copied - 1)] : CopyBegun(p)
        BY <1>5, <2>2
      <3> DEFINE o == [a \in copied..new |-> IF a = new THEN call.src ELSE p[a]]
      <3>2. /\ copied' = copied /\ copied \in 1..Len(mem) /\ copied'..Len(mem') = copied..new
            /\ call.dst \in copied..Len(mem) /\ call.src \in 1..(copied - 1)
            /\ \A a \in copied..Len(mem) : a # new /\ a \in copied..new
            /\ \A a \in copied..new : a = new \/ a \in copied..Len(mem)
            /\ new \in copied..new
        <4>1. copied' = copied /\ copied \in 1..Len(mem) /\ call.dst >= copied /\ call.src < copied
          BY <1>5, <1>6, <2>2
        <4>2. Len(mem) \in Nat /\ Len(mem') = Len(mem) + 1 /\ call.src \in 1..Len(mem) /\ call.dst \in 0..Len(mem)
          BY <1>1
        <4> HIDE DEF call, first
        <4> QED
          BY <4>1, <4>2
      <3>3. /\ o \in [copied'..Len(mem') -> 1..(copied' - 1)]
            /\ o[new] = call.src /\ \A a \in copied..Len(mem) : o[a] = p[a]
        BY <3>2
      <3> HIDE DEF o
      <3>4. \A a \in copied..Len(mem) : p[a] \in 1..(copied - 1) /\ mem'[p[a]] = mem[p[a]]
        BY <1>1, <1>7, <3>1, <3>2
      <3>5. mem'[call.src] = mem[call.src]
        BY <1>1, <1>7, <3>2
      <3>6. o[copied'] = mem'[leftmost'].left
        <4>1. copied \in copied..Len(mem)
          BY <1>1, <3>2
        <4> QED
          BY <1>4, <1>8, <3>1, <3>2, <3>3, <4>1 DEF CopyBegun
      <3>7. ASSUME NEW a \in copied'..Len(mem')
            PROVE  CopyOf(mem', copied', o, a)
        <4>1. CASE a = new
          BY <1>1, <3>2, <3>3, <3>5, <4>1 DEF CopyOf
        <4>2. CASE a # new
          <5>1. a \in copied..Len(mem) /\ a \in 1..Len(mem) /\ o[a] = p[a] /\ mem'[o[a]] = mem[p[a]] /\ CopyOf(mem, copied, p, a)
            BY <1>1, <3>1, <3>2, <3>3, <3>4, <4>2 DEF CopyBegun
          <5>2. \A c \in copied..Len(mem) : c \in copied..Len(mem') /\ o[c] = p[c]
            BY <1>1, <3>2, <3>3
          <5>3. CASE a # call.dst
            <6>1. mem'[a] = mem[a]
              BY <1>1, <5>1, <5>3
            <6> QED
              BY <3>2, <5>1, <5>2, <6>1 DEF CopyOf
          <5>4. CASE a = call.dst
            <6>1. /\ mem[a].type = "APP"
                  /\ call.src = IF call.side = "left" THEN mem[p[a]].left ELSE mem[p[a]].right
              BY <1>1, <3>1, <5>4 DEF CopyBegun
            <6>2. /\ mem'[a].type = "APP"
                  /\ mem'[a].left = IF call.side = "left" THEN new ELSE mem[a].left
                  /\ mem'[a].right = IF call.side = "left" THEN mem[a].right ELSE new
              BY <1>2, <2>2, <5>4, <6>1
            <6>3. new \in copied'..Len(mem') /\ o[new] = call.src
              BY <1>1, <3>2, <3>3
            <6>4. mem[p[a]].type = "APP"
              BY <5>1, <6>1 DEF CopyOf
            <6>5. mem'[a].left = NULL \/ (mem'[a].left \in copied'..Len(mem') /\ o[mem'[a].left] = mem[p[a]].left)
              <7>1. CASE call.side = "left"
                BY <6>1, <6>2, <6>3, <7>1
              <7>2. CASE call.side # "left"
                BY <3>2, <5>1, <5>2, <6>1, <6>2, <7>2 DEF CopyOf
              <7> QED
                BY <7>1, <7>2
            <6>6. mem'[a].right = NULL \/ (mem'[a].right \in copied'..Len(mem') /\ o[mem'[a].right] = mem[p[a]].right)
              <7>1. CASE call.side # "left"
                BY <6>1, <6>2, <6>3, <7>1
              <7>2. CASE call.side = "left"
                BY <3>2, <5>1, <5>2, <6>1, <6>2, <7>2 DEF CopyOf
              <7> QED
                BY <7>1, <7>2
            <6> QED
              BY <5>1, <6>2, <6>4, <6>5, <6>6 DEF CopyOf
          <5> QED
            BY <5>3, <5>4
        <4> QED
          BY <4>1, <4>2
      <3>8. ASSUME NEW t \in 1..Len(todo')
            PROVE  LET dst == todo'[t].dst
                   IN  /\ dst \in copied'..Len(mem') /\ mem'[dst].type = "APP"
                       /\ todo'[t].src = IF todo'[t].side = "left" THEN mem'[o[dst]].left ELSE mem'[o[dst]].right
        <4>1. ASSUME NEW k \in 2..Len(todo), todo'[t] = todo[k]
              PROVE  LET dst == todo'[t].dst
                     IN  /\ dst \in copied'..Len(mem') /\ mem'[dst].type = "APP"
                         /\ todo'[t].src = IF todo'[t].side = "left" THEN mem'[o[dst]].left ELSE mem'[o[dst]].right
          <5> DEFINE d == todo[k].dst
          <5>1. /\ k \in 1..Len(todo) /\ d \in copied..Len(mem) /\ mem[d].type = "APP"
                /\ todo[k].src = IF todo[k].side = "left" THEN mem[p[d]].left ELSE mem[p[d]].right
            <6>1. k \in 1..Len(todo)
              BY <1>1
            <6> QED
              BY <3>1, <6>1 DEF CopyBegun
          <5>2. mem'[d].type = "APP"
            <6>1. d \in 1..Len(mem)
              BY <1>1, <3>2, <5>1
            <6>2. CASE d # call.dst
              BY <1>1, <5>1, <6>1, <6>2
            <6>3. CASE d = call.dst
              BY <1>2, <2>2, <5>1, <6>3
            <6> QED
              BY <6>2, <6>3
          <5>3. d \in copied'..Len(mem') /\ mem'[o[d]] = mem[p[d]]
            BY <3>2, <3>3, <3>4, <5>1
          <5> QED
            BY <4>1, <5>1, <5>2, <5>3
        <4>2. CASE x.type = "APP" /\ todo'[t] = [src |-> x.left, dst |-> new, side |-> "left"]
          BY <1>1, <3>2, <3>3, <3>5, <4>2
        <4>3. CASE x.type = "APP" /\ todo'[t] = [src |-> x.right, dst |-> new, side |-> "right"]
          BY <1>1, <3>2, <3>3, <3>5, <4>3
        <4> QED
          BY <1>3, <4>1, <4>2, <4>3
      <3> QED
        BY <3>3, <3>6, <3>7, <3>8 DEF CopyBegun
    <2> QED
      BY <2>1, <2>2
  <1> QED
    BY <1>1, <1>8, <1>9, <1>10, <1>11, <1>12 DEF Copying

(* The steps that work on no node.                                         *)
LEMMA QuietGraph ==
  ASSUME IInv, GInv, prog \in Programs,
         Iterate \/ BudgetSpent \/ WalkLeft \/ Arrived \/ RefStep \/ NoRedex \/ AllConverted
  PROVE  GInv'
  <1> USE DEF GInv
  <1>1. UNCHANGED <<prog, mem, roots, base, expr>>
    BY DEF Iterate, BudgetSpent, WalkLeft, Arrived, RefStep, NoRedex, AllConverted
  <1>2. Older'
    BY <1>1 DEF Older
  <1>3. CASE Iterate
    <2>1. spine' = <<expr>> /\ Len(spine') = 1 /\ spine'[1] = expr /\ pc' = "walk" /\ pc = "loop"
      BY <1>3 DEF Iterate
    <2> QED
      BY <1>1, <1>2, <2>1 DEF SpineLinked, RootsOK, Copying
  <1>4. CASE BudgetSpent \/ NoRedex \/ AllConverted
    BY <1>1, <1>2, <1>4 DEF BudgetSpent, NoRedex, AllConverted, SpineLinked, RootsOK, Copying
  <1>5. CASE WalkLeft
    <2>1. pc = "walk" /\ pc' = "walk" /\ mem[leftmost].type = "APP" /\ spine' = Append(spine, mem[leftmost].left)
      BY <1>5 DEF WalkLeft
    <2>2. /\ spine \in Seq(1..Len(mem)) /\ spine # <<>> /\ Len(spine) \in Nat \ {0}
      BY <2>1 DEF IInv, TypeOK, SpineOK
    <2>3. /\ Len(spine') = Len(spine) + 1 /\ (\A k \in 1..Len(spine) : spine'[k] = spine[k])
          /\ spine'[Len(spine) + 1] = mem[leftmost].left
      BY <2>1, <2>2, AppendProperties
    <2>4. /\ spine[1] = expr /\ 1 \in 1..Len(spine)
          /\ \A k \in 1..(Len(spine) - 1) : mem[spine[k]].type = "APP" /\ spine[k + 1] = mem[spine[k]].left
      BY <2>1, <2>2 DEF SpineLinked
    <2>5. ASSUME NEW k \in 1..(Len(spine') - 1)
          PROVE  mem[spine'[k]].type = "APP" /\ spine'[k + 1] = mem[spine'[k]].left
      <3>1. CASE k = Len(spine)
        BY <2>1, <2>2, <2>3, <3>1 DEF leftmost
      <3>2. CASE k # Len(spine)
        <4>1. k \in 1..(Len(spine) - 1) /\ k \in 1..Len(spine) /\ k + 1 \in 1..Len(spine)
          BY <2>2, <2>3, <3>2
        <4> QED
          BY <2>3, <2>4, <4>1
      <3> QED
        BY <3>1, <3>2
    <2>6. SpineLinked'
      BY <1>1, <2>1, <2>3, <2>4, <2>5 DEF SpineLinked
    <2> QED
      BY <1>1, <1>2, <2>1, <2>6 DEF RootsOK, Copying
  <1>6. CASE Arrived
    BY <1>1, <1>2, <1>6 DEF Arrived, SpineLinked, RootsOK, Copying
  <1>7. CASE RefStep
    <2>1. pc = "reduce" /\ RefHead /\ spine' = spine /\ leftmost' = leftmost
      BY <1>7 DEF RefStep, leftmost
    <2>2. CASE mem[leftmost].left = NULL
      BY <1>1, <1>2, <1>7, <2>2 DEF RefStep, SpineLinked, RootsOK, Copying
    <2>3. CASE mem[leftmost].left # NULL
      <3>1. pc' = "copy" /\ todo' = <<[src |-> mem[leftmost].left, dst |-> NULL, side |-> "left"]>>
        BY <1>7, <2>3 DEF RefStep
      <3> QED
        BY <1>1, <1>2, <2>1, <2>3, <3>1 DEF SpineLinked, RefHead, RootsOK, Copying
    <2> QED
      BY <2>2, <2>3
  <1> QED
    BY <1>3, <1>4, <1>5, <1>6, <1>7

(* The graph invariant is kept by every step.                              *)
LEMMA GraphStep ==
  ASSUME IInv, GInv, prog \in Programs, [Next]_vars
  PROVE  GInv'
  <1>1. IInv' /\ \A b \in 1..base : mem'[b] = mem[b]
    BY StepInv
  <1>2. base \in 0..Len(mem) /\ Len(mem) \in Nat /\ roots \in Seq(1..Len(mem))
    BY DEF IInv, TypeOK
  <1>3. base' = base => Older'
    BY <1>1, OlderKept DEF GInv
  <1>4. CASE Iterate \/ BudgetSpent \/ WalkLeft \/ Arrived \/ RefStep \/ NoRedex \/ AllConverted
    BY <1>4, QuietGraph
  <1>5. CASE UNCHANGED vars
    <2>1. UNCHANGED <<mem, roots, base, pc, expr, spine, todo, copied>>
      BY <1>5 DEF vars
    <2>2. SpineLinked' /\ RootsOK' /\ Older'
      BY <2>1 DEF GInv, SpineLinked, RootsOK, Older, RefHead, leftmost
    <2>3. \A orig : CopyBegun(orig) => CopyBegun(orig)'
      BY <2>1 DEF CopyBegun, leftmost
    <2>4. Copying'
      <3>1. leftmost' = leftmost
        BY <2>1 DEF leftmost
      <3> QED
        BY <2>1, <2>3, <3>1 DEF GInv, Copying
    <2> QED
      BY <2>2, <2>4 DEF GInv
  <1>6. CASE pc' = "full" /\ base' = base
    BY <1>3, <1>6 DEF GInv, SpineLinked, RootsOK, Copying
  <1>7. CASE ConvertStmt /\ Room(Len(Statement.code))
    <2>1. /\ base' = Len(mem) /\ pc' = "loop" /\ roots' = roots
          /\ mem' = mem \o [j \in 1..Len(Statement.code) |-> Placed(Statement.code[j])]
      BY <1>7 DEF ConvertStmt
    <2>2. \A a \in 1..Len(mem) : mem'[a] = mem[a]
      <3>1. mem \in Seq(Node)
        BY DEF IInv, TypeOK
      <3> QED
        BY <2>1, <3>1
    <2>3. Older'
      <3>1. \A a \in 1..Len(mem) : Links(mem', a) = Links(mem, a) /\ Links(mem, a) \subseteq 1..Len(mem)
        BY <2>2, HeapIs DEF Links, IsHeap
      <3> QED
        BY <2>1, <3>1 DEF Older
    <2>4. \A s \in DOMAIN roots : roots[s] <= Len(mem)
      BY <1>2
    <2> QED
      BY <2>1, <2>3, <2>4 DEF GInv, SpineLinked, RootsOK, Copying
  <1>8. CASE KStep \/ CopyReturns \/ (SStep /\ Room(1))
    <2>1. pc \in {"reduce", "copy"} /\ pc' = "loop" /\ roots' = roots /\ base' = base
      BY <1>8 DEF KStep, CopyReturns, SStep
    <2> QED
      BY <1>3, <2>1 DEF GInv, SpineLinked, RootsOK, Copying
  <1>9. CASE FinishStmt
    <2>1. pc' = "convert" /\ base' = base /\ roots' = Append(roots, expr) /\ expr' = expr
      BY <1>9 DEF FinishStmt
    <2>2. roots' # <<>> /\ roots'[Len(roots')] = expr
      BY <1>2, <2>1
    <2> QED
      BY <1>3, <2>1, <2>2 DEF GInv, SpineLinked, RootsOK, Copying
  <1>10. CASE CopyNode /\ Room(1)
    <2>1. SpineLinked' /\ Copying'
      BY <1>1, <1>10, CopyingKept, HeapWillBe DEF GInv
    <2>2. base' = base /\ roots' = roots /\ pc' = pc /\ pc = "copy"
      BY <1>10 DEF CopyNode
    <2> QED
      BY <1>3, <2>1, <2>2 DEF GInv, RootsOK
  <1>11. CASE \/ ConvertStmt /\ ~Room(Len(Statement.code))
              \/ SStep /\ ~Room(1)
              \/ CopyNode /\ ~Room(1)
    <2>1. ArenaFull
      BY <1>11 DEF ConvertStmt, SStep, CopyNode
    <2> QED
      BY <1>6, <2>1 DEF ArenaFull
  <1>12. CASE Terminated
    BY <1>5, <1>12 DEF Terminated
  <1>13. \/ Iterate \/ BudgetSpent \/ WalkLeft \/ Arrived \/ RefStep \/ NoRedex \/ AllConverted
         \/ ConvertStmt \/ KStep \/ CopyReturns \/ SStep \/ FinishStmt \/ CopyNode
         \/ Terminated \/ UNCHANGED vars
    BY DEF Next, Step
  <1>14. CASE ConvertStmt
    BY <1>7, <1>11, <1>14
  <1>15. CASE SStep
    BY <1>8, <1>11, <1>15
  <1>16. CASE CopyNode
    BY <1>10, <1>11, <1>16
  <1> QED
    BY <1>4, <1>5, <1>8, <1>9, <1>12, <1>13, <1>14, <1>15, <1>16

(* The graph invariant holds before the first statement is converted.      *)
LEMMA GraphInit == Init => GInv
  BY DEF Init, GInv, SpineLinked, RootsOK, Older, Copying

(* In every run of the reducer, whatever the file: the spine is a path of  *)
(* the graph, no finished node leads to a newer one, and what skt_copy has *)
(* made so far mirrors the nodes it has been called for.                   *)
THEOREM GraphInvariance == Spec => []GInv
  <1>1. Init => GInv
    BY GraphInit
  <1>2. IInv /\ GInv /\ prog \in Programs /\ [Next]_vars => GInv'
    BY GraphStep
  <1> QED
    BY <1>1, <1>2, Invariance, SameProgram, PTL DEF Spec

-----------------------------------------------------------------------------
(* The statement that is being reduced, and the terms of all.              *)
Running == {"loop", "walk", "reduce", "copy", "finish"}

Finished(m, rs) == [s \in 1..Len(rs) |-> TermOf(m, rs[s])]

(* A term behind those of the finished statements.                         *)
LEMMA OneMore ==
  ASSUME NEW n \in Nat, NEW f, f = [s \in 1..n |-> f[s]], NEW v
  PROVE  LET u == f \o <<v>>
         IN  /\ u # <<>> /\ Len(u) = n + 1 /\ DOMAIN u = 1..(n + 1) /\ Len(f) = n
             /\ \A s \in 1..n : u[s] = f[s]
             /\ u[n + 1] = v /\ u = Append(f, v) /\ f \o <<>> = f
             /\ u = [s \in 1..(n + 1) |-> IF s <= n THEN f[s] ELSE v]
  <1> DEFINE T == {f[s] : s \in 1..n} \cup {v}
  <1>1. f \in [1..n -> T] /\ v \in T
    OBVIOUS
  <1>2. f \in Seq(T) /\ <<v>> \in Seq(T) /\ Len(<<v>>) = 1 /\ <<v>>[1] = v
    BY <1>1, SeqDef
  <1> HIDE DEF T
  <1>3. Len(f) = n
    BY <1>1, <1>2, LenProperties
  <1>4. f \o <<v>> \in Seq(T) /\ f \o <<>> = f
    BY <1>2, ConcatProperties, ConcatEmptySeq
  <1> QED
    BY <1>1, <1>2, <1>3, <1>4

(* While a statement is reduced its term comes after those of the finished *)
(* ones, which all lie below it.                                           *)
LEMMA RunningTerms ==
  ASSUME IInv, RootsOK, pc \in Running
  PROVE  /\ Terms = Finished(mem, roots) \o <<TermOf(mem, expr)>>
         /\ expr \in 1..Len(mem) /\ expr \in Roots
         /\ \A s \in DOMAIN roots : roots[s] \in 1..base /\ roots[s] \in Roots
         /\ roots \in Seq(1..Len(mem)) /\ Len(roots) \in Nat /\ DOMAIN roots = 1..Len(roots)
  <1>1. /\ roots \in Seq(1..Len(mem)) /\ Len(roots) \in Nat /\ DOMAIN roots = 1..Len(roots)
        /\ base \in 0..Len(mem) /\ Len(mem) \in Nat /\ expr \in 0..Len(mem) /\ expr > base
    BY LenProperties DEF IInv, TypeOK, StatementOK, Running
  <1>2. \A s \in DOMAIN roots : roots[s] \in 1..base
    BY <1>1, ElementOfSeq DEF RootsOK, Running
  <1>3. ~(roots # <<>> /\ expr = roots[Len(roots)]) /\ expr # NULL
    <2>1. roots # <<>> => Len(roots) \in DOMAIN roots
      BY <1>1, EmptySeq
    <2> QED
      BY <1>1, <1>2, <2>1
  <1>4. Current = expr
    BY <1>3 DEF Current
  <1> QED
    BY <1>1, <1>2, <1>3, <1>4 DEF Terms, Finished, Roots

(* The same after a step.                                                  *)
LEMMA RunningTermsNext ==
  ASSUME IInv', RootsOK', pc' \in Running
  PROVE  Terms' = Finished(mem', roots') \o <<TermOf(mem', expr')>>
  <1>1. /\ roots' \in Seq(1..Len(mem')) /\ Len(roots') \in Nat /\ DOMAIN roots' = 1..Len(roots')
        /\ base' \in 0..Len(mem') /\ Len(mem') \in Nat /\ expr' \in 0..Len(mem') /\ expr' > base'
    BY LenProperties DEF IInv, TypeOK, StatementOK, Running
  <1>2. \A s \in DOMAIN roots' : roots'[s] \in 1..base'
    BY <1>1, ElementOfSeq DEF RootsOK, Running
  <1>3. ~(roots' # <<>> /\ expr' = roots'[Len(roots')]) /\ expr' # NULL
    <2>1. roots' # <<>> => Len(roots') \in DOMAIN roots'
      BY <1>1, EmptySeq
    <2> QED
      BY <1>1, <1>2, <2>1
  <1>4. Current' = expr'
    BY <1>3 DEF Current
  <1> QED
    BY <1>1, <1>3, <1>4 DEF Terms, Finished

(* Between two statements the terms are those of the finished ones.        *)
LEMMA IdleTerms ==
  ASSUME IInv, RootsOK, pc = "convert"
  PROVE  Terms = Finished(mem, roots)
  <1>1. roots \in Seq(1..Len(mem)) /\ Len(roots) \in Nat
    BY DEF IInv, TypeOK
  <1>2. Current = NULL
    BY DEF Current, RootsOK
  <1> DEFINE f == Finished(mem, roots)
             n == Len(roots)
  <1>3. f = [s \in 1..n |-> f[s]]
    BY DEF Finished
  <1>4. f \o <<>> = f
    <2> HIDE DEF f
    <2> QED
      BY <1>1, <1>3, OneMore
  <1> QED
    BY <1>2, <1>4 DEF Terms, Finished

(* Between two statements there are only the terms of the finished ones,   *)
(* here after a step.                                                      *)
LEMMA IdleTermsNext ==
  ASSUME IInv', RootsOK', pc' = "convert"
  PROVE  Terms' = Finished(mem', roots')
  <1>1. roots' \in Seq(1..Len(mem')) /\ Len(roots') \in Nat
    BY DEF IInv, TypeOK
  <1>2. Current' = NULL
    BY DEF Current, RootsOK
  <1> DEFINE f == Finished(mem', roots')
             n == Len(roots')
  <1>3. f = [s \in 1..n |-> f[s]]
    BY DEF Finished
  <1>4. f \o <<>> = f
    <2> HIDE DEF f
    <2> QED
      BY <1>1, <1>3, OneMore
  <1> QED
    BY <1>2, <1>4 DEF Terms, Finished

(* The finished statements keep their terms when their nodes stay.         *)
LEMMA FinishedKept ==
  ASSUME IInv, IInv', GInv, Acyclic, pc \in Running, roots' = roots, base' = base,
         \A b \in 1..base : mem'[b] = mem[b]
  PROVE  /\ Finished(mem', roots) = Finished(mem, roots)
         /\ \A s \in DOMAIN roots : roots[s] \in Grounded(mem')
  <1>1. IsHeap(mem) /\ IsHeap(mem')
    BY HeapIs, HeapWillBe
  <1>2. 1..base \subseteq 1..Len(mem) /\ 1..base \subseteq 1..Len(mem')
    <2>1. base \in 0..Len(mem) /\ Len(mem) \in Nat
      BY DEF IInv, TypeOK
    <2>2. Len(mem') \in Nat /\ Len(mem') >= base
      BY DEF IInv, TypeOK
    <2> QED
      BY <2>1, <2>2
  <1>3. \A a \in 1..base : Links(mem, a) \subseteq 1..base /\ SameNode(mem[a], mem'[a])
    BY DEF GInv, Older, SameNode, SameLinks
  <1>4. \A a \in 1..base :
          /\ a \in Grounded(mem) => a \in Grounded(mem') /\ TermOf(mem', a) = TermOf(mem, a)
          /\ a \in Grounded(mem') => a \in Grounded(mem)
    BY <1>1, <1>2, <1>3, PartKept, Zenon
  <1>5. \A s \in 1..Len(roots) : roots[s] \in 1..base /\ roots[s] \in Grounded(mem)
    BY RunningTerms DEF GInv, Acyclic
  <1>6. \A s \in 1..Len(roots) : TermOf(mem', roots[s]) = TermOf(mem, roots[s]) /\ roots[s] \in Grounded(mem')
    BY <1>4, <1>5
  <1>7. Finished(mem', roots) = Finished(mem, roots)
    BY <1>6 DEF Finished
  <1> QED
    BY <1>6, <1>7, RunningTerms DEF GInv

(* A step that changes only the term of the statement being reduced.       *)
LEMMA OneReduces ==
  ASSUME IInv, IInv', GInv, GInv', Acyclic, pc \in Running, pc' \in Running,
         roots' = roots, prog' = prog, base' = base, \A b \in 1..base : mem'[b] = mem[b],
         expr' \in Grounded(mem'), Follows(TermOf(mem, expr), TermOf(mem', expr'))
  PROVE  Acyclic' /\ (IsReduction => Calculus!Reduce)
  <1> DEFINE f == Finished(mem, roots)
             n == Len(roots)
             v == TermOf(mem, expr)
             w == TermOf(mem', expr')
  <1>1. Terms = f \o <<v>> /\ n \in Nat /\ DOMAIN roots = 1..n
    BY RunningTerms DEF GInv
  <1>2. Terms' = f \o <<w>> /\ \A s \in DOMAIN roots : roots[s] \in Grounded(mem')
    BY RunningTermsNext, FinishedKept DEF GInv
  <1>3. Acyclic'
    BY <1>2 DEF Acyclic, Roots
  <1>4. f = [s \in 1..n |-> f[s]]
    BY DEF Finished
  <1>5. IsReduction => Reduces(v, w)
    BY DEF Follows
  <1> HIDE DEF f, n, v, w
  <1>6. /\ Terms # <<>> /\ Len(Terms) = n + 1 /\ DOMAIN Terms = 1..(n + 1)
        /\ \A s \in 1..n : Terms[s] = f[s]
        /\ Terms[n + 1] = v
    BY <1>1, <1>4, OneMore
  <1>7. /\ DOMAIN Terms' = 1..(n + 1)
        /\ \A s \in 1..n : Terms'[s] = f[s]
        /\ Terms'[n + 1] = w
    BY <1>1, <1>2, <1>4, OneMore
  <1>8. IsReduction => Calculus!Reduce
    BY <1>1, <1>5, <1>6, <1>7 DEF Calculus!Reduce
  <1> QED
    BY <1>3, <1>8

-----------------------------------------------------------------------------
(* The spine while a redex is looked at: a path of whole applications.     *)
LEMMA SpineFacts ==
  ASSUME IInv, GInv, pc \in {"reduce", "copy"}
  PROVE  /\ Len(spine) \in Nat /\ depth \in Nat /\ Len(spine) = depth + 1 /\ spine[1] = expr
         /\ leftmost = spine[depth + 1] /\ mem \in Seq(Node) /\ Len(mem) \in Nat
         /\ \A k \in 1..(depth + 1) : spine[k] \in 1..Len(mem)
         /\ \A k \in 1..depth : mem[spine[k]].type = "APP" /\ mem[spine[k]].left = spine[k + 1]
         /\ pc = "reduce" => \A k \in 1..depth : mem[spine[k]].right \in 1..Len(mem)
  <1>1. /\ spine \in Seq(1..Len(mem)) /\ Len(spine) \in Nat /\ Len(spine) >= 1
        /\ mem \in Seq(Node) /\ Len(mem) \in Nat
    <2>1. spine \in Seq(1..Len(mem)) /\ spine # <<>> /\ mem \in Seq(Node)
      BY DEF IInv, TypeOK, SpineOK
    <2> QED
      BY <2>1, LenProperties, EmptySeq
  <1>2. depth \in Nat /\ Len(spine) = depth + 1 /\ leftmost = spine[depth + 1]
    BY <1>1 DEF depth, leftmost
  <1>3. \A k \in 1..(depth + 1) : spine[k] \in 1..Len(mem)
    BY <1>1, <1>2, ElementOfSeq
  <1>4. /\ spine[1] = expr
        /\ \A k \in 1..depth : mem[spine[k]].type = "APP" /\ mem[spine[k]].left = spine[k + 1]
    BY <1>2 DEF GInv, SpineLinked
  <1>5. ASSUME pc = "reduce", NEW k \in 1..depth
        PROVE  mem[spine[k]].right \in 1..Len(mem)
    <2>1. spine[k] \in 1..Len(mem) /\ mem[spine[k]].type = "APP"
      BY <1>2, <1>3, <1>4
    <2>2. todo = <<>> /\ ~Pending(spine[k], "right")
      BY <1>5 DEF IInv, CopyOK, Pending
    <2> QED
      BY <1>1, <2>1, <2>2 DEF IInv, HeapOK, ChildOK
  <1> QED
    BY <1>1, <1>2, <1>3, <1>4, <1>5

(* What an assignment to expr or to a left field of the spine writes.      *)
LEMMA RedirectWrites ==
  ASSUME IInv, GInv, pc \in {"reduce", "copy"}, NEW d \in 0..depth, NEW a \in Nat, Redirect(d, a)
  PROVE  /\ d = 0 => expr' = a /\ mem' = mem
         /\ d # 0 => LET w == spine[d]
                     IN  /\ expr' = expr /\ Len(mem') = Len(mem) /\ w \in 1..Len(mem)
                         /\ \A b \in 1..Len(mem) : b # w => mem'[b] = mem[b]
                         /\ mem'[w].type = "APP" /\ mem'[w].left = a /\ mem'[w].right = mem[w].right
  <1>1. CASE d = 0
    BY <1>1 DEF Redirect
  <1>2. CASE d # 0
    <2> DEFINE w == spine[d]
               v == [mem[w] EXCEPT !.left = a]
    <2>1. d \in 1..depth /\ d \in 1..(depth + 1)
      BY <1>2, SpineFacts
    <2>2. w \in 1..Len(mem) /\ mem[w].type = "APP" /\ mem \in Seq(Node)
      BY <2>1, SpineFacts
    <2>3. mem' = [mem EXCEPT ![w] = v] /\ expr' = expr
      BY <1>2 DEF Redirect
    <2>4. mem[w] \in Node /\ v \in Node /\ v.left = a /\ v.type = "APP" /\ v.right = mem[w].right
      <3>1. mem[w] \in Node
        BY <2>2, ElementOfSeq
      <3> QED
        BY <2>2, <3>1, NodeUpdate
    <2> HIDE DEF w, v
    <2>5. /\ Len(mem') = Len(mem) /\ mem'[w] = v
          /\ \A b \in 1..Len(mem) : b # w => mem'[b] = mem[b]
      BY <2>2, <2>3, <2>4, Write
    <2> QED
      BY <1>2, <2>2, <2>3, <2>4, <2>5 DEF w
  <1> QED
    BY <1>1, <1>2

(* The K rule contracts a redex of the term.                               *)
LEMMA KMeans ==
  ASSUME IInv, IInv', GInv, Acyclic, pc \in Running, KStep
  PROVE  expr' \in Grounded(mem') /\ Follows(TermOf(mem, expr), TermOf(mem', expr'))
  <1> DEFINE p == spine[depth]
             n == spine[depth - 1]
             k == spine[depth + 1]
             x == mem[p].right
  <1>1. IsHeap(mem) /\ IsHeap(mem') /\ expr \in Grounded(mem)
    BY HeapIs, HeapWillBe, RunningTerms DEF Acyclic, GInv
  <1>2. pc = "reduce" /\ mem[leftmost].type = "K" /\ depth >= 2 /\ Redirect(depth - 2, x)
    BY DEF KStep, KRedex
  <1>3. /\ depth \in Nat /\ spine[1] = expr /\ leftmost = k
        /\ depth \in 1..depth /\ depth - 1 \in 1..depth /\ depth - 1 + 1 = depth
        /\ depth - 2 \in 0..depth
    <2>1. depth \in Nat /\ spine[1] = expr /\ leftmost = k
      BY <1>2, SpineFacts
    <2> QED
      BY <1>2, <2>1
  <1>4. /\ p \in 1..Len(mem) /\ n \in 1..Len(mem) /\ k \in 1..Len(mem) /\ x \in 1..Len(mem)
        /\ mem[n].type = "APP" /\ mem[n].left = p
        /\ mem[p].type = "APP" /\ mem[p].left = k /\ mem[k].type = "K"
    <2>1. /\ \A j \in 1..(depth + 1) : spine[j] \in 1..Len(mem)
          /\ \A j \in 1..depth : mem[spine[j]].type = "APP" /\ mem[spine[j]].left = spine[j + 1]
          /\ \A j \in 1..depth : mem[spine[j]].right \in 1..Len(mem)
      BY <1>2, SpineFacts
    <2>2. depth \in 1..(depth + 1) /\ depth - 1 \in 1..(depth + 1) /\ depth + 1 \in 1..(depth + 1)
      BY <1>3
    <2> QED
      BY <1>2, <1>3, <2>1, <2>2
  <1>5. CASE depth = 2
    <2>1. n = expr
      BY <1>3, <1>5
    <2>2. expr' = x /\ mem' = mem
      <3>1. depth - 2 = 0
        BY <1>5
      <3> QED
        BY <1>2, <3>1 DEF Redirect
    <2> HIDE DEF p, n, k, x
    <2>3. p \in Links(mem, n) /\ k \in Links(mem, p) /\ mem[p].right \in Links(mem, p)
      BY <1>4 DEF Links, x
    <2>4. p \in Grounded(mem) /\ k \in Grounded(mem) /\ x \in Grounded(mem) /\ n \in Grounded(mem)
      BY <1>1, <1>4, <2>1, <2>3, GroundedFacts DEF x
    <2>5. TermOf(mem, n) = Apply(Apply(KComb, TermOf(mem, x)), TermOf(mem, mem[n].right))
      BY <1>1, <1>4, <2>4, NodeTerm DEF x
    <2>6. Follows(TermOf(mem, n), TermOf(mem, x))
      BY <2>5, Rules
    <2> QED
      BY <2>1, <2>2, <2>4, <2>6
  <1>6. CASE depth # 2
    <2> DEFINE w == spine[depth - 2]
    <2>1. depth - 2 # 0 /\ depth - 2 \in 1..depth /\ depth - 2 + 1 = depth - 1
      BY <1>2, <1>3, <1>6
    <2>2. mem[w].type = "APP" /\ mem[w].left = n
      BY <1>2, <2>1, SpineFacts
    <2>3. x \in Nat
      BY <1>4
    <2>4. /\ expr' = expr /\ Len(mem') = Len(mem) /\ w \in 1..Len(mem)
          /\ \A b \in 1..Len(mem) : b # w => mem'[b] = mem[b]
          /\ mem'[w].type = "APP" /\ mem'[w].left = x /\ mem'[w].right = mem[w].right
      <3> DEFINE d == depth - 2
      <3>1. d \in 0..depth /\ d # 0 /\ Redirect(d, x) /\ w = spine[d]
        BY <1>2, <1>3, <2>1
      <3> HIDE DEF d, x, w
      <3> QED
        BY <1>2, <2>3, <3>1, RedirectWrites
    <2>5. mem[p].right = x
      OBVIOUS
    <2> HIDE DEF p, n, k, w, x
    <2>6. KRewrites(mem, mem', w, n, p, k, x)
      BY <1>4, <2>2, <2>4, <2>5 DEF KRewrites
    <2>7. \A a \in Grounded(mem) : a \in Grounded(mem') /\ Follows(TermOf(mem, a), TermOf(mem', a))
      BY <1>1, <2>6, KContracts, Zenon
    <2> QED
      BY <1>1, <2>4, <2>7
  <1> QED
    BY <1>5, <1>6

(* Both fields of p, of q and of r are written, as the S rule does.        *)
Rewired(m, p, q, r, a, b, c, d) ==
  [m EXCEPT ![p].left = a, ![p].right = b, ![q].left = c, ![q].right = d, ![r].left = p, ![r].right = q]

RewiredTo(m, u, p, q, r, a, b, c, d) ==
  /\ u \in Seq(Node) /\ Len(u) = Len(m)
  /\ \A e \in 1..Len(m) : e \notin {p, q, r} => u[e] = m[e]
  /\ u[p].type = m[p].type /\ u[p].left = a /\ u[p].right = b
  /\ u[q].type = m[q].type /\ u[q].left = c /\ u[q].right = d
  /\ u[r].type = m[r].type /\ u[r].left = p /\ u[r].right = q

(* Six writes to the fields of three nodes have the effect they should.    *)
LEMMA WriteThree ==
  ASSUME NEW m \in Seq(Node), NEW p \in 1..Len(m), NEW q \in 1..Len(m), NEW r \in 1..Len(m),
         p # q, p # r, q # r, NEW a \in Nat, NEW b \in Nat, NEW c \in Nat, NEW d \in Nat
  PROVE  RewiredTo(m, Rewired(m, p, q, r, a, b, c, d), p, q, r, a, b, c, d)
  <1> DEFINE Both(x, f, g) == [[x EXCEPT !.left = f] EXCEPT !.right = g]
             pp == Both(m[p], a, b)
             qq == Both(m[q], c, d)
             rr == Both(m[r], p, q)
             u  == Rewired(m, p, q, r, a, b, c, d)
             u1 == [m EXCEPT ![p] = pp]
             u2 == [u1 EXCEPT ![q] = qq]
             u3 == [u2 EXCEPT ![r] = rr]
  <1>1. m[p] \in Node /\ m[q] \in Node /\ m[r] \in Node /\ p \in Nat /\ q \in Nat
    BY ElementOfSeq
  <1>2. /\ pp \in Node /\ pp.type = m[p].type /\ pp.left = a /\ pp.right = b
        /\ qq \in Node /\ qq.type = m[q].type /\ qq.left = c /\ qq.right = d
        /\ rr \in Node /\ rr.type = m[r].type /\ rr.left = p /\ rr.right = q
    <2>1. pp \in Node /\ pp.type = m[p].type /\ pp.left = a /\ pp.right = b
      BY <1>1 DEF Node
    <2>2. qq \in Node /\ qq.type = m[q].type /\ qq.left = c /\ qq.right = d
      BY <1>1 DEF Node
    <2>3. rr \in Node /\ rr.type = m[r].type /\ rr.left = p /\ rr.right = q
      BY <1>1 DEF Node
    <2> QED
      BY <2>1, <2>2, <2>3
  <1>3. u = u3
    BY DEF Rewired
  <1> HIDE DEF Both, pp, qq, rr, u1, u2, u3, u
  <1>4. u1 \in Seq(Node) /\ Len(u1) = Len(m) /\ u1[p] = pp /\ \A e \in 1..Len(m) : e # p => u1[e] = m[e]
    BY <1>2, Write DEF u1
  <1>5. u2 \in Seq(Node) /\ Len(u2) = Len(m) /\ u2[q] = qq /\ \A e \in 1..Len(m) : e # q => u2[e] = u1[e]
    BY <1>2, <1>4, Write DEF u2
  <1>6. u3 \in Seq(Node) /\ Len(u3) = Len(m) /\ u3[r] = rr /\ \A e \in 1..Len(m) : e # r => u3[e] = u2[e]
    BY <1>2, <1>5, Write DEF u3
  <1>7. u3[p] = pp /\ u3[q] = qq /\ u3[r] = rr
    BY <1>4, <1>5, <1>6
  <1> QED
    BY <1>2, <1>3, <1>4, <1>5, <1>6, <1>7 DEF RewiredTo, u

(* The nodes of the spine can be reached from expr.                        *)
LEMMA SpineLive ==
  ASSUME IInv, GInv, pc = "reduce"
  PROVE  /\ Live \subseteq 1..Len(mem) /\ \A a \in Live : Links(mem, a) \subseteq Live
         /\ Roots \subseteq Live /\ \A k \in 1..(depth + 1) : spine[k] \in Live
  <1>1. IsHeap(mem) /\ expr \in Roots /\ depth \in Nat /\ spine[1] = expr
    BY HeapIs, RunningTerms, SpineFacts DEF GInv, Running
  <1>2. Roots \subseteq 1..Len(mem)
    <2>1. \A s \in DOMAIN roots : roots[s] \in 1..Len(mem)
      BY LenProperties, ElementOfSeq DEF IInv, TypeOK
    <2>2. expr \in 1..Len(mem)
      BY RunningTerms DEF GInv, Running
    <2> QED
      BY <2>1, <2>2 DEF Roots
  <1>3. Live \subseteq 1..Len(mem) /\ Roots \subseteq Live /\ \A a \in Live : Links(mem, a) \subseteq Live
    BY <1>1, <1>2, ReachedFacts DEF Live
  <1> DEFINE Z == {n \in 0..depth : spine[n + 1] \in Live}
  <1>4. 0 \in Z
    BY <1>1, <1>3
  <1>5. ASSUME NEW n \in 1..depth, n - 1 \in Z
        PROVE  n \in Z
    <2>1. mem[spine[n]].type = "APP" /\ mem[spine[n]].left = spine[n + 1] /\ spine[n + 1] \in 1..Len(mem)
      <3>1. n \in 1..depth /\ n + 1 \in 1..(depth + 1)
        BY <1>1
      <3> QED
        BY <3>1, SpineFacts
    <2>2. n - 1 + 1 = n /\ spine[n] \in Live /\ n \in 0..depth
      <3>1. n - 1 + 1 = n /\ n \in 0..depth
        BY <1>1
      <3> QED
        BY <1>5, <3>1
    <2>3. spine[n + 1] \in Links(mem, spine[n])
      BY <2>1 DEF Links
    <2> QED
      BY <1>3, <2>2, <2>3
  <1>6. \A n \in 0..depth : n \in Z
    <2> HIDE DEF Z
    <2> QED
      BY <1>1, <1>4, <1>5, Upward
  <1>7. ASSUME NEW k \in 1..(depth + 1)
        PROVE  spine[k] \in Live
    <2>1. k - 1 \in 0..depth /\ k - 1 + 1 = k
      BY <1>1
    <2> QED
      BY <1>6, <2>1
  <1> QED
    BY <1>3, <1>7

(* The S rule contracts a redex of the term, and one more where it is      *)
(* shared, if the partial applications are not.                            *)
LEMMA SMeans ==
  ASSUME IInv, IInv', GInv, Acyclic, SStep, Room(1), ~RewritesShared
  PROVE  expr' \in Grounded(mem') /\ Follows(TermOf(mem, expr), TermOf(mem', expr'))
  <1> DEFINE r == spine[depth - 2]
             q == spine[depth - 1]
             p == spine[depth]
             k == spine[depth + 1]
             x == mem[p].right
             y == mem[q].right
             z == mem[r].right
             N == Len(mem)
  <1>1. pc = "reduce" /\ SRedex /\ mem[leftmost].type = "S" /\ depth >= 3
    BY DEF SStep, SRedex
  <1>2. /\ IsHeap(mem) /\ IsHeap(mem') /\ expr \in Grounded(mem) /\ expr \in Roots
        /\ mem \in Seq(Node) /\ N \in Nat
    BY <1>1, HeapIs, HeapWillBe, RunningTerms, SpineFacts DEF Acyclic, GInv, Running
  <1>3. /\ depth \in Nat /\ spine[1] = expr /\ leftmost = k
        /\ \A j \in 1..(depth + 1) : spine[j] \in 1..N /\ spine[j] \in Live
        /\ \A j \in 1..depth : /\ mem[spine[j]].type = "APP" /\ mem[spine[j]].left = spine[j + 1]
                               /\ mem[spine[j]].right \in 1..N
    BY <1>1, SpineFacts, SpineLive
  <1>4. /\ {depth - 2, depth - 1, depth, 1, 2, 3} \subseteq 1..depth
        /\ {depth - 2, depth - 1, depth, depth + 1, 1, 2, 3} \subseteq 1..(depth + 1)
        /\ depth - 2 + 1 = depth - 1 /\ depth - 1 + 1 = depth
    BY <1>1, <1>3
  <1>5. /\ {p, q, r, k} \subseteq 1..N /\ {p, q, r, k} \subseteq Live /\ {x, y, z} \subseteq 1..N
        /\ mem[p].type = "APP" /\ mem[p].left = k /\ mem[k].type = "S"
        /\ mem[q].type = "APP" /\ mem[q].left = p
        /\ mem[r].type = "APP" /\ mem[r].left = q
    BY <1>1, <1>3, <1>4
  <1>6. p # q /\ p # r /\ q # r
    BY <1>5
  <1>7. expr \notin {p, q}
    <2>1. /\ mem[spine[1]].left = spine[2] /\ mem[spine[2]].left = spine[3]
          /\ mem[spine[2]].type = "APP" /\ mem[spine[3]].type = "APP"
      BY <1>3, <1>4
    <2>2. mem[p].left = k /\ mem[q].left = p /\ mem[k].type = "S" /\ spine[1] = expr
      BY <1>3, <1>5
    <2> HIDE DEF p, q, k
    <2>3. CASE expr = p
      BY <2>1, <2>2, <2>3
    <2>4. CASE expr = q
      BY <2>1, <2>2, <2>4
    <2> QED
      BY <2>3, <2>4
  <1>8. \A a \in Live : /\ mem[a].right \notin {p, q}
                        /\ mem[a].left = p => a = q
                        /\ mem[a].left = q => a = r
    BY <1>1 DEF RewritesShared
  <1> DEFINE u == Rewired(mem, p, q, r, x, z, y, N + 1)
  <1>9. mem' = Append(u, RefTo(z)) /\ expr' = expr
    BY DEF SStep, Rewired
  <1>10. mem[p].right = x /\ mem[q].right = y /\ mem[r].right = z
    OBVIOUS
  <1> HIDE DEF p, q, r, k, x, y, z, N
  <1> HIDE DEF u
  <1>11. x \in Nat /\ y \in Nat /\ z \in Nat /\ N + 1 \in Nat
    BY <1>2, <1>5
  <1>12. /\ u \in Seq(Node) /\ Len(u) = N
         /\ \A e \in 1..N : e \notin {p, q, r} => u[e] = mem[e]
         /\ u[p].type = "APP" /\ u[p].left = x /\ u[p].right = z
         /\ u[q].type = "APP" /\ u[q].left = y /\ u[q].right = N + 1
         /\ u[r].type = "APP" /\ u[r].left = p /\ u[r].right = q
    <2>1. p \in 1..Len(mem) /\ q \in 1..Len(mem) /\ r \in 1..Len(mem) /\ mem \in Seq(Node)
      BY <1>2, <1>5 DEF N
    <2>2. RewiredTo(mem, u, p, q, r, x, z, y, N + 1)
      BY <1>6, <1>11, <2>1, WriteThree DEF u
    <2> QED
      BY <1>5, <2>2 DEF N, RewiredTo
  <1>13. RefTo(z) \in Node /\ RefTo(z).type = "REF" /\ RefTo(z).left = z
    BY <1>11 DEF RefTo, Node, Types
  <1>14. /\ Len(mem') = N + 1 /\ mem'[N + 1] = RefTo(z)
         /\ \A e \in 1..N : mem'[e] = u[e]
    BY <1>9, <1>12, <1>13, AppendProperties
  <1>15. SRewrites(mem, mem', Live, p, q, r, k, x, y, z)
    <2>1. /\ \A a \in Live : Links(mem, a) \subseteq Live
          /\ Live \subseteq 1..N
      BY <1>1, SpineLive DEF N
    <2>2. \A a \in 1..N : a \notin {p, q, r} => mem'[a] = mem[a]
      BY <1>12, <1>14
    <2>3. /\ mem'[p].type = "APP" /\ mem'[p].left = x /\ mem'[p].right = z
          /\ mem'[q].type = "APP" /\ mem'[q].left = y /\ mem'[q].right = N + 1
          /\ mem'[r].type = "APP" /\ mem'[r].left = p /\ mem'[r].right = q
          /\ mem'[N + 1].type = "REF" /\ mem'[N + 1].left = z
      BY <1>5, <1>12, <1>13, <1>14
    <2> QED
      BY <1>5, <1>8, <1>10, <1>14, <2>1, <2>2, <2>3 DEF SRewrites, N
  <1>16. \A a \in Live \cap Grounded(mem) :
           a \notin {p, q} => a \in Grounded(mem') /\ Follows(TermOf(mem, a), TermOf(mem', a))
    BY <1>2, <1>15, SContracts, Zenon
  <1>17. expr \in Live
    BY <1>1, <1>2, SpineLive
  <1> QED
    BY <1>2, <1>7, <1>9, <1>16, <1>17

(* A call of skt_copy changes no term: its node is not linked yet, and it  *)
(* is linked to nodes of the copy only.                                    *)
LEMMA CopyNodeMeans ==
  ASSUME IInv, IInv', GInv, prog \in Programs, Acyclic, CopyNode, Room(1)
  PROVE  expr' \in Grounded(mem') /\ Follows(TermOf(mem, expr), TermOf(mem', expr'))
  <1> DEFINE call == todo[1]
             C == 1..(IF call.dst = NULL THEN Len(mem) ELSE copied - 1)
  <1>1. /\ expr' = expr /\ spine' = spine /\ pc = "copy" /\ 1 \in 1..Len(todo)
        /\ Len(mem) \in Nat /\ Len(mem') = Len(mem) + 1
        /\ \A b \in 1..Len(mem) : b # call.dst => mem'[b] = mem[b]
    BY CopyMakes
  <1>2. IsHeap(mem) /\ IsHeap(mem') /\ expr \in Grounded(mem) /\ expr \in 1..Len(mem)
    BY <1>1, HeapIs, HeapWillBe, RunningTerms DEF Acyclic, GInv, Running
  <1>3. /\ C \subseteq 1..Len(mem) /\ expr \in C
        /\ \A a \in C : Links(mem, a) \subseteq C /\ mem'[a] = mem[a]
    <2>1. CASE call.dst = NULL
      BY <1>1, <1>2, <2>1 DEF IsHeap
    <2>2. CASE call.dst # NULL
      <3>1. /\ copied \in 1..Len(mem) /\ \A k \in 1..Len(spine) : spine[k] < copied
            /\ \A a \in 1..(copied - 1) : Links(mem, a) \subseteq 1..(copied - 1)
            /\ \E orig \in [copied..Len(mem) -> 1..(copied - 1)] : CopyBegun(orig)
        BY <1>1, <2>2 DEF GInv, Copying
      <3>2. call.dst \in copied..Len(mem)
        BY <1>1, <3>1 DEF CopyBegun
      <3>3. expr < copied
        <4>1. spine[1] = expr /\ 1 \in 1..Len(spine)
          <5>1. depth \in Nat /\ Len(spine) = depth + 1 /\ spine[1] = expr
            BY <1>1, SpineFacts
          <5> QED
            BY <5>1
        <4> QED
          BY <3>1, <4>1
      <3>4. C = 1..(copied - 1)
        BY <2>2
      <3> HIDE DEF C, call
      <3> QED
        BY <1>1, <1>2, <3>1, <3>2, <3>3, <3>4
    <2> QED
      BY <2>1, <2>2
  <1>4. /\ C \subseteq 1..Len(mem') /\ C \subseteq 1..Len(mem)
        /\ \A a \in C : Links(mem, a) \subseteq C /\ SameNode(mem[a], mem'[a])
    <2>1. 1..Len(mem) \subseteq 1..Len(mem')
      BY <1>1
    <2> HIDE DEF C
    <2> QED
      BY <1>3, <2>1 DEF SameNode, SameLinks
  <1> HIDE DEF C
  <1>5. \A a \in C :
          /\ a \in Grounded(mem) => a \in Grounded(mem') /\ TermOf(mem', a) = TermOf(mem, a)
          /\ a \in Grounded(mem') => a \in Grounded(mem)
    BY <1>2, <1>4, PartKept, Zenon
  <1>6. expr \in Grounded(mem') /\ TermOf(mem', expr) = TermOf(mem, expr)
    BY <1>2, <1>3, <1>5
  <1> QED
    BY <1>1, <1>6, Rules

(* Putting the finished copy in the place of the reference changes no      *)
(* term.                                                                   *)
LEMMA CopyReturnsMeans ==
  ASSUME IInv, IInv', GInv, prog \in Programs, Acyclic, CopyReturns
  PROVE  expr' \in Grounded(mem') /\ Follows(TermOf(mem, expr), TermOf(mem', expr'))
  <1> DEFINE w == IF depth = 0 THEN 0 ELSE spine[depth]
             c == copied
  <1>1. pc = "copy" /\ todo = <<>> /\ Redirect(depth, copied)
    BY DEF CopyReturns
  <1>2. /\ IsHeap(mem) /\ IsHeap(mem') /\ expr \in Grounded(mem) /\ expr \in 1..Len(mem)
        /\ mem \in Seq(Node) /\ Len(mem) \in Nat
    BY <1>1, HeapIs, HeapWillBe, RunningTerms, SpineFacts DEF Acyclic, GInv, Running
  <1>3. /\ depth \in Nat /\ Len(spine) = depth + 1 /\ spine[1] = expr /\ leftmost = spine[depth + 1]
        /\ \A k \in 1..(depth + 1) : spine[k] \in 1..Len(mem)
        /\ \A k \in 1..depth : mem[spine[k]].type = "APP" /\ mem[spine[k]].left = spine[k + 1]
    BY <1>1, SpineFacts
  <1>4. /\ c \in 1..Len(mem) /\ \A k \in 1..Len(spine) : spine[k] < c
        /\ \A a \in 1..(c - 1) : Links(mem, a) \subseteq 1..(c - 1)
        /\ \E orig \in [c..Len(mem) -> 1..(c - 1)] : CopyBegun(orig)
    <2>1. Len(<<[src |-> mem[leftmost].left, dst |-> NULL, side |-> "left"]>>) = 1 /\ Len(todo) = 0
      BY <1>1
    <2>2. todo # <<[src |-> mem[leftmost].left, dst |-> NULL, side |-> "left"]>>
      BY <2>1
    <2> QED
      BY <1>1, <2>2 DEF GInv, Copying
  <1>5. PICK orig \in [c..Len(mem) -> 1..(c - 1)] : CopyBegun(orig)
    BY <1>4
  <1>6. /\ orig[c] = mem[leftmost].left /\ \A a \in c..Len(mem) : CopyOf(mem, c, orig, a)
        /\ mem[leftmost].type = "REF"
    BY <1>1, <1>5 DEF CopyBegun, GInv, SpineLinked, RefHead
  <1>7. \A a \in c..Len(mem) : mem[a].type = "APP" => mem[a].left # NULL /\ mem[a].right # NULL
    <2>1. \A a \in c..Len(mem) : a \in 1..Len(mem)
      BY <1>2, <1>4
    <2>2. \A a, side : ~Pending(a, side)
      BY <1>1 DEF Pending
    <2> QED
      BY <2>1, <2>2 DEF IInv, HeapOK, ChildOK
  <1>8. /\ depth = 0 => expr' = c /\ mem' = mem
        /\ depth # 0 =>
             /\ expr' = expr /\ Len(mem') = Len(mem) /\ spine[depth] \in 1..Len(mem)
             /\ \A b \in 1..Len(mem) : b # spine[depth] => mem'[b] = mem[b]
             /\ mem'[spine[depth]].type = "APP" /\ mem'[spine[depth]].left = c
             /\ mem'[spine[depth]].right = mem[spine[depth]].right
    <2>1. depth \in 0..depth /\ c \in Nat /\ pc \in {"reduce", "copy"}
      BY <1>1, <1>2, <1>3, <1>4
    <2> QED
      BY <1>1, <2>1, RedirectWrites
  <1>9. w \in 0..(c - 1)
    <2>1. CASE depth = 0
      BY <1>2, <1>4, <2>1
    <2>2. CASE depth # 0
      <3>1. depth \in 1..(depth + 1) /\ depth \in 1..Len(spine)
        BY <1>3, <2>2
      <3>2. spine[depth] \in 1..Len(mem) /\ spine[depth] < c
        BY <1>3, <1>4, <3>1
      <3> QED
        BY <1>2, <1>4, <2>2, <3>2
    <2> QED
      BY <2>1, <2>2
  <1>10. CopyPlaced(mem, mem', c, orig, w)
    <2>1. CASE depth = 0
      <3>1. w = 0 /\ mem' = mem
        BY <1>8, <2>1
      <3> HIDE DEF w, c
      <3> QED
        BY <1>4, <1>5, <1>6, <1>7, <1>9, <3>1 DEF CopyPlaced
    <2>2. CASE depth # 0
      <3>1. /\ w = spine[depth] /\ depth \in 1..depth /\ depth + 1 \in 1..(depth + 1)
        BY <1>3, <2>2
      <3>2. mem[w].type = "APP" /\ mem[w].left = leftmost /\ leftmost \in 1..Len(mem)
        BY <1>3, <3>1
      <3>3. /\ Len(mem') = Len(mem) /\ \A b \in 1..Len(mem) : b # w => mem'[b] = mem[b]
            /\ mem'[w].type = "APP" /\ mem'[w].left = c /\ mem'[w].right = mem[w].right
        BY <1>8, <2>2, <3>1
      <3> HIDE DEF w, c
      <3> QED
        BY <1>4, <1>5, <1>6, <1>7, <1>9, <3>2, <3>3 DEF CopyPlaced
    <2> QED
      BY <2>1, <2>2
  <1> HIDE DEF w
  <1>11. \A b \in Grounded(mem) : b < c =>
           /\ b \in Grounded(mem') /\ TermOf(mem', b) = TermOf(mem, b)
           /\ \A a \in c..Len(mem) : orig[a] = b => a \in Grounded(mem') /\ TermOf(mem', a) = TermOf(mem, b)
    BY <1>2, <1>10, CopyMeans, Zenon
  <1>12. expr < c
    <2>1. 1 \in 1..Len(spine)
      BY <1>3
    <2> QED
      BY <1>3, <1>4, <2>1
  <1>13. CASE depth # 0
    <2>1. expr' = expr /\ expr' \in Grounded(mem') /\ TermOf(mem', expr') = TermOf(mem, expr)
      BY <1>2, <1>8, <1>11, <1>12, <1>13
    <2> QED
      BY <2>1, Rules
  <1>14. CASE depth = 0
    <2>1. leftmost = expr
      BY <1>3, <1>14
    <2>2. c \in c..Len(mem) /\ orig[c] < c /\ orig[c] # NULL
      <3>1. c \in c..Len(mem)
        BY <1>2, <1>4
      <3>2. orig[c] \in 1..(c - 1)
        BY <1>5, <3>1
      <3> QED
        BY <1>2, <1>4, <3>1, <3>2
    <2>3. TermOf(mem, expr) = TermOf(mem, orig[c]) /\ orig[c] \in Grounded(mem)
      BY <1>2, <1>6, <2>1, <2>2, NodeTerm
    <2>4. c \in Grounded(mem') /\ TermOf(mem', c) = TermOf(mem, orig[c])
      BY <1>11, <2>2, <2>3
    <2> QED
      BY <1>8, <1>14, <2>3, <2>4, Rules
  <1> QED
    BY <1>13, <1>14

-----------------------------------------------------------------------------
(* What the conversion of a statement makes.                               *)
LEMMA ConvertMakes ==
  ASSUME IInv, prog \in Programs, ConvertStmt, Room(Len(Statement.code))
  PROVE  LET code == Statement.code
             n    == Len(mem)
         IN  /\ n \in Nat /\ Len(code) \in Nat /\ Len(code) \in 1..Len(code) /\ Len(roots) < Len(prog)
             /\ UNCHANGED <<prog, roots>> /\ expr' = n + Len(code)
             /\ Len(mem') = n + Len(code)
             /\ \A a \in 1..n : mem'[a] = mem[a]
             /\ \A j \in 1..Len(code) :
                  /\ code[j].type \in Types /\ mem'[n + j].type = code[j].type
                  /\ code[j].type = "APP" =>
                       /\ code[j].left \in 1..(j - 1) /\ code[j].right \in 1..(j - 1)
                       /\ mem'[n + j].left = n + code[j].left /\ mem'[n + j].right = n + code[j].right
                  /\ code[j].type = "REF" => mem'[n + j].left = SkExpr(code[j].left)
                  /\ code[j].type = "LD" => mem'[n + j].id = code[j].id
  <1> USE DEF IInv
  <1> DEFINE code == Statement.code
             n    == Len(mem)
             s0   == Len(roots) + 1
             f    == [j \in 1..Len(code) |-> Placed(code[j])]
             L    == Len(code)
  <1>1. s0 \in 1..Len(prog) /\ n \in Nat /\ Len(prog) \in Nat /\ IsStatement(prog[s0], Len(prog)) /\ Len(roots) < Len(prog)
    BY ProgramsAssumption DEF ConvertStmt, TypeOK
  <1>2. /\ code \in Seq(Node) /\ L \in Nat \ {0}
        /\ \A j \in 1..L : IsCodeNode(code[j], j, Len(prog))
    BY <1>1 DEF IsStatement, Statement
  <1>3. UNCHANGED <<prog, roots>> /\ expr' = n + L /\ mem' = mem \o f /\ mem \in Seq(Node)
    BY DEF ConvertStmt, TypeOK
  <1>4. \A j \in 1..L :
          /\ Placed(code[j]) \in Node /\ Placed(code[j]).type = code[j].type
          /\ code[j].type = "APP" => /\ Placed(code[j]).left = n + code[j].left
                                     /\ Placed(code[j]).right = n + code[j].right
          /\ code[j].type = "REF" => Placed(code[j]).left = SkExpr(code[j].left)
    BY <1>2, PlacedNode
  <1>5. \A j \in 1..L : /\ code[j].type \in Types
                        /\ code[j].type = "LD" => Placed(code[j]).id = code[j].id
                        /\ code[j].type = "APP" => code[j].left \in 1..(j - 1) /\ code[j].right \in 1..(j - 1)
    <2>1. \A j \in 1..L : code[j] \in Node /\ (code[j].type = "APP" => code[j].left \in 1..(j - 1) /\ code[j].right \in 1..(j - 1))
      BY <1>2 DEF IsCodeNode
    <2>2. \A j \in 1..L : code[j].type \in Types
      BY <2>1 DEF Node
    <2>3. \A j \in 1..L : code[j].type = "LD" => Placed(code[j]) = code[j]
      BY DEF Placed
    <2> QED
      BY <2>1, <2>2, <2>3
  <1>6. \A j \in 1..L : f[j] = Placed(code[j])
    OBVIOUS
  <1>7. f \in [1..L -> Node] /\ L \in Nat
    BY <1>2, <1>4
  <1> HIDE DEF f, L
  <1>8. /\ Len(mem') = n + L /\ \A a \in 1..n : mem'[a] = mem[a]
        /\ \A k \in (n + 1)..(n + L) : mem'[k] = f[k - n]
    BY <1>3, <1>7, Concat
  <1>9. \A j \in 1..L : mem'[n + j] = Placed(code[j])
    <2> TAKE j \in 1..L
    <2>1. PICK k \in (n + 1)..(n + L) : k = n + j
      BY <1>1, <1>7
    <2>2. k - n = j
      BY <1>1, <1>7, <2>1
    <2> HIDE DEF n, code
    <2> QED
      BY <1>6, <1>8, <2>1, <2>2
  <1>10. L \in 1..L
    BY <1>2
  <1> HIDE DEF n, code
  <1> QED
    BY <1>1, <1>3, <1>4, <1>5, <1>7, <1>8, <1>9, <1>10 DEF n, code, L

(* The nodes of a converted statement all stand for terms: those of an     *)
(* earlier node, of an earlier statement, or of nothing yet.               *)
LEMMA ConvertGrounded ==
  ASSUME IInv, IInv', GInv, prog \in Programs, Acyclic, ConvertStmt, Room(Len(Statement.code))
  PROVE  /\ \A a \in Grounded(mem) : a \in Grounded(mem') /\ TermOf(mem', a) = TermOf(mem, a)
         /\ \A j \in 1..Len(Statement.code) : Len(mem) + j \in Grounded(mem')
  <1> DEFINE code == Statement.code
             n    == Len(mem)
             L    == Len(code)
             J    == {j \in 1..L : n + j \notin Grounded(mem')}
  <1>1. /\ n \in Nat /\ L \in Nat /\ Len(mem') = n + L /\ \A a \in 1..n : mem'[a] = mem[a]
        /\ \A j \in 1..L :
             /\ code[j].type \in Types /\ mem'[n + j].type = code[j].type
             /\ code[j].type = "APP" =>
                  /\ code[j].left \in 1..(j - 1) /\ code[j].right \in 1..(j - 1)
                  /\ mem'[n + j].left = n + code[j].left /\ mem'[n + j].right = n + code[j].right
             /\ code[j].type = "REF" => mem'[n + j].left = SkExpr(code[j].left)
    BY ConvertMakes
  <1>2. IsHeap(mem) /\ IsHeap(mem') /\ Grounded(mem) \subseteq 1..n
    BY HeapIs, HeapWillBe, GroundedFacts
  <1>3. \A a \in 1..n :
          /\ a \in Grounded(mem) => a \in Grounded(mem') /\ TermOf(mem', a) = TermOf(mem, a)
          /\ a \in Grounded(mem') => a \in Grounded(mem)
    <2> DEFINE C == 1..n
    <2>1. /\ C \subseteq 1..Len(mem) /\ C \subseteq 1..Len(mem')
          /\ \A a \in C : Links(mem, a) \subseteq C /\ SameNode(mem[a], mem'[a])
      <3>1. C \subseteq 1..Len(mem) /\ C \subseteq 1..Len(mem')
        BY <1>1
      <3>2. \A a \in C : Links(mem, a) \subseteq C
        BY <1>2 DEF IsHeap
      <3>3. \A a \in C : SameNode(mem[a], mem'[a])
        BY <1>1 DEF SameNode, SameLinks
      <3> QED
        BY <3>1, <3>2, <3>3
    <2> HIDE DEF C
    <2>2. \A a \in C :
            /\ a \in Grounded(mem) => a \in Grounded(mem') /\ TermOf(mem', a) = TermOf(mem, a)
            /\ a \in Grounded(mem') => a \in Grounded(mem)
      BY <1>2, <2>1, PartKept, Zenon
    <2> QED
      BY <2>2 DEF C
  <1>4. \A a \in Grounded(mem) : a \in Grounded(mem') /\ TermOf(mem', a) = TermOf(mem, a)
    BY <1>2, <1>3
  <1>5. \A s : SkExpr(s) # NULL => SkExpr(s) \in Grounded(mem')
    <2>1. \A s \in DOMAIN roots : roots[s] \in Grounded(mem)
      BY DEF Acyclic, Roots
    <2> QED
      BY <1>4, <2>1 DEF SkExpr
  <1>6. J = {}
    <2> SUFFICES ASSUME J # {}
                 PROVE  FALSE
      OBVIOUS
    <2>1. J \in SUBSET Nat
      BY <1>1
    <2>2. PICK j \in J : \A k \in J : j <= k
      BY <2>1, Smallest
    <2>3. j \in 1..L /\ n + j \notin Grounded(mem') /\ n + j \in 1..Len(mem')
      BY <1>1
    <2>4. \A k \in 1..(j - 1) : n + k \in Grounded(mem')
      <3> TAKE k \in 1..(j - 1)
      <3>1. k \in 1..L /\ ~(j <= k)
        BY <1>1, <2>3
      <3> QED
        BY <2>2, <3>1
    <2> DEFINE a == n + j
               x == mem'[a]
    <2> HIDE DEF n, J, code
    <2>5. Links(mem', a) \subseteq Grounded(mem')
      <3>1. /\ x.type = code[j].type
            /\ code[j].type = "APP" =>
                 /\ code[j].left \in 1..(j - 1) /\ code[j].right \in 1..(j - 1)
                 /\ x.left = n + code[j].left /\ x.right = n + code[j].right
            /\ code[j].type = "REF" => x.left = SkExpr(code[j].left)
        BY <1>1, <2>3
      <3>2. CASE x.type = "APP"
        <4>1. Links(mem', a) \subseteq {x.left, x.right}
          BY <3>2 DEF Links
        <4>2. x.left \in Grounded(mem') /\ x.right \in Grounded(mem')
          BY <2>4, <3>1, <3>2
        <4> HIDE DEF a, x
        <4> QED
          BY <4>1, <4>2
      <3>3. CASE x.type = "REF"
        <4>1. Links(mem', a) = {x.left} \ {NULL}
          BY <3>3 DEF Links
        <4>2. x.left # NULL => x.left \in Grounded(mem')
          BY <1>5, <3>1, <3>3
        <4> HIDE DEF a, x
        <4> QED
          BY <4>1, <4>2
      <3>4. CASE x.type \notin {"APP", "REF"}
        BY <3>4 DEF Links
      <3> QED
        BY <3>2, <3>3, <3>4
    <2> QED
      BY <1>2, <2>3, <2>5, GroundedFacts
  <1> QED
    BY <1>4, <1>6

(* The term a statement is given is the one its nodes stand for, names     *)
(* replaced by references.                                                 *)
LEMMA ConvertTerm ==
  ASSUME IInv, IInv', GInv, prog \in Programs, Acyclic, ConvertStmt, Room(Len(Statement.code))
  PROVE  Calculus!TermOfCode(Statement.code) = TermOf(mem', Len(mem) + Len(Statement.code))
  <1> DEFINE code == Statement.code
             n    == Len(mem)
             L    == Len(code)
             env  == Terms
             E(h, j) ==
               LET x == code[j]
               IN  CASE x.type = "APP" -> Apply(h[x.left], h[x.right])
                     [] x.type = "REF" -> IF x.left \in DOMAIN env THEN env[x.left] ELSE Unknown
                     [] x.type = "LD"  -> Var(x.id)
                     [] x.type = "S"   -> SComb
                     [] x.type = "K"   -> KComb
             at[j \in 1..Len(code)] == E(at, j)
             g == [j \in 1..L |-> TermOf(mem', n + j)]
  <1>1. /\ n \in Nat /\ L \in Nat /\ L \in 1..L /\ Len(mem') = n + L
        /\ \A j \in 1..L :
             /\ code[j].type \in Types /\ mem'[n + j].type = code[j].type
             /\ code[j].type = "APP" =>
                  /\ code[j].left \in 1..(j - 1) /\ code[j].right \in 1..(j - 1)
                  /\ mem'[n + j].left = n + code[j].left /\ mem'[n + j].right = n + code[j].right
             /\ code[j].type = "REF" => mem'[n + j].left = SkExpr(code[j].left)
             /\ code[j].type = "LD" => mem'[n + j].id = code[j].id
    BY ConvertMakes
  <1>2. Calculus!TermOfCode(code) = at[L]
    BY DEF Calculus!TermOfCode
  <1>3. IsHeap(mem') /\ pc = "convert"
    BY HeapWillBe DEF ConvertStmt
  <1>4. /\ \A a \in Grounded(mem) : TermOf(mem', a) = TermOf(mem, a)
        /\ \A j \in 1..L : n + j \in Grounded(mem')
    BY ConvertGrounded
  <1>5. \A s : TermOf(mem', SkExpr(s)) = IF s \in DOMAIN env THEN env[s] ELSE Unknown
    <2>1. env = Finished(mem, roots)
      BY <1>3, IdleTerms DEF GInv
    <2>2. DOMAIN roots = 1..Len(roots)
      BY LenProperties DEF IInv, TypeOK
    <2>3. \A s \in DOMAIN roots : roots[s] \in Grounded(mem)
      BY DEF Acyclic, Roots
    <2>4. TermOf(mem', NULL) = Unknown
      BY <1>3, TermFacts
    <2> HIDE DEF env
    <2>5. DOMAIN env = DOMAIN roots /\ \A s \in DOMAIN roots : env[s] = TermOf(mem, roots[s])
      BY <2>1, <2>2 DEF Finished
    <2> QED
      BY <1>4, <2>3, <2>4, <2>5 DEF SkExpr
  <1>6. ASSUME NEW j \in 1..L
        PROVE  g[j] = E(g, j)
    <2> DEFINE a == n + j
               x == mem'[a]
    <2>1. g[j] = TermOf(mem', a) /\ a \in Grounded(mem')
      BY <1>4
    <2>2. /\ code[j].type \in Types /\ x.type = code[j].type
          /\ code[j].type = "APP" =>
               /\ code[j].left \in 1..(j - 1) /\ code[j].right \in 1..(j - 1)
               /\ x.left = n + code[j].left /\ x.right = n + code[j].right
          /\ code[j].type = "REF" => x.left = SkExpr(code[j].left)
          /\ code[j].type = "LD" => x.id = code[j].id
      BY <1>1
    <2>3. /\ x.type = "APP" => TermOf(mem', a) = Apply(TermOf(mem', x.left), TermOf(mem', x.right))
          /\ x.type = "REF" => TermOf(mem', a) = TermOf(mem', x.left)
          /\ x.type = "LD" => TermOf(mem', a) = Var(x.id)
          /\ x.type = "S" => TermOf(mem', a) = SComb
          /\ x.type = "K" => TermOf(mem', a) = KComb
      BY <1>3, <2>1, NodeTerm
    <2>4. CASE x.type = "APP"
      <3>1. code[j].left \in 1..L /\ code[j].right \in 1..L
        BY <1>1, <2>2, <2>4
      <3>2. g[code[j].left] = TermOf(mem', x.left) /\ g[code[j].right] = TermOf(mem', x.right)
        BY <2>2, <2>4, <3>1
      <3> HIDE DEF g, a, x
      <3> QED
        BY <2>1, <2>2, <2>3, <2>4, <3>2
    <2>5. CASE x.type = "REF"
      <3>1. TermOf(mem', x.left) = IF code[j].left \in DOMAIN env THEN env[code[j].left] ELSE Unknown
        BY <1>5, <2>2, <2>5
      <3> HIDE DEF g, a, x, env
      <3> QED
        BY <2>1, <2>2, <2>3, <2>5, <3>1
    <2>6. CASE x.type \notin {"APP", "REF"}
      <3> HIDE DEF g, a, x, env
      <3> QED
        BY <2>1, <2>2, <2>3, <2>6 DEF Types
    <2> QED
      BY <2>4, <2>5, <2>6
  <1>7. g = [j \in 1..L |-> E(g, j)]
    <2> DEFINE h == [j \in 1..L |-> E(g, j)]
    <2>1. \A j \in 1..L : g[j] = h[j]
      BY <1>6
    <2>2. g = [j \in 1..L |-> g[j]]
      OBVIOUS
    <2> HIDE DEF g, E
    <2> QED
      BY <2>1, <2>2
  <1>8. at = CHOOSE f : f = [j \in 1..L |-> E(f, j)]
    OBVIOUS
  <1>9. ASSUME NEW j \in 1..L, NEW f, NEW h,
               code[j].type = "APP" => f[code[j].left] = h[code[j].left] /\ f[code[j].right] = h[code[j].right]
        PROVE  E(f, j) = E(h, j)
    <2>1. CASE code[j].type = "APP"
      BY <1>9, <2>1
    <2>2. CASE code[j].type # "APP"
      BY <1>1, <2>2 DEF Types
    <2> QED
      BY <2>1, <2>2
  <1> HIDE DEF E
  <1>10. at = [j \in 1..L |-> E(at, j)]
    <2>1. \E f : f = [j \in 1..L |-> E(f, j)]
      BY <1>7, Zenon
    <2> QED
      BY <1>8, <2>1, Zenon
  <1>11. \A j \in 1..L : at[j] = E(at, j)
    BY <1>10, Zenon
  <1> HIDE DEF at, g
  <1> DEFINE J == {j \in 1..L : at[j] # g[j]}
  <1>12. J = {}
    <2> SUFFICES ASSUME J # {}
                 PROVE  FALSE
      OBVIOUS
    <2>1. J \in SUBSET Nat
      BY <1>1
    <2>2. PICK j \in J : \A k \in J : j <= k
      BY <2>1, Smallest
    <2>3. \A k \in 1..(j - 1) : at[k] = g[k]
      <3> TAKE k \in 1..(j - 1)
      <3>1. k \in 1..L /\ ~(j <= k)
        BY <1>1, <2>2
      <3> QED
        BY <2>2, <3>1
    <2>4. j \in 1..L /\ at[j] # g[j]
      OBVIOUS
    <2>5. code[j].type = "APP" => code[j].left \in 1..(j - 1) /\ code[j].right \in 1..(j - 1)
      BY <1>1, <2>4
    <2> HIDE DEF J
    <2>6. E(at, j) = E(g, j)
      BY <1>9, <2>3, <2>4, <2>5
    <2> QED
      BY <1>6, <1>11, <2>4, <2>6
  <1>13. at[L] = g[L]
    BY <1>1, <1>12
  <1>14. g[L] = TermOf(mem', n + L)
    BY <1>1 DEF g
  <1> QED
    BY <1>2, <1>13, <1>14

(* A statement that is converted is declared.                              *)
LEMMA ConvertMeans ==
  ASSUME IInv, IInv', GInv, GInv', prog \in Programs, Acyclic, ConvertStmt, Room(Len(Statement.code))
  PROVE  Acyclic' /\ Calculus!Declare
  <1> DEFINE code == Statement.code
             f == Finished(mem, roots)
             n == Len(roots)
             v == TermOf(mem', expr')
  <1>1. /\ UNCHANGED <<prog, roots>> /\ expr' = Len(mem) + Len(code) /\ Len(code) \in 1..Len(code)
        /\ Len(roots) < Len(prog)
    BY ConvertMakes
  <1>2. pc = "convert" /\ pc' = "loop" /\ n \in Nat
    BY DEF ConvertStmt, IInv, TypeOK
  <1>3. /\ \A a \in Grounded(mem) : a \in Grounded(mem') /\ TermOf(mem', a) = TermOf(mem, a)
        /\ expr' \in Grounded(mem')
    BY <1>1, ConvertGrounded
  <1>4. DOMAIN roots = 1..Len(roots) /\ \A s \in 1..Len(roots) : roots[s] \in Grounded(mem)
    BY LenProperties DEF Acyclic, Roots, IInv, TypeOK
  <1>5. Acyclic'
    BY <1>1, <1>3, <1>4 DEF Acyclic, Roots
  <1>6. Finished(mem', roots') = f
    BY <1>1, <1>3, <1>4 DEF Finished
  <1>7. Terms = f /\ Terms' = f \o <<v>>
    BY <1>2, <1>6, IdleTerms, RunningTermsNext DEF GInv, Running
  <1>8. v = Calculus!TermOfCode(code)
    BY <1>1, ConvertTerm
  <1>9. f = [s \in 1..n |-> f[s]]
    BY DEF Finished
  <1>10. code = prog[n + 1].code
    BY DEF Statement
  <1> HIDE DEF f, n, v, code
  <1>11. Terms' = Append(Terms, v) /\ Len(Terms) = n
    BY <1>2, <1>7, <1>9, OneMore
  <1> QED
    BY <1>1, <1>5, <1>8, <1>10, <1>11 DEF Calculus!Declare, n

(* The root of a finished statement gets a name, which is part of its term *)
(* only if it is a variable.                                               *)
LEMMA FinishMeans ==
  ASSUME IInv, IInv', GInv, GInv', prog \in Programs, Acyclic, FinishStmt
  PROVE  Acyclic' /\ (~RenamesVariable => Terms' = Terms)
  <1> DEFINE C == 1..Len(mem)
             n == Len(roots)
             f == Finished(mem, roots)
             v == TermOf(mem, expr)
  <1>1. /\ pc = "finish" /\ pc' = "convert" /\ expr' = expr /\ roots' = Append(roots, expr)
        /\ roots \in Seq(1..Len(mem)) /\ expr \in 1..Len(mem) /\ mem \in Seq(Node) /\ Len(mem) \in Nat
        /\ n \in Nat /\ DOMAIN roots = 1..n
    BY RunningTerms DEF FinishStmt, GInv, Running, IInv, TypeOK
  <1>2. /\ Len(mem') = Len(mem) /\ \A b \in 1..Len(mem) : b # expr => mem'[b] = mem[b]
        /\ mem'[expr].type = mem[expr].type /\ mem'[expr].left = mem[expr].left
        /\ mem'[expr].right = mem[expr].right /\ mem'[expr].id = Statement.var
    <2> DEFINE x == Statement.var
               y == [mem[expr] EXCEPT !.id = x]
    <2>1. x \in Idents
      <3>1. Len(roots) + 1 \in 1..Len(prog)
        BY <1>1, ProgramsAssumption DEF IInv, StatementOK
      <3> QED
        BY <3>1, ProgramsAssumption DEF IsStatement, Statement
    <2>2. mem' = [mem EXCEPT ![expr] = y]
      BY DEF FinishStmt
    <2> HIDE DEF x
    <2>3. mem[expr] \in Node
      BY <1>1, ElementOfSeq
    <2>4. y \in Node /\ y.type = mem[expr].type /\ y.left = mem[expr].left /\ y.right = mem[expr].right /\ y.id = x
      BY <2>1, <2>3 DEF Node
    <2> HIDE DEF y
    <2>5. /\ Len(mem') = Len(mem) /\ mem'[expr] = y
          /\ \A b \in 1..Len(mem) : b # expr => mem'[b] = mem[b]
      BY <1>1, <2>2, <2>4, Write
    <2> QED
      BY <2>4, <2>5 DEF x
  <1>3. IsHeap(mem) /\ IsHeap(mem')
    BY HeapIs, HeapWillBe
  <1>4. /\ n + 1 = Len(roots') /\ DOMAIN roots' = 1..(n + 1) /\ roots'[n + 1] = expr
        /\ \A s \in 1..n : roots'[s] = roots[s]
    BY <1>1
  <1>5. expr \in Grounded(mem) /\ \A s \in 1..n : roots[s] \in Grounded(mem)
    BY <1>1, RunningTerms DEF Acyclic, Roots, GInv, Running
  <1>6. /\ C \subseteq 1..Len(mem) /\ C \subseteq 1..Len(mem')
        /\ \A a \in C : Links(mem, a) \subseteq C /\ SameLinks(mem[a], mem'[a])
    <2>1. \A a \in C : SameLinks(mem[a], mem'[a])
      BY <1>2 DEF SameLinks
    <2>2. \A a \in C : Links(mem, a) \subseteq C
      BY <1>3 DEF IsHeap
    <2> QED
      BY <1>2, <2>1, <2>2
  <1>7. Acyclic'
    <2> HIDE DEF C
    <2>1. \A a \in C \cap Grounded(mem) : a \in Grounded(mem')
      BY <1>3, <1>6, PartGrounded, Zenon
    <2>2. Grounded(mem) \subseteq C
      BY <1>3, GroundedFacts DEF C
    <2>3. \A s \in 1..(n + 1) : roots'[s] \in Grounded(mem)
      <3> TAKE s \in 1..(n + 1)
      <3>1. s = n + 1 \/ s \in 1..n
        BY <1>1
      <3> QED
        BY <1>4, <1>5, <3>1
    <2> QED
      BY <1>1, <1>4, <1>5, <2>1, <2>2, <2>3 DEF Acyclic, Roots
  <1>8. ASSUME ~RenamesVariable
        PROVE  Terms' = Terms
    <2>1. \A a \in C : Links(mem, a) \subseteq C /\ SameNode(mem[a], mem'[a])
      <3>1. mem[expr].type = "LD" => mem[expr].id = mem'[expr].id
        BY <1>1, <1>2, <1>8 DEF RenamesVariable
      <3> QED
        BY <1>2, <1>6, <3>1 DEF SameNode
    <2>2. Grounded(mem) \subseteq C
      BY <1>3, GroundedFacts
    <2>3. \A a \in Grounded(mem) : TermOf(mem', a) = TermOf(mem, a)
      <3> HIDE DEF C
      <3>1. \A a \in C :
              /\ a \in Grounded(mem) => a \in Grounded(mem') /\ TermOf(mem', a) = TermOf(mem, a)
              /\ a \in Grounded(mem') => a \in Grounded(mem)
        BY <1>3, <1>6, <2>1, PartKept, Zenon
      <3> QED
        BY <2>2, <3>1
    <2>4. Terms = f \o <<v>>
      BY <1>1, RunningTerms DEF GInv, Running
    <2>5. Terms' = [s \in 1..(n + 1) |-> TermOf(mem', roots'[s])]
      BY <1>1, <1>4, IdleTermsNext DEF GInv, Finished
    <2>6. f = [s \in 1..n |-> f[s]] /\ \A s \in 1..n : f[s] = TermOf(mem, roots[s])
      BY DEF Finished
    <2>7. \A s \in 1..(n + 1) : TermOf(mem', roots'[s]) = IF s <= n THEN f[s] ELSE v
      <3> TAKE s \in 1..(n + 1)
      <3>1. CASE s <= n
        <4>1. s \in 1..n
          BY <1>1, <3>1
        <4> QED
          BY <1>4, <1>5, <2>3, <2>6, <3>1, <4>1
      <3>2. CASE ~(s <= n)
        <4>1. s = n + 1
          BY <1>1, <3>2
        <4> QED
          BY <1>4, <1>5, <2>3, <3>2, <4>1
      <3> QED
        BY <3>1, <3>2
    <2> HIDE DEF f, n, v
    <2>8. f \o <<v>> = [s \in 1..(n + 1) |-> IF s <= n THEN f[s] ELSE v]
      BY <1>1, <2>6, OneMore
    <2>9. Terms' = [s \in 1..(n + 1) |-> IF s <= n THEN f[s] ELSE v]
      BY <2>5, <2>7
    <2> QED
      BY <2>4, <2>8, <2>9
  <1> QED
    BY <1>7, <1>8

-----------------------------------------------------------------------------
(* A step of the reducer is one of the SK calculus, or none, and makes no  *)
(* cycle, unless it rewrites a shared partial application; it renames a    *)
(* variable only where RenamesVariable says so.                            *)
LEMMA StepMeans ==
  ASSUME IInv, GInv, prog \in Programs, [Next]_vars, Acyclic, ~RewritesShared
  PROVE  /\ Acyclic' /\ prog' = prog
         /\ IsReduction /\ ~RenamesVariable => Calculus!CalculusNext \/ UNCHANGED Terms
  <1>1. IInv' /\ GInv' /\ \A b \in 1..base : mem'[b] = mem[b]
    BY StepInv, GraphStep
  <1>2. prog' = prog
    BY DEF Next, Step, vars, ConvertStmt, AllConverted, FinishStmt, Iterate, BudgetSpent, WalkLeft,
           Arrived, KStep, SStep, RefStep, NoRedex, CopyNode, CopyReturns, Terminated, ArenaFull
  <1>3. CASE UNCHANGED <<mem, roots, expr>>
    BY <1>2, <1>3 DEF Acyclic, Roots, Terms, Current
  <1>4. CASE ConvertStmt /\ Room(Len(Statement.code))
    BY <1>1, <1>2, <1>4, ConvertMeans DEF Calculus!CalculusNext
  <1>5. CASE FinishStmt
    BY <1>1, <1>2, <1>5, FinishMeans
  <1>6. CASE KStep \/ (SStep /\ Room(1)) \/ (CopyNode /\ Room(1)) \/ CopyReturns
    <2>1. pc \in Running /\ pc' \in Running /\ roots' = roots /\ base' = base
      BY <1>6 DEF KStep, SStep, CopyNode, CopyReturns, Running
    <2>2. expr' \in Grounded(mem') /\ Follows(TermOf(mem, expr), TermOf(mem', expr'))
      BY <1>1, <1>6, <2>1, KMeans, SMeans, CopyNodeMeans, CopyReturnsMeans
    <2>3. Acyclic' /\ (IsReduction => Calculus!Reduce)
      BY <1>1, <1>2, <2>1, <2>2, OneReduces
    <2> QED
      BY <1>2, <2>3 DEF Calculus!CalculusNext
  <1>7. \/ ConvertStmt /\ ~Room(Len(Statement.code))
        \/ SStep /\ ~Room(1)
        \/ CopyNode /\ ~Room(1)
        \/ Iterate \/ BudgetSpent \/ WalkLeft \/ Arrived \/ RefStep \/ NoRedex \/ AllConverted \/ Terminated
        \/ UNCHANGED vars
        => UNCHANGED <<mem, roots, expr>>
    BY DEF vars, ConvertStmt, AllConverted, Iterate, BudgetSpent, WalkLeft,
           Arrived, SStep, RefStep, NoRedex, CopyNode, Terminated, ArenaFull
  <1> QED
    BY <1>3, <1>4, <1>5, <1>6, <1>7 DEF Next, Step

(* Nothing has been converted yet.                                         *)
LEMMA CalculusBegins == Init => Acyclic /\ Calculus!CalculusInit
  <1> SUFFICES ASSUME Init
               PROVE  Acyclic /\ Calculus!CalculusInit
    OBVIOUS
  <1>1. roots = <<>> /\ expr = NULL /\ mem = <<>>
    BY DEF Init
  <1>2. Roots = {} /\ Current = NULL
    BY <1>1 DEF Roots, Current
  <1>3. Terms = <<>>
    BY <1>1, <1>2 DEF Terms
  <1> QED
    BY <1>2, <1>3 DEF Acyclic, Calculus!CalculusInit

(* As long as no partial application that something else points at is      *)
(* rewritten, no reduction ties the graph into a cycle, whatever the file: *)
(* the trees can be walked, printed and copied to their ends.              *)
THEOREM StaysAcyclic == Spec /\ []~RewritesShared => []Acyclic
  <1>1. Init => Acyclic
    BY CalculusBegins
  <1>2. IInv /\ GInv /\ prog \in Programs /\ [Next]_vars /\ ~RewritesShared /\ Acyclic => Acyclic'
    BY StepMeans
  <1> QED
    BY <1>1, <1>2, Invariance, GraphInvariance, SameProgram, PTL DEF Spec

(* Every step of the reducer, with nodes used again, references in place   *)
(* of copies and copies in place of references, is a step of the calculus  *)
(* on the terms, for any terms and any reduction that has the rules of S   *)
(* and K.                                                                  *)
THEOREM StepsReduce ==
  ASSUME IsReduction
  PROVE  Spec => StepReduces
  <1>1. IInv /\ GInv /\ prog \in Programs /\ [Next]_vars
          => [(~RewritesShared /\ ~RenamesVariable /\ Acyclic)
                => Acyclic' /\ (Calculus!CalculusNext \/ UNCHANGED Terms)]_<<mem, roots, expr>>
    BY StepMeans
  <1> QED
    BY <1>1, Invariance, GraphInvariance, SameProgram, PTL DEF Spec, StepReduces

(* In every run that rewrites no shared partial application and renames no *)
(* variable the reducer implements the SK calculus.                        *)
THEOREM ReducerImplements ==
  ASSUME IsReduction
  PROVE  Spec /\ [](~RewritesShared /\ ~RenamesVariable) => ImplementsCalculus
  <1>1. Init => Calculus!CalculusInit
    BY CalculusBegins
  <1>2. /\ IInv /\ GInv /\ prog \in Programs /\ [Next]_vars /\ Acyclic /\ ~RewritesShared /\ ~RenamesVariable
        => [Calculus!CalculusNext]_<<prog, Terms>>
    BY StepMeans
  <1>3. [](~RewritesShared /\ ~RenamesVariable) => []~RewritesShared
    BY PTL
  <1> QED
    BY <1>1, <1>2, <1>3, Invariance, GraphInvariance, SameProgram, StaysAcyclic, PTL
       DEF Spec, ImplementsCalculus, Calculus!CalculusSpec

-----------------------------------------------------------------------------
(* Where the walk stops there is no application, and where the reducer has *)
(* stopped the spine it looked at last still is one without a rule.        *)
SpineEnds ==
  /\ spine # <<>> /\ spine[1] = expr
  /\ \A k \in 1..depth : mem[spine[k]].type = "APP" /\ spine[k + 1] = mem[spine[k]].left
  /\ mem[leftmost].type \notin {"APP", "REF"} /\ ~KRedex /\ ~SRedex

StopInv ==
  /\ pc = "reduce" => mem[leftmost].type # "APP"
  /\ pc = "finish" => i = MaxBetaReductions \/ SpineEnds

(* Only the end of a walk and the two ways to leave the loop matter here.  *)
LEMMA StopStep ==
  ASSUME IInv, GInv, StopInv, [Next]_vars
  PROVE  StopInv'
  <1>1. CASE Arrived
    BY <1>1 DEF Arrived, StopInv, leftmost
  <1>2. CASE NoRedex
    <2>1. pc = "reduce" /\ mem[leftmost].type \notin {"APP", "REF"} /\ ~KRedex /\ ~SRedex
      BY <1>2 DEF NoRedex, RefHead, StopInv
    <2>2. spine # <<>> /\ spine[1] = expr
      BY <2>1 DEF IInv, SpineOK, GInv, SpineLinked
    <2>3. \A k \in 1..depth : mem[spine[k]].type = "APP" /\ spine[k + 1] = mem[spine[k]].left
      BY <2>1 DEF GInv, SpineLinked, depth
    <2>4. SpineEnds
      BY <2>1, <2>2, <2>3 DEF SpineEnds
    <2>5. SpineEnds' /\ pc' = "finish"
      BY <1>2, <2>4 DEF NoRedex, SpineEnds, depth, leftmost, KRedex, SRedex
    <2> QED
      BY <2>5 DEF StopInv
  <1>3. CASE BudgetSpent
    <2>1. i \in 0..MaxBetaReductions /\ MaxBetaReductions \in Nat
      BY BoundsAssumption DEF IInv, TypeOK
    <2>2. i' = MaxBetaReductions /\ pc' = "finish"
      BY <1>3, <2>1 DEF BudgetSpent
    <2> QED
      BY <2>2 DEF StopInv
  <1>4. CASE UNCHANGED vars
    BY <1>4 DEF vars, StopInv, SpineEnds, depth, leftmost, KRedex, SRedex
  <1>5. CASE ConvertStmt \/ AllConverted \/ FinishStmt \/ Iterate \/ WalkLeft \/ KStep \/ SStep \/ RefStep
             \/ CopyNode \/ CopyReturns
    <2>1. pc' \notin {"reduce", "finish"}
      BY <1>5 DEF ConvertStmt, AllConverted, FinishStmt, Iterate, WalkLeft, KStep, SStep, RefStep,
                  CopyNode, CopyReturns, ArenaFull
    <2> QED
      BY <2>1 DEF StopInv
  <1> QED
    BY <1>1, <1>2, <1>3, <1>4, <1>5 DEF Next, Step, Terminated

(* A spine that ends is all of the left branch.                            *)
LEMMA SpineIsLeft ==
  ASSUME IInv, SpineEnds, NEW a \in LeftSpine(mem, expr)
  PROVE  \E k \in 1..(depth + 1) : a = spine[k]
  <1> DEFINE N == Len(mem)
             d == depth
             E(f, n) == IF n = 0 THEN expr
                        ELSE LET b == f[n - 1] IN IF mem[b].type = "APP" THEN mem[b].left ELSE b
             at(n) == spine[IF n < d THEN n + 1 ELSE d + 1]
             left[n \in 0..N] == E(left, n)
             g == [n \in 0..N |-> at(n)]
  <1>1. N \in Nat /\ d \in Nat /\ Len(spine) = d + 1
    <2>1. spine \in Seq(1..Len(mem)) /\ spine # <<>> /\ mem \in Seq(Node)
      BY DEF IInv, TypeOK, SpineEnds
    <2> QED
      BY <2>1, LenProperties, EmptySeq DEF depth
  <1>2. LeftSpine(mem, expr) = {left[n] : n \in 0..N}
    BY DEF LeftSpine
  <1>3. at(0) = expr
    BY <1>1 DEF SpineEnds
  <1>4. ASSUME NEW n \in 1..N
        PROVE  at(n) = IF mem[at(n - 1)].type = "APP" THEN mem[at(n - 1)].left ELSE at(n - 1)
    <2>1. CASE n <= d
      <3>1. n \in 1..d /\ at(n - 1) = spine[n] /\ at(n) = spine[n + 1]
        BY <1>1, <2>1
      <3> QED
        BY <3>1 DEF SpineEnds
    <2>2. CASE n > d
      <3>1. at(n - 1) = spine[d + 1] /\ at(n) = spine[d + 1] /\ leftmost = spine[d + 1]
        BY <1>1, <2>2 DEF leftmost
      <3> QED
        BY <3>1 DEF SpineEnds
    <2> QED
      BY <1>1, <2>1, <2>2
  <1> HIDE DEF at
  <1>5. \A n \in 0..N : g[n] = E(g, n)
    <2> TAKE n \in 0..N
    <2>1. CASE n = 0
      BY <1>3, <2>1
    <2>2. CASE n # 0
      <3>1. n \in 1..N /\ n - 1 \in 0..N
        BY <1>1, <2>2
      <3>2. g[n] = at(n) /\ g[n - 1] = at(n - 1)
        BY <3>1
      <3> QED
        BY <1>4, <2>2, <3>1, <3>2
    <2> QED
      BY <2>1, <2>2
  <1>6. g = [n \in 0..N |-> E(g, n)]
    BY <1>5
  <1>7. left = CHOOSE f : f = [n \in 0..N |-> E(f, n)]
    OBVIOUS
  <1>8. \E f : f = [n \in 0..N |-> E(f, n)]
    BY <1>6, Zenon
  <1>9. left = [n \in 0..N |-> E(left, n)]
    BY <1>7, <1>8, Zenon
  <1>10. \A n \in 0..N : left[n] = E(left, n)
    BY <1>9
  <1> HIDE DEF left
  <1> DEFINE Z == {n \in 0..N : left[n] = at(n)}
  <1>11. 0 \in Z
    <2>1. 0 \in 0..N
      BY <1>1
    <2> QED
      BY <1>3, <1>10, <2>1
  <1>12. ASSUME NEW n \in 1..N, n - 1 \in Z
         PROVE  n \in Z
    <2>1. n \in 0..N /\ n # 0 /\ left[n - 1] = at(n - 1)
      BY <1>1, <1>12
    <2>2. left[n] = E(left, n)
      BY <1>10, <2>1
    <2> QED
      BY <1>4, <2>1, <2>2
  <1>13. \A n \in 0..N : n \in Z
    <2> HIDE DEF Z, N
    <2> QED
      BY <1>1, <1>11, <1>12, Upward
  <1>14. PICK n \in 0..N : a = left[n]
    BY <1>2
  <1>15. a = at(n)
    BY <1>13, <1>14
  <1> QED
    BY <1>1, <1>15 DEF at

(* A redex or a reference on the left branch would be seen from its end.   *)
LEMMA NoRuleLeft ==
  ASSUME IInv, SpineEnds, NEW a \in LeftSpine(mem, expr)
  PROVE  ~HasRule(mem, a)
  <1>1. PICK k \in 1..(depth + 1) : a = spine[k]
    BY SpineIsLeft
  <1>2. depth \in Nat /\ Len(spine) = depth + 1 /\ leftmost = spine[depth + 1]
    <2>1. spine \in Seq(1..Len(mem)) /\ spine # <<>>
      BY DEF IInv, TypeOK, SpineEnds
    <2> QED
      BY <2>1, LenProperties, EmptySeq DEF depth, leftmost
  <1>3. \A j \in 1..depth : mem[spine[j]].type = "APP" /\ mem[spine[j]].left = spine[j + 1]
    BY DEF SpineEnds
  <1>4. mem[leftmost].type \notin {"APP", "REF"} /\ ~KRedex /\ ~SRedex
    BY DEF SpineEnds
  <1>5. ASSUME NEW j \in 1..(depth + 1), mem[spine[j]].type = "APP"
        PROVE  j \in 1..depth /\ j + 1 \in 1..(depth + 1) /\ mem[spine[j]].left = spine[j + 1]
    <2>1. j # depth + 1
      BY <1>2, <1>4, <1>5
    <2>2. j \in 1..depth /\ j + 1 \in 1..(depth + 1)
      BY <1>2, <2>1
    <2> QED
      BY <1>3, <2>2
  <1>6. ASSUME NEW j \in 1..(depth + 1), mem[spine[j]].type # "APP"
        PROVE  j = depth + 1 /\ spine[j] = leftmost
    <2>1. j \notin 1..depth
      BY <1>3, <1>6
    <2> QED
      BY <1>2, <2>1
  <1>7. mem[a].type # "REF"
    BY <1>1, <1>4, <1>6
  <1>8. ASSUME mem[a].type = "APP", mem[mem[a].left].type = "APP"
        PROVE  LET f == mem[mem[a].left].left
               IN  mem[f].type # "K" /\ ~(mem[f].type = "APP" /\ mem[mem[f].left].type = "S")
    <2> DEFINE f == mem[mem[a].left].left
    <2>1. k \in 1..depth /\ k + 1 \in 1..(depth + 1) /\ mem[a].left = spine[k + 1]
      BY <1>1, <1>5, <1>8
    <2>2. k + 2 \in 1..(depth + 1) /\ f = spine[k + 2]
      BY <1>2, <1>5, <1>8, <2>1
    <2>3. mem[f].type # "K"
      <3> SUFFICES ASSUME mem[f].type = "K"
                   PROVE  FALSE
        OBVIOUS
      <3>1. k + 2 = depth + 1 /\ f = leftmost
        BY <1>6, <2>2
      <3> QED
        BY <1>1, <1>2, <1>4, <3>1 DEF KRedex
    <2>4. ASSUME mem[f].type = "APP", mem[mem[f].left].type = "S"
          PROVE  FALSE
      <3>1. k + 3 \in 1..(depth + 1) /\ mem[f].left = spine[k + 3]
        BY <1>2, <1>5, <2>2, <2>4
      <3>2. k + 3 = depth + 1 /\ mem[f].left = leftmost
        BY <1>6, <2>4, <3>1
      <3> QED
        BY <1>1, <1>2, <1>4, <2>4, <3>2 DEF SRedex
    <2> QED
      BY <2>3, <2>4
  <1> QED
    BY <1>7, <1>8 DEF HasRule

(* The reducer leaves a statement early only where no rule applies at its  *)
(* head, and no reference stands there, whatever was rewritten before.     *)
THEOREM StopsCorrect == Spec => []StopsAtHeadNormal
  <1>1. Init => StopInv
    BY DEF Init, StopInv
  <1>2. IInv /\ GInv /\ StopInv /\ [Next]_vars => StopInv'
    BY StopStep
  <1>3. IInv /\ StopInv => StopsAtHeadNormal
    BY NoRuleLeft DEF StopInv, StopsAtHeadNormal
  <1> QED
    BY <1>1, <1>2, <1>3, Invariance, GraphInvariance, PTL DEF Spec

InArena == Len(mem) <= MaxNodes

(* The arena never holds more nodes than it has room for.                  *)
LEMMA ArenaBound == Spec => []InArena
  <1>1. Init => InArena
    BY BoundsAssumption DEF Init, InArena
  <1>2. IInv /\ GInv /\ prog \in Programs /\ [Next]_vars /\ InArena => InArena'
    <2> SUFFICES ASSUME IInv, GInv, prog \in Programs, [Next]_vars, Len(mem) <= MaxNodes
                 PROVE  Len(mem') <= MaxNodes
      BY DEF InArena
    <2>1. CASE ConvertStmt /\ Room(Len(Statement.code))
      BY <2>1, ConvertMakes DEF Room
    <2>2. CASE KStep \/ CopyReturns
      <3>1. pc \in {"reduce", "copy"} /\ \E d \in 0..depth : \E a \in Nat : Redirect(d, a)
        <4>1. CASE KStep
          <5>1. depth \in Nat /\ mem[spine[depth]].right \in Nat /\ depth >= 2
            <6>1. pc = "reduce" /\ depth >= 2
              BY <4>1 DEF KStep, KRedex
            <6> QED
              BY <6>1, SpineFacts
          <5> QED
            BY <4>1, <5>1 DEF KStep
        <4>2. CASE CopyReturns
          BY <4>2, SpineFacts DEF CopyReturns, IInv, TypeOK
        <4> QED
          BY <2>2, <4>1, <4>2
      <3>2. Len(mem') = Len(mem)
        BY <3>1, RedirectWrites
      <3> QED
        BY <3>2
    <2>3. CASE SStep /\ Room(1)
      BY <2>3, SStepInv DEF Room
    <2>4. CASE CopyNode /\ Room(1)
      BY <2>4, CopyMakes DEF Room
    <2>5. CASE FinishStmt
      BY <2>5 DEF FinishStmt, IInv, TypeOK
    <2>6. CASE UNCHANGED mem
      BY <2>6
    <2> QED
      BY <2>1, <2>2, <2>3, <2>4, <2>5, <2>6
         DEF Next, Step, Terminated, vars, ConvertStmt, AllConverted, Iterate, BudgetSpent, WalkLeft,
             Arrived, SStep, RefStep, NoRedex, CopyNode, ArenaFull
  <1> QED
    BY <1>1, <1>2, Invariance, GraphInvariance, SameProgram, PTL DEF Spec

-----------------------------------------------------------------------------
(* A node that is grounded leads to ones that were grounded a level        *)
(* earlier.                                                                *)
Levels(m, g) ==
  /\ g \in [0..Len(m) -> SUBSET (1..Len(m))] /\ g[0] = {}
  /\ \A n \in 1..Len(m) : g[n] = Settled(m, g[n - 1])

(* The links of a node of a level lead to nodes of the level before.       *)
LEMMA LevelBefore ==
  ASSUME NEW m, Len(m) \in Nat, NEW g, Levels(m, g)
  PROVE  \A n \in 1..Len(m) : \A a \in g[n] : Links(m, a) \subseteq g[n - 1]
  <1> DEFINE N == Len(m)
             Z == {n \in 0..N : n # 0 => \A a \in g[n] : Links(m, a) \subseteq g[n - 1]}
  <1>1. 0 \in Z
    OBVIOUS
  <1>2. ASSUME NEW n \in 1..N, n - 1 \in Z
        PROVE  n \in Z
    <2>1. n \in 0..N /\ n # 0 /\ g[n] = Settled(m, g[n - 1])
      BY DEF Levels
    <2>2. ASSUME NEW a \in g[n]
          PROVE  Links(m, a) \subseteq g[n - 1]
      <3>1. CASE Links(m, a) \subseteq g[n - 1]
        BY <3>1
      <3>2. CASE a \in g[n - 1]
        <4>1. n - 1 # 0
          BY <3>2 DEF Levels
        <4>2. n - 1 \in 1..N
          BY <4>1
        <4>3. Links(m, a) \subseteq g[(n - 1) - 1]
          BY <1>2, <3>2, <4>1
        <4>4. g[n - 1] = Settled(m, g[(n - 1) - 1])
          BY <4>2 DEF Levels
        <4> QED
          BY <4>3, <4>4 DEF Settled
      <3> QED
        BY <2>1, <2>2, <3>1, <3>2 DEF Settled
    <2> QED
      BY <2>1, <2>2
  <1> HIDE DEF Z
  <1>3. \A n \in 0..N : n \in Z
    BY <1>1, <1>2, Upward
  <1> QED
    BY <1>3 DEF Z

(* No walk down an acyclic graph is longer than the graph has nodes.       *)
LEMMA SpineShort ==
  ASSUME IInv, GInv, Acyclic, pc \in {"walk", "reduce", "copy"}
  PROVE  Len(spine) <= Len(mem)
  <1> DEFINE N == Len(mem)
             L == Len(spine)
  <1>1. /\ N \in Nat /\ L \in Nat /\ L >= 1 /\ spine[1] = expr
        /\ \A j \in 1..(L - 1) : mem[spine[j]].type = "APP" /\ spine[j + 1] = mem[spine[j]].left
    <2>1. spine \in Seq(1..Len(mem)) /\ spine # <<>> /\ mem \in Seq(Node)
      BY DEF IInv, TypeOK, SpineOK
    <2> QED
      BY <2>1, LenProperties, EmptySeq DEF GInv, SpineLinked
  <1>2. \A j \in 1..L : spine[j] \in 1..N
    BY <1>1, ElementOfSeq DEF IInv, TypeOK
  <1>3. expr \in Grounded(mem)
    <2>1. expr > base /\ base \in 0..Len(mem)
      BY DEF IInv, StatementOK, TypeOK
    <2> QED
      BY <2>1 DEF Acyclic, Roots
  <1>4. PICK g : Levels(mem, g) /\ Grounded(mem) = g[N]
    BY HeapIs, GroundLevels DEF Levels
  <1> DEFINE Z == {j \in 0..L : j # 0 => \E n \in 0..N : n + j = N + 1 /\ spine[j] \in g[n]}
  <1>5. ASSUME NEW j \in 1..L, j - 1 \in Z
        PROVE  j \in Z
    <2>1. CASE j = 1
      <3>1. N \in 0..N /\ N + 1 = N + 1 /\ spine[1] \in g[N]
        BY <1>1, <1>3, <1>4
      <3> QED
        BY <1>1, <2>1, <3>1
    <2>2. CASE j # 1
      <3>1. PICK h \in 1..(L - 1) : h = j - 1
        BY <1>1, <2>2
      <3>2. PICK n \in 0..N : n + h = N + 1 /\ spine[h] \in g[n]
        BY <1>5, <3>1
      <3>3. n # 0
        BY <1>4, <3>2 DEF Levels
      <3>4. n \in 1..N /\ n - 1 \in 0..N /\ (n - 1) + j = N + 1 /\ h + 1 = j /\ j \in 0..L
        BY <1>1, <3>1, <3>2, <3>3
      <3>5. spine[j] \in Links(mem, spine[h])
        <4>1. mem[spine[h]].type = "APP" /\ spine[j] = mem[spine[h]].left /\ spine[j] # NULL
          BY <1>1, <1>2, <3>4
        <4> QED
          BY <4>1 DEF Links
      <3>6. spine[j] \in g[n - 1]
        BY <1>1, <1>4, <3>2, <3>4, <3>5, LevelBefore
      <3> QED
        BY <3>4, <3>6
    <2> QED
      BY <2>1, <2>2
  <1>6. \A j \in 0..L : j \in Z
    <2>1. 0 \in Z
      BY <1>1
    <2> HIDE DEF Z, L
    <2> QED
      BY <1>1, <1>5, <2>1, Upward
  <1>7. PICK n \in 0..N : n + L = N + 1 /\ spine[L] \in g[n]
    BY <1>1, <1>6
  <1>8. n # 0
    BY <1>4, <1>7 DEF Levels
  <1> QED
    BY <1>1, <1>7, <1>8

(* What a step of the reducer uses up, in this order: statements,          *)
(* iterations, phases of the iteration, and in a walk or a copy the nodes  *)
(* that the spine, or the arena, can still get.                            *)
Phase == CASE pc = "loop" -> 3 [] pc = "walk" -> 2 [] pc = "reduce" -> 1 [] OTHER -> 0

Rank ==
  << IF pc \in Halted THEN 0 ELSE Len(prog) - Len(roots) + 1,
     CASE pc = "convert" -> MaxBetaReductions + 2
       [] pc \in {"finish"} \cup Halted -> 0
       [] OTHER -> MaxBetaReductions - i + 1,
     Phase,
     CASE pc = "walk" -> MaxNodes - Len(spine)
       [] pc = "copy" -> MaxNodes - Len(mem)
       [] OTHER -> 0 >>

Ranks == Nat \X Nat \X Nat \X Nat

Below(r, s) ==
  \/ r[1] < s[1]
  \/ r[1] = s[1] /\ r[2] < s[2]
  \/ r[1] = s[1] /\ r[2] = s[2] /\ r[3] < s[3]
  \/ r[1] = s[1] /\ r[2] = s[2] /\ r[3] = s[3] /\ r[4] < s[4]

(* As long as the graph is acyclic, no number that is left is negative.    *)
LEMMA RankTypes ==
  ASSUME IInv, GInv, InArena, Acyclic
  PROVE  Rank \in Ranks
  <1>1. /\ MaxBetaReductions \in Nat /\ MaxNodes \in Nat /\ i \in 0..MaxBetaReductions
        /\ Len(mem) \in Nat /\ Len(mem) <= MaxNodes /\ Len(spine) \in Nat
    BY BoundsAssumption, LenProperties DEF IInv, TypeOK, InArena
  <1>2. pc = "walk" => Len(spine) <= Len(mem)
    BY SpineShort
  <1>3. pc \notin Halted => Len(prog) - Len(roots) + 1 \in Nat
    BY LenProperties DEF IInv, TypeOK
  <1> QED
    BY <1>1, <1>2, <1>3 DEF Rank, Ranks, Phase

(* Every step but the stuttering of a halted reducer uses up some of it.   *)
LEMMA RankFalls ==
  ASSUME IInv, prog \in Programs, Step
  PROVE  Below(Rank', Rank)
  <1>1. /\ MaxBetaReductions \in Nat /\ MaxNodes \in Nat /\ i \in 0..MaxBetaReductions
        /\ Len(mem) \in Nat /\ Len(spine) \in Nat /\ Len(roots) \in Nat /\ Len(prog) \in Nat
        /\ Len(roots) <= Len(prog) /\ pc \in PCs
    BY BoundsAssumption, ProgramsAssumption, LenProperties DEF IInv, TypeOK
  <1>2. pc \in Halted \/ /\ Rank[1] = Len(prog) - Len(roots) + 1 /\ Rank[1] > 0
    BY <1>1 DEF Rank
  <1>3. pc' \in Halted => Rank'[1] = 0
    BY DEF Rank
  <1>4. pc \notin Halted
    BY DEF Step, ConvertStmt, AllConverted, FinishStmt, Iterate, BudgetSpent, WalkLeft, Arrived, KStep,
           SStep, RefStep, NoRedex, CopyNode, CopyReturns, Halted
  <1>5. CASE pc' \in Halted
    BY <1>2, <1>3, <1>4, <1>5 DEF Below
  <1> DEFINE Same1 == prog' = prog /\ roots' = roots
  <1>6. ASSUME pc' \notin Halted, Same1
        PROVE  Rank'[1] = Rank[1]
    BY <1>4, <1>6 DEF Rank
  <1>7. CASE ConvertStmt /\ pc' \notin Halted
    <2>1. pc = "convert" /\ pc' = "loop" /\ i' = 0 /\ Same1
      BY <1>7 DEF ConvertStmt, ArenaFull, Halted
    <2>2. Rank[2] = MaxBetaReductions + 2 /\ Rank'[2] = MaxBetaReductions - 0 + 1
      BY <2>1 DEF Rank, Halted
    <2> QED
      BY <1>1, <1>6, <1>7, <2>1, <2>2 DEF Below
  <1>8. CASE FinishStmt
    <2>1. pc' = "convert" /\ Len(roots') = Len(roots) + 1 /\ prog' = prog
      BY <1>8, AppendProperties DEF FinishStmt, IInv, TypeOK, StatementOK
    <2>2. Rank'[1] = Len(prog) - (Len(roots) + 1) + 1
      BY <2>1 DEF Rank, Halted
    <2> QED
      BY <1>1, <1>2, <1>4, <2>2 DEF Below
  <1>9. CASE BudgetSpent \/ NoRedex
    <2>1. pc \in {"loop", "reduce"} /\ pc' = "finish" /\ Same1
      BY <1>9 DEF BudgetSpent, NoRedex
    <2>2. Rank[2] = MaxBetaReductions - i + 1 /\ Rank'[2] = 0
      BY <2>1 DEF Rank, Halted
    <2> QED
      BY <1>1, <1>6, <2>1, <2>2 DEF Below, Halted
  <1>10. CASE (KStep \/ SStep \/ CopyReturns) /\ pc' \notin Halted
    <2>1. pc \in {"reduce", "copy"} /\ pc' = "loop" /\ i' = i + 1 /\ Same1
      BY <1>10 DEF KStep, SStep, CopyReturns, ArenaFull, Halted
    <2>2. Rank[2] = MaxBetaReductions - i + 1 /\ Rank'[2] = MaxBetaReductions - (i + 1) + 1
      BY <2>1 DEF Rank, Halted
    <2> QED
      BY <1>1, <1>6, <1>10, <2>1, <2>2 DEF Below
  <1>11. ASSUME pc \in {"loop", "walk", "reduce", "copy"}, pc' \in {"loop", "walk", "reduce", "copy"},
                i' = i, Same1
         PROVE  Rank'[1] = Rank[1] /\ Rank'[2] = Rank[2] /\ Rank'[3] = Phase' /\ Rank[3] = Phase
    <2>1. pc' \notin Halted
      BY <1>11 DEF Halted
    <2>2. Rank[2] = MaxBetaReductions - i + 1 /\ Rank'[2] = MaxBetaReductions - i + 1
      BY <1>11 DEF Rank, Halted
    <2>3. Rank'[3] = Phase' /\ Rank[3] = Phase
      BY DEF Rank
    <2> QED
      BY <1>6, <1>11, <2>1, <2>2, <2>3
  <1>12. CASE (Iterate \/ Arrived \/ RefStep) /\ pc' \notin Halted
    <2>1. /\ \/ pc = "loop" /\ pc' = "walk"
             \/ pc = "walk" /\ pc' = "reduce"
             \/ pc = "reduce" /\ pc' = "copy"
          /\ i' = i /\ Same1
      BY <1>12 DEF Iterate, Arrived, RefStep, Halted
    <2>2. Phase' < Phase
      BY <2>1 DEF Phase
    <2> QED
      BY <1>11, <2>1, <2>2 DEF Below
  <1>13. CASE WalkLeft
    <2>1. pc = "walk" /\ pc' = pc /\ i' = i /\ Same1 /\ Len(spine') = Len(spine) + 1
      <3>1. spine' = Append(spine, mem[leftmost].left) /\ spine \in Seq(1..Len(mem))
        BY <1>13 DEF WalkLeft, IInv, TypeOK
      <3>2. spine' \in Seq((1..Len(mem)) \cup {mem[leftmost].left}) /\ Len(spine') = Len(spine) + 1
        <4>1. spine \in Seq((1..Len(mem)) \cup {mem[leftmost].left})
          BY <3>1, SeqMonotonic
        <4> QED
          BY <3>1, <4>1, AppendProperties
      <3> QED
        BY <1>13, <3>2 DEF WalkLeft
    <2>2. Phase' = Phase /\ Rank[4] = MaxNodes - Len(spine) /\ Rank'[4] = MaxNodes - (Len(spine) + 1)
      BY <2>1 DEF Phase, Rank
    <2> QED
      BY <1>1, <1>11, <2>1, <2>2 DEF Below
  <1>14. CASE CopyNode /\ pc' \notin Halted
    <2>1. Room(1) /\ pc = "copy" /\ pc' = pc /\ i' = i /\ Same1
      BY <1>14 DEF CopyNode, ArenaFull, Halted
    <2>2. Len(mem') = Len(mem) + 1
      BY <1>14, <2>1, CopyMakes
    <2>3. Phase' = Phase /\ Rank[4] = MaxNodes - Len(mem) /\ Rank'[4] = MaxNodes - (Len(mem) + 1)
      BY <2>1, <2>2 DEF Phase, Rank
    <2> QED
      BY <1>1, <1>11, <2>1, <2>3 DEF Below
  <1>15. AllConverted => pc' \in Halted
    BY DEF AllConverted, Halted
  <1> QED
    BY <1>5, <1>7, <1>8, <1>9, <1>10, <1>12, <1>13, <1>14, <1>15 DEF Step

RankBounded == Rank \in Ranks
RankDescends == [][Step => Below(Rank', Rank)]_vars

(* As long as no shared partial application is rewritten the reducer makes *)
(* progress: no walk, no copy and no reduction goes on for ever, because   *)
(* every step takes something from a rank that cannot fall for ever.       *)
THEOREM EveryStepProgresses ==
  Spec /\ []~RewritesShared => []RankBounded /\ RankDescends
  <1>1. IInv /\ GInv /\ InArena /\ Acyclic => RankBounded
    BY RankTypes DEF RankBounded
  <1>2. IInv /\ prog \in Programs /\ [Next]_vars => [Step => Below(Rank', Rank)]_vars
    BY RankFalls
  <1> QED
    BY <1>1, <1>2, Invariance, GraphInvariance, ArenaBound, StaysAcyclic, SameProgram, PTL
       DEF Spec, RankDescends
=============================================================================

------------------------------ MODULE BetaRedu ------------------------------
(***************************************************************************)
(* The reducer of the interpreter: the loop of ast_convert over the        *)
(* statements of a file, skt_beta_redu on each of them, and the functions  *)
(* it calls, _skt_get_leftmost and skt_copy (interpreter.c).               *)
(*                                                                         *)
(* The trees live in one arena, are linked by raw pointers and are         *)
(* rewritten in place, so the model keeps them as the program does: mem is *)
(* the sequence of the SK_Tree nodes allocated so far, an address is an    *)
(* index of mem, NULL is 0.  The loops of the C functions that follow      *)
(* pointers are steps of this machine, so that no definition is recursive. *)
(*                                                                         *)
(* A statement enters as what _ast_expr_convert built for it: its nodes in *)
(* post-order, children by their position, the root last, a REF_NODE       *)
(* carrying the number of the statement its identifier resolves to.        *)
(***************************************************************************)
EXTENDS Naturals, Sequences

CONSTANTS
  Programs,           \* the files: sequences of [var, code] statements
  Idents,             \* identifiers, declared or free
  MaxBetaReductions,  \* MAX_BETA_REDUCTIONS, 500 in interpreter_priv.h
  MaxNodes            \* how many nodes the arena can hold

NULL    == 0
NoIdent == "-"        \* .ld_ident = NULL
Types   == {"S", "K", "APP", "REF", "LD"}
Node    == [type : Types, left : Nat, right : Nat, id : Idents \cup {NoIdent}]

Leaf(t, id)  == [type |-> t, left |-> NULL, right |-> NULL, id |-> id]
RefTo(a)     == [type |-> "REF", left |-> a, right |-> NULL, id |-> NoIdent]

(***************************************************************************)
(* What the converter hands over for statement s of a program with n       *)
(* statements.                                                             *)
(***************************************************************************)
IsCodeNode(x, j, n) ==
  /\ x \in Node
  /\ x.type = "APP" => x.left \in 1..(j - 1) /\ x.right \in 1..(j - 1)
  /\ x.type = "REF" => x.left \in 1..n

IsStatement(s, n) ==
  /\ s.var \in Idents
  /\ s.code \in Seq(Node) /\ s.code # <<>>
  /\ \A j \in 1..Len(s.code) : IsCodeNode(s.code[j], j, n)

ASSUME ProgramsAssumption ==
  \A p \in Programs : /\ DOMAIN p = 1..Len(p) /\ Len(p) \in Nat
                      /\ \A s \in 1..Len(p) : IsStatement(p[s], Len(p))

ASSUME BoundsAssumption ==
  MaxBetaReductions \in Nat /\ MaxNodes \in Nat /\ NoIdent \notin Idents

VARIABLES
  prog,      \* the file being interpreted
  mem,       \* the nodes of the arena
  roots,     \* roots of ast_convert, and stmt->sk_expr, of the finished statements
  base,      \* how many nodes existed when the current statement was converted
  pc,        \* where the control is
  expr,      \* expr of skt_beta_redu
  i,         \* its iteration counter
  spine,     \* the nodes _skt_get_leftmost went through, leftmost last
  todo,      \* the calls of skt_copy still to be made: [src, dst, side]
  copied     \* what the outermost skt_copy returns

vars == <<prog, mem, roots, base, pc, expr, i, spine, todo, copied>>

Halted == {"done", "assert", "full"}
PCs    == {"convert", "loop", "walk", "reduce", "copy", "finish"} \cup Halted

-----------------------------------------------------------------------------
Init ==
  /\ prog \in Programs
  /\ mem = <<>> /\ roots = <<>> /\ base = 0
  /\ pc = "convert"
  /\ expr = NULL /\ i = 0 /\ spine = <<>> /\ todo = <<>> /\ copied = NULL

(* Among the definitions there are some that Next does not use: each is    *)
(* the one after it as a likely mistake would have left it.                *)

(* The arena has room for n more nodes.                                    *)
Room(n) == Len(mem) + n <= MaxNodes

(* skt_copy and the S rule allocate through arena_alloc, whose assertion   *)
(* ends the process when the arena is used up.                             *)
ArenaFull == pc' = "full" /\ UNCHANGED <<prog, mem, roots, base, expr, i, spine, todo, copied>>

-----------------------------------------------------------------------------
(* A node of the converted expression, where it lands in the arena.  A     *)
(* REF_NODE gets the name of its statement and the sk_expr that statement  *)
(* has now: NULL for the current statement and for those that follow.      *)
StoredLate(s) == IF s \in 1..(Len(roots) - 1) THEN roots[s] ELSE NULL
SkExpr(s) == IF s \in DOMAIN roots THEN roots[s] ELSE NULL

RightLeftBehind(x) ==
  CASE x.type = "APP" -> [x EXCEPT !.left = Len(mem) + @]
    [] x.type = "REF" -> [x EXCEPT !.left = SkExpr(@), !.id = prog[x.left].var]
    [] OTHER          -> x

Placed(x) ==
  CASE x.type = "APP" -> [x EXCEPT !.left = Len(mem) + @, !.right = Len(mem) + @]
    [] x.type = "REF" -> [x EXCEPT !.left = SkExpr(@), !.id = prog[x.left].var]
    [] OTHER          -> x

Statement == prog[Len(roots) + 1]

ConvertStmt ==
  /\ pc = "convert" /\ Len(roots) < Len(prog)
  /\ IF Room(Len(Statement.code))
     THEN LET placed == [j \in 1..Len(Statement.code) |-> Placed(Statement.code[j])]
          IN  /\ mem'  = mem \o placed
              /\ base' = Len(mem)
              /\ expr' = Len(mem) + Len(Statement.code)
              /\ i' = 0 /\ pc' = "loop"
              /\ UNCHANGED <<prog, roots, spine, todo, copied>>
     ELSE ArenaFull

AllConverted ==
  /\ pc = "convert" /\ Len(roots) = Len(prog)
  /\ pc' = "done"
  /\ UNCHANGED <<prog, mem, roots, base, expr, i, spine, todo, copied>>

(* The head of the for loop of skt_beta_redu.                              *)
Iterate ==
  /\ pc = "loop" /\ i < MaxBetaReductions
  /\ spine' = <<expr>> /\ pc' = "walk"
  /\ UNCHANGED <<prog, mem, roots, base, expr, i, todo, copied>>

BudgetSpent ==
  /\ pc = "loop" /\ i >= MaxBetaReductions
  /\ pc' = "finish"
  /\ UNCHANGED <<prog, mem, roots, base, expr, i, spine, todo, copied>>

(* _skt_get_leftmost, one iteration of its while.                          *)
leftmost == spine[Len(spine)]
depth    == Len(spine) - 1

WalkLeft ==
  /\ pc = "walk" /\ mem[leftmost].type = "APP"
  /\ spine' = Append(spine, mem[leftmost].left)
  /\ UNCHANGED <<prog, mem, roots, base, pc, expr, i, todo, copied>>

Arrived ==
  /\ pc = "walk" /\ mem[leftmost].type # "APP"
  /\ pc' = "reduce"
  /\ UNCHANGED <<prog, mem, roots, base, expr, i, spine, todo, copied>>

-----------------------------------------------------------------------------
(* The place sub_expr = &expr, moved d times to the left field: expr, or    *)
(* the left field of the d-th node of the spine.                           *)
Redirect(d, a) ==
  IF d = 0 THEN expr' = a /\ mem' = mem
           ELSE expr' = expr /\ mem' = [mem EXCEPT ![spine[d]].left = a]

ThreeForK == mem[leftmost].type = "K" /\ depth >= 3
KRedex == mem[leftmost].type = "K" /\ depth >= 2
SRedex == mem[leftmost].type = "S" /\ depth >= 3
RefHead == mem[leftmost].type = "REF"

(* K x y: the place of the redex now holds x.                              *)
KStep ==
  /\ pc = "reduce" /\ KRedex
  /\ Redirect(depth - 2, mem[spine[depth]].right)
  /\ i' = i + 1 /\ pc' = "loop"
  /\ UNCHANGED <<prog, roots, base, spine, todo, copied>>

(* S x y z, held by the nodes p = (S x), q = (p y) and r = (q z), becomes  *)
(* r = ((p: x z) (q: y ref)), ref a REF_NODE to z: the three nodes are     *)
(* used again and only ref is new.                                         *)
Crossed ==
  /\ pc = "reduce" /\ SRedex /\ Room(1)
  /\ LET r == spine[depth - 2]
         q == spine[depth - 1]
         p == spine[depth]
     IN  mem' = Append([mem EXCEPT
                   ![p].left = mem[p].right, ![p].right = mem[r].right,
                   ![q].left = mem[q].right, ![q].right = Len(mem) + 1,
                   ![r].left = q,            ![r].right = p],
                 RefTo(mem[r].right))
  /\ i' = i + 1 /\ pc' = "loop"
  /\ UNCHANGED <<prog, roots, base, expr, spine, todo, copied>>

SStep ==
  /\ pc = "reduce" /\ SRedex
  /\ IF Room(1)
     THEN LET r == spine[depth - 2]
              q == spine[depth - 1]
              p == spine[depth]
              z == mem[r].right
          IN  /\ mem' = Append([mem EXCEPT
                            ![p].left = mem[p].right, ![p].right = z,
                            ![q].left = mem[q].right, ![q].right = Len(mem) + 1,
                            ![r].left = p,            ![r].right = q],
                          RefTo(z))
              /\ i' = i + 1 /\ pc' = "loop"
              /\ UNCHANGED <<prog, roots, base, expr, spine, todo, copied>>
     ELSE ArenaFull

(* A REF_NODE at the head is replaced by a copy of what it refers to;      *)
(* skt_copy(NULL) is NULL and fails the assertion after the call.          *)
Uncopied ==
  /\ pc = "reduce" /\ RefHead
  /\ IF mem[leftmost].left = NULL
     THEN pc' = "assert" /\ UNCHANGED <<mem, expr, i>>
     ELSE pc' = "loop" /\ i' = i + 1 /\ Redirect(depth, mem[leftmost].left)
  /\ UNCHANGED <<prog, roots, base, spine, todo, copied>>

Uncounted ==
  /\ pc = "reduce" /\ RefHead
  /\ pc' = "loop"
  /\ UNCHANGED <<prog, mem, roots, base, expr, i, spine, todo, copied>>

RefStep ==
  /\ pc = "reduce" /\ RefHead
  /\ IF mem[leftmost].left = NULL
     THEN pc' = "assert" /\ UNCHANGED todo
     ELSE pc' = "copy" /\ todo' = <<[src |-> mem[leftmost].left, dst |-> NULL, side |-> "left"]>>
  /\ UNCHANGED <<prog, mem, roots, base, expr, i, spine, copied>>

(* One call of skt_copy: the node, then its left, then its right; what a   *)
(* REF_NODE refers to is not copied.  The call's result goes where its     *)
(* caller puts it: field side of node dst, or copied for the first.        *)
CopyNode ==
  /\ pc = "copy" /\ todo # <<>>
  /\ IF Room(1)
     THEN LET new  == Len(mem) + 1
              call == Head(todo)
              x    == mem[call.src]
              sub(side, a) == [src |-> a, dst |-> new, side |-> side]
              linked == IF call.dst = NULL THEN mem
                        ELSE IF call.side = "left" THEN [mem EXCEPT ![call.dst].left = new]
                        ELSE [mem EXCEPT ![call.dst].right = new]
          IN  /\ copied' = IF call.dst = NULL THEN new ELSE copied
              /\ CASE x.type = "APP" ->
                        /\ mem'  = Append(linked, Leaf("APP", NoIdent))
                        /\ todo' = <<sub("left", x.left), sub("right", x.right)>> \o Tail(todo)
                   [] x.type = "REF" -> mem' = Append(linked, RefTo(x.left)) /\ todo' = Tail(todo)
                   [] x.type = "LD"  -> mem' = Append(linked, Leaf("LD", x.id)) /\ todo' = Tail(todo)
                   [] x.type \in {"S", "K"} ->
                        mem' = Append(linked, Leaf(x.type, NoIdent)) /\ todo' = Tail(todo)
              /\ UNCHANGED <<prog, roots, base, pc, expr, i, spine>>
     ELSE ArenaFull

CopyReturns ==
  /\ pc = "copy" /\ todo = <<>>
  /\ Redirect(depth, copied)
  /\ i' = i + 1 /\ pc' = "loop"
  /\ UNCHANGED <<prog, roots, base, spine, todo, copied>>

NoRedex ==
  /\ pc = "reduce" /\ ~KRedex /\ ~SRedex /\ ~RefHead
  /\ pc' = "finish"
  /\ UNCHANGED <<prog, mem, roots, base, expr, i, spine, todo, copied>>

-----------------------------------------------------------------------------
(* Back in ast_convert: the root takes the name of its statement, whatever *)
(* it held in ld_ident, and the statement gets its sk_expr.                *)
FinishStmt ==
  /\ pc = "finish"
  /\ mem'   = [mem EXCEPT ![expr].id = Statement.var]
  /\ roots' = Append(roots, expr)
  /\ pc'    = "convert"
  /\ UNCHANGED <<prog, base, expr, i, spine, todo, copied>>

Terminated == pc \in Halted /\ UNCHANGED vars

Step ==
  \/ ConvertStmt \/ AllConverted \/ FinishStmt
  \/ Iterate \/ BudgetSpent \/ WalkLeft \/ Arrived
  \/ KStep \/ SStep \/ RefStep \/ NoRedex
  \/ CopyNode \/ CopyReturns

Next == Step \/ Terminated

Spec     == Init /\ [][Next]_vars
FairSpec == Spec /\ WF_vars(Step)

-----------------------------------------------------------------------------
(* Every variable holds a value of its type.                               *)
TypeOK ==
  /\ mem \in Seq(Node)
  /\ roots \in Seq(1..Len(mem)) /\ Len(roots) <= Len(prog)
  /\ base \in 0..Len(mem)
  /\ pc \in PCs
  /\ expr \in 0..Len(mem)
  /\ i \in 0..MaxBetaReductions
  /\ spine \in Seq(1..Len(mem))
  /\ todo \in Seq([src : 1..Len(mem), dst : 0..Len(mem), side : {"left", "right"}])
  /\ copied \in 0..Len(mem)

(* No expression of the file uses its own statement or a later one.        *)
Closed(p) ==
  \A s \in 1..Len(p) : \A j \in 1..Len(p[s].code) :
    p[s].code[j].type = "REF" => p[s].code[j].left < s

(* A child that skt_copy has still to produce.                             *)
Pending(a, side) == \E t \in 1..Len(todo) : todo[t].dst = a /\ todo[t].side = side

ChildOK(a, b, side) ==
  /\ b \in 0..Len(mem)
  /\ b # NULL \/ Pending(a, side)
  /\ a > base => b = NULL \/ b > base

(* The heap has no dangling pointer: whatever the order of the rewrites    *)
(* and of the copies, both children of an application exist, except those  *)
(* a copy under way has still to fill in; and they belong to the same      *)
(* statement as the application, so that rewriting one statement never     *)
(* reaches into the tree of another, which only references lead to.        *)
HeapOK ==
  \A a \in 1..Len(mem) :
    /\ mem[a].type = "APP" => ChildOK(a, mem[a].left, "left") /\ ChildOK(a, mem[a].right, "right")
    /\ mem[a].type = "REF" => mem[a].left \in 0..Len(mem)

(* References lead somewhere unless the file has a forward one.            *)
RefsOK == Closed(prog) => \A a \in 1..Len(mem) : mem[a].type = "REF" => mem[a].left # NULL

(* A statement is being reduced: it is not one of the finished ones and    *)
(* its root is among the nodes made since it was converted.                *)
StatementOK ==
  /\ pc \in {"loop", "walk", "reduce", "copy", "finish"} => Len(roots) < Len(prog) /\ expr > base
  /\ pc \in {"walk", "reduce", "copy"} => i < MaxBetaReductions

(* The nodes above the leftmost one are applications of this statement.    *)
SpineOK ==
  pc \in {"walk", "reduce", "copy"} =>
    /\ spine # <<>>
    /\ \A k \in 1..Len(spine) : spine[k] > base
    /\ pc # "copy" => \A k \in 1..(Len(spine) - 1) : mem[spine[k]].type = "APP"

(* A copy starts from nodes that existed before it and that are complete,  *)
(* and fills in only nodes of its own: what it reads never changes.        *)
CopyOK ==
  /\ pc \notin {"copy", "full"} => todo = <<>>
  /\ pc = "copy" =>
       \/ Len(todo) = 1 /\ todo[1].dst = NULL
       \/ /\ copied > base
          /\ \A t \in 1..Len(todo) : todo[t].dst >= copied /\ todo[t].src < copied
          /\ \A a \in 1..(copied - 1) :
               mem[a].type = "APP" => mem[a].left < copied /\ mem[a].right < copied

(* The invariant the proofs are by induction on.                           *)
IInv ==
  /\ TypeOK /\ HeapOK /\ RefsOK /\ StatementOK /\ SpineOK /\ CopyOK
  /\ pc = "assert" => ~Closed(prog)

(* The assertion on the copy (interpreter.c:112) fails for no program      *)
(* whose statements only use earlier ones.                                 *)
NoAssertWhenClosed == Closed(prog) => pc # "assert"

(* The statements already reduced stay as they are: no later reduction     *)
(* rewrites a node of theirs, although it starts from references to them.  *)
FinishedFrozen == [][\A a \in 1..base : mem'[a] = mem[a]]_vars

(* Every file is interpreted to the end, or the process is ended by one of *)
(* its assertions: no walk and no copy runs for ever.                      *)
Termination == <>(pc \in Halted)
=============================================================================

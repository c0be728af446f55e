------------------------------ MODULE Checker -------------------------------
(***************************************************************************)
(* The checker: ast_check and _ast_expr_check (interpreter.c) with the     *)
(* stack of bound names (hashtable.c).  The recursion over an expression   *)
(* is a list of what is still to be done, calls of _ast_expr_check and of  *)
(* stack_pop.  The stack holds names and NULL, which starts a frame: names *)
(* are looked for from the top down to the first NULL.                     *)
(*                                                                         *)
(* Every item carries two things the code does not have, for the           *)
(* properties: scope, the names the abstractions around it bind, and owed, *)
(* the pops still to be done from it on.  What the check returns is left   *)
(* out: nobody reads it.                                                   *)
(***************************************************************************)
EXTENDS Expressions, Integers

CONSTANTS
  Names, NULL,
  Exprs,      \* expressions, with all their sub-expressions
  Files,      \* the files to check, sequences of [var, expr]
  SStack,     \* s_stack of stack_create
  Depth(_),   \* the entries the check of an expression adds to the stack
  Plain(_)    \* no application in it has an abstraction for a child

ASSUME ExprsAssumption ==
  \A e \in Exprs :
    \/ e.type = "IDENT" /\ e.var \in Names
    \/ e.type = "ABS" /\ e.expr \in Exprs /\ e.vars \in Seq(Names)
    \/ e.type = "APP" /\ e.left \in Exprs /\ e.right \in Exprs

ASSUME FilesAssumption ==
  /\ NULL \notin Names /\ SStack \in Nat
  /\ \A f \in Files : f \in Seq([var : Names, expr : Exprs])

Marker(e) == IF IsAbs(e) THEN 1 ELSE 0

ASSUME DepthAssumption ==
  \A e \in Exprs :
    /\ Depth(e) \in Nat
    /\ e.type = "ABS" => Depth(e) >= Len(e.vars) + Depth(e.expr)
    /\ e.type = "APP" => /\ Depth(e) >= Marker(e.left) + Depth(e.left)
                         /\ Depth(e) >= Depth(e.right)
                         /\ IsAbs(e.right) => Depth(e) >= Marker(e.left) + Depth(e.right)

ASSUME PlainAssumption ==
  \A e \in Exprs :
    Plain(e) => /\ e.type = "ABS" => Plain(e.expr)
                /\ e.type = "APP" => Plain(e.left) /\ Plain(e.right) /\ ~IsAbs(e.left) /\ ~IsAbs(e.right)

VARIABLES
  file,
  s,        \* how many of its statements were inserted in the table
  work,     \* what is still to be done for the last of them
  stack,
  pc,       \* "statement", "check", "done" or "corrupt"
  seen      \* the identifiers met: [var, stmt, scope, warned]

vars == <<file, s, work, stack, pc, seen>>

Check(e, scope, owed) == [op |-> "check", expr |-> e, scope |-> scope, owed |-> owed]
Pop(owed)             == [op |-> "pop", owed |-> owed]

-----------------------------------------------------------------------------
Init ==
  /\ file \in Files /\ s = 0 /\ work = <<>> /\ stack = <<>> /\ pc = "statement" /\ seen = {}

(* Some definitions are not used by the others: each is the one after it   *)
(* as a likely mistake would have left it.                                 *)

(* The statement is in the table before its expression is looked at.       *)
NextStatement ==
  /\ pc = "statement" /\ s < Len(file)
  /\ s' = s + 1 /\ work' = <<Check(file[s + 1].expr, {}, 0)>> /\ pc' = "check"
  /\ UNCHANGED <<file, stack, seen>>

Checked ==
  /\ pc = "statement" /\ s = Len(file)
  /\ pc' = "done" /\ UNCHANGED <<file, s, work, stack, seen>>

Declared == {file[t].var : t \in 1..s}

(* stack_exists: the frame is what is above the last NULL.                 *)
TopOnly(x)     == stack # <<>> /\ stack[Len(stack)] = x
StackExists(x) ==
  \E j \in 1..Len(stack) : stack[j] = x /\ \A l \in (j + 1)..Len(stack) : stack[l] # NULL

(* A push onto a full stack reallocates it to twice the size, copies top   *)
(* and s_stack from the memory it had before, which is freed if the stack  *)
(* has moved, and keeps the old s_stack: there is room for twice as many   *)
(* entries and no more.                                                    *)
OneEarly(q) ==
  LET n == Len(stack) + Len(q)
  IN  \/ (n <= 2 * SStack \/ q = <<>>) /\ stack' = stack \o q /\ pc' = pc
      \/ (n >= SStack /\ q # <<>>) /\ pc' = "corrupt" /\ UNCHANGED stack

PushAll(q) ==
  LET n == Len(stack) + Len(q)
  IN  \/ (n <= 2 * SStack \/ q = <<>>) /\ stack' = stack \o q /\ pc' = pc
      \/ (n > SStack /\ q # <<>>) /\ pc' = "corrupt" /\ UNCHANGED stack

item == Head(work)
rest == Tail(work)
owed == IF rest = <<>> THEN 0 ELSE Head(rest).owed

NotTaken ==
  /\ pc = "check" /\ work # <<>> /\ item.op = "check" /\ item.expr.type = "IDENT"
  /\ LET x == item.expr.var
     IN  seen' = seen \cup {[var |-> x, stmt |-> s, scope |-> item.scope,
                             warned |-> ~StackExists(x) /\ x \notin Declared]}
  /\ UNCHANGED <<file, s, work, stack, pc>>

CheckIdent ==
  /\ pc = "check" /\ work # <<>> /\ item.op = "check" /\ item.expr.type = "IDENT"
  /\ LET x == item.expr.var
     IN  seen' = seen \cup {[var |-> x, stmt |-> s, scope |-> item.scope,
                             warned |-> ~StackExists(x) /\ x \notin Declared]}
  /\ work' = rest
  /\ UNCHANGED <<file, s, stack, pc>>

Pops(n)   == [j \in 1..n |-> Pop(owed + n + 1 - j)]

CheckAbs ==
  /\ pc = "check" /\ work # <<>> /\ item.op = "check" /\ IsAbs(item.expr)
  /\ LET xs == item.expr.vars
     IN  /\ PushAll(xs)
         /\ work' = <<Check(item.expr.expr, item.scope \cup {xs[j] : j \in 1..Len(xs)}, owed + Len(xs))>>
                      \o Pops(Len(xs)) \o rest
  /\ UNCHANGED <<file, s, seen>>

(* NULL is pushed for an abstraction on the left, and popped before or     *)
(* after the right side; for an abstraction on the right alone there is a  *)
(* pop without a push.                                                     *)
CheckApp ==
  /\ pc = "check" /\ work # <<>> /\ item.op = "check" /\ item.expr.type = "APP"
  /\ LET left  == item.expr.left
         right == item.expr.right
         before == IF IsAbs(left) /\ ~IsAbs(right) THEN Pops(1) ELSE <<>>
         after  == IF IsAbs(right) THEN Pops(1) ELSE <<>>
     IN  /\ PushAll(IF IsAbs(left) THEN <<NULL>> ELSE <<>>)
         /\ work' = <<Check(left, item.scope, owed + Len(before) + Len(after))>> \o before
                      \o <<Check(right, item.scope, owed + Len(after))>> \o after \o rest
  /\ UNCHANGED <<file, s, seen>>

(* stack_pop of an empty stack does nothing; it never shrinks a stack of   *)
(* this s_stack.                                                           *)
PopName ==
  /\ pc = "check" /\ work # <<>> /\ item.op = "pop"
  /\ stack' = IF stack = <<>> THEN stack ELSE SubSeq(stack, 1, Len(stack) - 1)
  /\ work' = rest
  /\ UNCHANGED <<file, s, pc, seen>>

(* stack_clear.                                                            *)
EndStatement ==
  /\ pc = "check" /\ work = <<>>
  /\ stack' = <<>> /\ pc' = "statement"
  /\ UNCHANGED <<file, s, work, seen>>

Step == NextStatement \/ Checked \/ CheckIdent \/ CheckAbs \/ CheckApp \/ PopName \/ EndStatement

Terminated == pc \in {"done", "corrupt"} /\ UNCHANGED vars

Next == Step \/ Terminated

Spec == Init /\ [][Next]_vars

-----------------------------------------------------------------------------
Items ==
  [op : {"check"}, expr : Exprs, scope : SUBSET Names, owed : Nat] \cup [op : {"pop"}, owed : Nat]

(* Every variable holds a value of its type.                               *)
TypeOK ==
  /\ file \in Files /\ s \in 0..Len(file)
  /\ work \in Seq(Items) /\ stack \in Seq(Names \cup {NULL})
  /\ pc \in {"statement", "check", "done", "corrupt"}
  /\ seen \in SUBSET [var : Names, stmt : 1..Len(file), scope : SUBSET Names, warned : BOOLEAN]

DeclaredBy(t) == {file[u].var : u \in 1..t}

(* However frames hide names and pops miss their pushes, the stack never   *)
(* holds a name outside its scope: an identifier that nothing binds and no *)
(* statement so far declares is always warned of.  Where no application    *)
(* has an abstraction for a child, nothing else is warned of.              *)
WarningsRight ==
  \A o \in seen :
    LET known == o.var \in o.scope \cup DeclaredBy(o.stmt)
    IN  (o.warned \/ known) /\ (Plain(file[o.stmt].expr) => ~o.warned \/ ~known)

(* The stack is used beyond its allocation only for expressions that nest  *)
(* deeper than its first size.                                             *)
Fitting         == \A t \in 1..Len(file) : Depth(file[t].expr) <= SStack
FitsWhenShallow == Fitting => pc # "corrupt"

(* The invariant the proofs are by induction on.  An item owes the pops    *)
(* from it on.  So when the turn of a later item x comes the stack is no   *)
(* higher than Height(x): lower only when a pop without a push found it    *)
(* empty, or took what another pop was to take.                            *)
Popping(x) == IF x.op = "pop" THEN 1 ELSE 0
Height(x)  == Len(stack) - (Head(work).owed - x.owed)

(* The items w, in front of others that owe o.                             *)
After(w, j, o) == IF j < Len(w) THEN w[j + 1].owed ELSE o

Owing(w, o) ==
  /\ \A j \in 1..Len(w) : w[j].owed = Popping(w[j]) + After(w, j, o)
  /\ \A j \in 1..Len(w) : w[j].owed >= o /\ \A l \in 1..j : w[j].owed <= w[l].owed

(* What is left on the stack then is bound around x, there is room for all *)
(* that x pushes, and the names around x are still there if the expression *)
(* of the statement is plain.                                              *)
CallOK(x) ==
  /\ \A l \in 1..Len(stack) : l <= Height(x) => stack[l] \in x.scope \cup {NULL}
  /\ Fitting => Height(x) + Depth(x.expr) <= SStack /\ Depth(x.expr) <= SStack
  /\ Plain(file[s].expr) =>
       Plain(x.expr) /\ \A v \in x.scope : \E l \in 1..Len(stack) : l <= x.owed /\ stack[l] = v

(* In a plain expression every pop has its push and no frame begins.       *)
StackOK ==
  Plain(file[s].expr) =>
    /\ Len(stack) = IF work = <<>> THEN 0 ELSE Head(work).owed
    /\ \A l \in 1..Len(stack) : stack[l] # NULL

CheckOK ==
  /\ s >= 1 /\ Owing(work, 0) /\ StackOK
  /\ \A j \in 1..Len(work) : work[j].op = "check" => CallOK(work[j])

IInv ==
  /\ TypeOK /\ WarningsRight /\ FitsWhenShallow
  /\ pc = "statement" => work = <<>> /\ stack = <<>>
  /\ pc = "check" => CheckOK
=============================================================================

------------------------------ MODULE AstPrint ------------------------------
(***************************************************************************)
(* ast_print (interpreter.c): the expressions of the statements as trees.  *)
(* As skt_print does in the module Output, it keeps a list of flags, one   *)
(* for each level down to the node, FALSE where the level has another      *)
(* child to come.  The recursion of _ast_expr_print is the list work of    *)
(* what is to be done.  main calls it after ast_transform, when every      *)
(* abstraction has one variable; it is there for those of more, too.       *)
(***************************************************************************)
EXTENDS Expressions, Integers

CONSTANT Files   \* the files, sequences of [var, expr]

VARIABLES
  file,
  s,      \* how many of its statements were begun
  work,   \* what is still to be done for the last of them
  list,   \* the list of flags
  rows,   \* the rows printed for it: [depth, flags, names], names <<>> for "@"
  pc      \* "print", "done" or "crash"

vars == <<file, s, work, list, rows, pc>>

Visit(e, d) == [op |-> "expr", expr |-> e, depth |-> d]
Flag(b)     == [op |-> "append", flag |-> b]
Unflag      == [op |-> "remove"]

-----------------------------------------------------------------------------
Init ==
  /\ file \in Files /\ s = 0
  /\ work = <<>> /\ list = <<>> /\ rows = <<>> /\ pc = "print"

(* Some definitions are not used by the others: each is the one after it   *)
(* as a likely mistake would have left it.                                 *)

NextStatement ==
  /\ pc = "print" /\ work = <<>> /\ s < Len(file)
  /\ s' = s + 1 /\ list' = <<TRUE>> /\ rows' = <<>>
  /\ work' = <<Visit(file[s + 1].expr, 0)>>
  /\ UNCHANGED <<file, pc>>

Printed ==
  /\ pc = "print" /\ work = <<>> /\ s = Len(file)
  /\ pc' = "done" /\ UNCHANGED <<file, s, work, list, rows>>

Doing(op) == pc = "print" /\ work # <<>> /\ Head(work).op = op

expr == Head(work).expr

NotLast(e, d) ==
  CASE e.type = "APP"   -> <<Flag(FALSE), Visit(e.left, d), Flag(TRUE), Visit(e.right, d), Unflag, Unflag>>
    [] e.type = "ABS"   -> <<Flag(TRUE), Visit(e.expr, d), Unflag>>
    [] e.type = "IDENT" -> <<>>

Children(e, d) ==
  CASE e.type = "APP"   -> <<Flag(FALSE), Visit(e.left, d), Unflag, Flag(TRUE), Visit(e.right, d), Unflag>>
    [] e.type = "ABS"   -> <<Flag(TRUE), Visit(e.expr, d), Unflag>>
    [] e.type = "IDENT" -> <<>>

Shown == IF expr.type = "ABS" THEN expr.vars ELSE IF expr.type = "IDENT" THEN <<expr.var>> ELSE <<>>

(* The flags are walked through without a look for the end of the list.    *)
PrintExpr ==
  /\ Doing("expr")
  /\ LET d == Head(work).depth
     IN  IF Len(list) <= d THEN pc' = "crash" /\ UNCHANGED <<work, rows>>
         ELSE /\ rows' = Append(rows, [depth |-> d, flags |-> SubSeq(list, 1, d + 1),
                                       sym |-> expr.type, names |-> Shown])
              /\ work' = Children(expr, d + 1) \o Tail(work) /\ pc' = pc
  /\ UNCHANGED <<file, s, list>>

PrintAppend ==
  /\ Doing("append")
  /\ list' = Append(list, Head(work).flag) /\ work' = Tail(work)
  /\ UNCHANGED <<file, s, rows, pc>>

PrintRemove ==
  /\ Doing("remove") /\ list # <<>>
  /\ list' = SubSeq(list, 1, Len(list) - 1) /\ work' = Tail(work)
  /\ UNCHANGED <<file, s, rows, pc>>

Stopped == pc # "print" /\ UNCHANGED vars

Step == NextStatement \/ Printed \/ PrintExpr \/ PrintAppend \/ PrintRemove

Next == Step \/ Stopped

Spec == Init /\ [][Next]_vars

-----------------------------------------------------------------------------
(* There is always a flag for every level of the row to be printed, and    *)
(* the lines join: a level has its line in a row exactly when a later row  *)
(* is the second child that line leads to.                                 *)
LinesJoin ==
  /\ pc # "crash"
  /\ work = <<>> =>
       \A r \in 1..Len(rows) : \A j \in 0..rows[r].depth :
         rows[r].flags[j + 1] <=>
           ~\E q \in (r + 1)..Len(rows) :
              rows[q].depth = j /\ \A m \in (r + 1)..q : rows[m].depth >= j
=============================================================================

------------------------------- MODULE Output -------------------------------
(***************************************************************************)
(* What main does with the reduced statements: skt_print shows their trees *)
(* on the terminal, skt_write puts them into the .sk file (interpreter.c). *)
(* Both walk the graph BetaRedu leaves behind.  The recursion of           *)
(* _sk_print_expr and _sk_write_expr is the list work of what is still to  *)
(* be done, with the depth of each call; MaxDepth is how deep the C stack  *)
(* lets them go.                                                           *)
(*                                                                         *)
(* skt_print keeps a list of flags, one for each level above a node and    *)
(* one for the node: FALSE where the level has another child to come and a *)
(* line leads down to it.                                                  *)
(***************************************************************************)
EXTENDS BetaReduTerms

CONSTANT MaxDepth

ASSUME MaxDepthAssumption == MaxDepth \in Nat

VARIABLES
  phase,   \* "reduce", "print", "write" or how the process ended
  k,       \* how many statements were begun in this phase
  work,    \* what is still to be done for the last of them
  list,    \* the list of flags
  rows,    \* the rows printed for it: [depth, flags, sym, id]
  text     \* the tokens written for it

outvars == <<phase, k, work, list, rows, text>>
allvars == <<vars, outvars>>

Visit(a, d) == [op |-> "node", at |-> a, depth |-> d]
Put(t)      == [op |-> "token", token |-> t]
Flag(b, d)  == [op |-> "append", flag |-> b, depth |-> d]
Unflag(d)   == [op |-> "remove", depth |-> d]

Ended == {"end", "crash", "overflow", "assert"}

-----------------------------------------------------------------------------
OutputInit ==
  /\ Init /\ phase = "reduce"
  /\ k = 0 /\ work = <<>> /\ list = <<>> /\ rows = <<>> /\ text = <<>>

Reduce == phase = "reduce" /\ Step /\ UNCHANGED outvars

(* Some definitions are not used by the others: each is the one after it   *)
(* as a likely mistake would have left it.                                 *)

StartPrint ==
  /\ phase = "reduce" /\ pc = "done"
  /\ phase' = "print"
  /\ UNCHANGED <<vars, k, work, list, rows, text>>

PrintRoot ==
  /\ phase = "print" /\ work = <<>> /\ k < Len(roots)
  /\ k' = k + 1 /\ list' = <<TRUE>> /\ rows' = <<>>
  /\ work' = <<Visit(roots[k + 1], 0)>>
  /\ UNCHANGED <<vars, phase, text>>

(* main opens the file and hands it to skt_write, whose assertion fails    *)
(* when it could not be opened.                                            *)
OpenOutput ==
  /\ phase = "print" /\ work = <<>> /\ k = Len(roots)
  /\ phase' \in {"write", "assert"}
  /\ k' = 0 /\ list' = <<>> /\ rows' = <<>>
  /\ UNCHANGED <<vars, work, text>>

SameRoot ==
  /\ phase = "write" /\ work = <<>> /\ k < Len(roots)
  /\ text' = <<mem[roots[k + 1]].id, "=">>
  /\ work' = <<Visit(roots[k + 1], 0), Put(";")>>
  /\ UNCHANGED <<vars, phase, k, list, rows>>

WriteRoot ==
  /\ phase = "write" /\ work = <<>> /\ k < Len(roots)
  /\ k' = k + 1 /\ text' = <<mem[roots[k + 1]].id, "=">>
  /\ work' = <<Visit(roots[k + 1], 0), Put(";")>>
  /\ UNCHANGED <<vars, phase, list, rows>>

CloseOutput ==
  /\ phase = "write" /\ work = <<>> /\ k = Len(roots)
  /\ phase' = "end"
  /\ UNCHANGED <<vars, k, work, list, rows, text>>

-----------------------------------------------------------------------------
At(ph, op) == phase = ph /\ work # <<>> /\ Head(work).op = op

call == Head(work)
node == mem[call.at]

Ends(how) == phase' = how /\ UNCHANGED <<vars, k, work, list, rows, text>>

(* The call cannot go on: an assertion on expr fails, a REF_NODE leads     *)
(* nowhere, or there are fewer flags than levels.                          *)
LeadsNowhere == call.at = NULL \/ (node.type = "REF" /\ node.left = NULL)

Overflow == \E ph \in {"print", "write"} : At(ph, "node") /\ call.depth > MaxDepth /\ Ends("overflow")

Crash ==
  /\ \/ At("write", "node") /\ LeadsNowhere
     \/ At("print", "node") /\ (LeadsNowhere \/ Len(list) <= call.depth)
  /\ call.depth <= MaxDepth
  /\ Ends("crash")

Name(a) == mem[a].id

(* What a REF_NODE leads to is shown only when it has no name.             *)
Shown == IF node.type = "REF" THEN Name(node.left) ELSE node.id

LeftTwice ==
  LET d == call.depth + 1
  IN  CASE node.type = "APP" ->
             <<Flag(FALSE, d), Visit(node.left, d), Unflag(d), Flag(TRUE, d), Visit(node.left, d), Unflag(d)>>
        [] node.type = "REF" /\ Name(node.left) = NoIdent ->
             <<Flag(TRUE, d), Visit(node.left, d), Unflag(d)>>
        [] OTHER -> <<>>

Children ==
  LET d == call.depth + 1
  IN  CASE node.type = "APP" ->
             <<Flag(FALSE, d), Visit(node.left, d), Unflag(d), Flag(TRUE, d), Visit(node.right, d), Unflag(d)>>
        [] node.type = "REF" /\ Name(node.left) = NoIdent ->
             <<Flag(TRUE, d), Visit(node.left, d), Unflag(d)>>
        [] OTHER -> <<>>

PrintNode ==
  /\ At("print", "node") /\ ~LeadsNowhere /\ call.depth < Len(list) /\ call.depth <= MaxDepth
  /\ rows' = Append(rows, [depth |-> call.depth, flags |-> SubSeq(list, 1, call.depth + 1),
                           sym |-> node.type, id |-> Shown])
  /\ work' = Children \o Tail(work)
  /\ UNCHANGED <<vars, phase, k, list, text>>

(* _ident_list_append and _ident_list_remove work on the end of the list.  *)
PrintAppend ==
  /\ At("print", "append")
  /\ list' = Append(list, call.flag) /\ work' = Tail(work)
  /\ UNCHANGED <<vars, phase, k, rows, text>>

PrintRemove ==
  /\ At("print", "remove") /\ list # <<>>
  /\ list' = SubSeq(list, 1, Len(list) - 1) /\ work' = Tail(work)
  /\ UNCHANGED <<vars, phase, k, rows, text>>

(* The right child of an application is in parentheses unless it is S or K.*)
Bare(a)   == a # NULL /\ mem[a].type \in {"S", "K"}
Within(a) == <<Put("("), Visit(a, call.depth + 1), Put(")")>>

Unparenthesized ==
  CASE node.type = "APP" -> <<Visit(node.left, call.depth + 1), Visit(node.right, call.depth + 1)>>
    [] node.type = "REF" ->
         <<Put("&")>> \o (IF Name(node.left) # NoIdent THEN <<Put(Name(node.left))>> ELSE Within(node.left))
    [] node.type = "LD"  -> <<Put(node.id)>>
    [] OTHER             -> <<Put(node.type)>>

Itself ==
  CASE node.type = "APP" ->
         <<Visit(node.left, call.depth + 1)>>
           \o (IF Bare(node.right) THEN <<Visit(node.right, call.depth + 1)>> ELSE Within(node.right))
    [] node.type = "REF" ->
         <<Put("&")>> \o (IF Name(node.left) # NoIdent THEN <<Put(Name(node.left))>> ELSE Within(call.at))
    [] node.type = "LD"  -> <<Put(node.id)>>
    [] OTHER             -> <<Put(node.type)>>

Written ==
  CASE node.type = "APP" ->
         <<Visit(node.left, call.depth + 1)>>
           \o (IF Bare(node.right) THEN <<Visit(node.right, call.depth + 1)>> ELSE Within(node.right))
    [] node.type = "REF" ->
         <<Put("&")>> \o (IF Name(node.left) # NoIdent THEN <<Put(Name(node.left))>> ELSE Within(node.left))
    [] node.type = "LD"  -> <<Put(node.id)>>
    [] OTHER             -> <<Put(node.type)>>

WriteNode ==
  /\ At("write", "node") /\ ~LeadsNowhere /\ call.depth <= MaxDepth
  /\ work' = Written \o Tail(work)
  /\ UNCHANGED <<vars, phase, k, list, rows, text>>

WriteToken ==
  /\ At("write", "token")
  /\ text' = Append(text, call.token) /\ work' = Tail(work)
  /\ UNCHANGED <<vars, phase, k, list, rows>>

OutputStep ==
  \/ Reduce \/ StartPrint \/ PrintRoot \/ PrintNode \/ PrintAppend \/ PrintRemove
  \/ OpenOutput \/ WriteRoot \/ WriteNode \/ WriteToken \/ CloseOutput
  \/ Crash \/ Overflow

OutputTerminated == (phase \in Ended \/ pc \in Halted \ {"done"}) /\ UNCHANGED allvars

OutputNext == OutputStep \/ OutputTerminated

OutputSpec     == OutputInit /\ [][OutputNext]_allvars
FairOutputSpec == OutputSpec /\ WF_allvars(OutputStep)

-----------------------------------------------------------------------------
Nodes == 1..Len(mem)

Tokens == Idents \cup {NoIdent} \cup Types \cup {"&", "(", ")", ";"}

Items ==
  [op : {"node"}, at : Nodes, depth : Nat] \cup [op : {"token"}, token : Tokens]
    \cup [op : {"append"}, flag : BOOLEAN, depth : Nat] \cup [op : {"remove"}, depth : Nat]

(* The entries of the list before and after the step for an item.          *)
Before(it) == IF it.op = "append" THEN it.depth ELSE it.depth + 1
After(it)  == IF it.op = "remove" THEN it.depth ELSE it.depth + 1

(* The list of flags always has one entry for each level above the node to *)
(* be printed and one for the node, whatever was printed before: the loop  *)
(* that draws the lines never runs past its end.                           *)
ListOK ==
  phase = "print" =>
    /\ \A j \in 1..Len(work) : work[j].op # "token"
    /\ work # <<>> => Len(list) = Before(work[1])
    /\ \A j \in 1..(Len(work) - 1) : After(work[j]) = Before(work[j + 1])

(* Types, and what the graph is like once the statements are reduced: the  *)
(* calls still to be made are for nodes that exist.                        *)
OutputOK ==
  /\ phase \in {"reduce", "print", "write"} \cup Ended
  /\ k \in 0..Len(roots) /\ list \in Seq(BOOLEAN)
  /\ work \in Seq(Items)
  /\ phase # "reduce" => pc = "done"
  /\ phase = "reduce" => work = <<>> /\ k = 0

OutputInv == IInv /\ OutputOK /\ ListOK /\ (phase = "crash" => ~Closed(prog))

(* Neither of the walks follows a NULL or runs out of flags, unless the    *)
(* file has a statement that uses itself or a later one: printing and      *)
(* writing dereference what a REF_NODE leads to without a check.           *)
NoCrashWhenClosed == Closed(prog) => phase # "crash"

(* Printing and writing run out of stack only in a statement whose graph   *)
(* has become cyclic, which it does by a shared partial application being  *)
(* rewritten: nothing else is too deep.                                    *)
OverflowOnlyCyclic == phase = "overflow" => roots[k] \notin Grounded(mem)

(* The lines are drawn right: a level has its line in a row exactly when a *)
(* later row is the second child that line leads to.                       *)
LinesJoin ==
  (phase = "print" /\ work = <<>>) =>
    \A r \in 1..Len(rows) : \A j \in 0..rows[r].depth :
      rows[r].flags[j + 1] <=>
        ~\E q \in (r + 1)..Len(rows) :
           rows[q].depth = j /\ \A m \in (r + 1)..q : rows[m].depth >= j

(* Every statement that is reduced is printed and written, and the file is *)
(* closed.  What may keep main from it is the reducer, the output file,    *)
(* which cannot be opened after all trees were printed, a statement that   *)
(* uses itself or a later one, and one whose graph has become cyclic:      *)
(* nothing else.                                                           *)
Unopened == phase = "assert" /\ k = 0 /\ work = <<>>
Excused  == (phase = "crash" /\ ~Closed(prog)) \/ (phase = "overflow" /\ roots[k] \notin Grounded(mem))

OutputEnds == <>(pc \in Halted \ {"done"} \/ phase = "end" \/ Unopened \/ Excused)
=============================================================================

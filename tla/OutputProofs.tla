---------------------------- MODULE OutputProofs ----------------------------
(***************************************************************************)
(* What is true of printing and writing for every file and every graph     *)
(* that the reducer leaves behind.                                         *)
(***************************************************************************)
EXTENDS Output, BetaReduProofs

USE DEF NULL

(* Items that follow each other, from a list of n flags on.                *)
Linked(q, n) ==
  /\ q # <<>> => Before(q[1]) = n
  /\ \A j \in 1..(Len(q) - 1) : After(q[j]) = Before(q[j + 1])

NoTokens(q) == \A j \in 1..Len(q) : q[j].op # "token"

(* The condition on the list of flags, in the two parts the steps keep.    *)
LEMMA ListIs == ListOK <=> (phase = "print" => NoTokens(work) /\ Linked(work, Len(list)))
  BY DEF ListOK, Linked, NoTokens

(* The same, after a step.                                                 *)
LEMMA ListNext == ListOK' <=> (phase' = "print" => NoTokens(work') /\ Linked(work', Len(list')))
  BY DEF ListOK, Linked, NoTokens

(* The first item is done.                                                 *)
LEMMA RestLinked ==
  ASSUME NEW T, NEW q \in Seq(T), q # <<>>, NEW n, Linked(q, n), NoTokens(q)
  PROVE  Before(q[1]) = n /\ Linked(Tail(q), After(q[1])) /\ NoTokens(Tail(q))
  <1>1. /\ Tail(q) \in Seq(T) /\ Len(Tail(q)) = Len(q) - 1 /\ Len(q) \in Nat /\ Len(q) # 0
        /\ \A j \in 1..Len(Tail(q)) : Tail(q)[j] = q[j + 1]
    BY Pop
  <1>2. Tail(q) # <<>> => 1 \in 1..Len(Tail(q))
    BY <1>1
  <1> QED
    BY <1>1, <1>2 DEF Linked, NoTokens

(* The last of the flags is removed.                                       *)
LEMMA Shorten ==
  ASSUME NEW T, NEW s \in Seq(T), s # <<>>, NEW u, u = SubSeq(s, 1, Len(s) - 1)
  PROVE  u \in Seq(T) /\ Len(u) = Len(s) - 1
  <1>1. Len(s) \in Nat \ {0}
    BY EmptySeq
  <1>2. \A j \in 1..(Len(s) - 1) : s[j] \in T
    BY <1>1
  <1>3. PICK n \in Int : n = Len(s) - 1
    BY <1>1
  <1>4. \A j \in 1..n : s[j] \in T
    BY <1>2, <1>3
  <1>5. SubSeq(s, 1, n) \in Seq(T) /\ Len(SubSeq(s, 1, n)) = IF 1 <= n THEN n - 1 + 1 ELSE 0
    BY <1>4, SubSeqProperties
  <1> QED
    BY <1>1, <1>3, <1>5

(* Other items are put in front.                                           *)
LEMMA FrontLinked ==
  ASSUME NEW T, NEW p \in Seq(T), p # <<>>, NEW q \in Seq(T), NEW n,
         Linked(p, n), NoTokens(p), Linked(q, After(p[Len(p)])), NoTokens(q)
  PROVE  Linked(p \o q, n) /\ NoTokens(p \o q)
  <1>1. /\ p \o q \in Seq(T) /\ Len(p \o q) = Len(p) + Len(q) /\ Len(p) \in Nat /\ Len(q) \in Nat
        /\ Len(p) # 0 /\ (Len(q) # 0 => q # <<>>)
        /\ \A j \in 1..(Len(p) + Len(q)) : (p \o q)[j] = IF j <= Len(p) THEN p[j] ELSE q[j - Len(p)]
    BY ConcatProperties, LenProperties, EmptySeq
  <1>2. NoTokens(p \o q)
    BY <1>1 DEF NoTokens
  <1>3. Before((p \o q)[1]) = n
    BY <1>1 DEF Linked
  <1>4. ASSUME NEW j \in 1..(Len(p \o q) - 1)
        PROVE  After((p \o q)[j]) = Before((p \o q)[j + 1])
    <2>1. CASE j < Len(p)
      <3>1. (p \o q)[j] = p[j] /\ (p \o q)[j + 1] = p[j + 1] /\ j \in 1..(Len(p) - 1)
        BY <1>1, <2>1
      <3> QED
        BY <3>1 DEF Linked
    <2>2. CASE j = Len(p)
      <3>1. (p \o q)[j] = p[Len(p)] /\ (p \o q)[j + 1] = q[1] /\ q # <<>>
        BY <1>1, <2>2
      <3> QED
        BY <3>1 DEF Linked
    <2>3. CASE j > Len(p)
      <3>1. (p \o q)[j] = q[j - Len(p)] /\ (p \o q)[j + 1] = q[(j - Len(p)) + 1] /\ j - Len(p) \in 1..(Len(q) - 1)
        BY <1>1, <2>3
      <3> QED
        BY <3>1 DEF Linked
    <2> QED
      BY <1>1, <2>1, <2>2, <2>3
  <1> QED
    BY <1>2, <1>3, <1>4 DEF Linked

-----------------------------------------------------------------------------
(* The items.                                                              *)
LEMMA ItemTypes ==
  /\ \A a \in Nodes : \A d \in Nat : Visit(a, d) \in Items
  /\ \A t \in Tokens : Put(t) \in Items
  /\ \A b \in BOOLEAN : \A d \in Nat : Flag(b, d) \in Items
  /\ \A d \in Nat : Unflag(d) \in Items
  BY DEF Visit, Put, Flag, Unflag, Items

(* How long the list is before and after each item of the printer.         *)
LEMMA ItemSteps ==
  /\ \A a, d : Before(Visit(a, d)) = d + 1 /\ After(Visit(a, d)) = d + 1 /\ Visit(a, d).op # "token"
  /\ \A b, d : Before(Flag(b, d)) = d /\ After(Flag(b, d)) = d + 1 /\ Flag(b, d).op # "token"
  /\ \A d : Before(Unflag(d)) = d + 1 /\ After(Unflag(d)) = d /\ Unflag(d).op # "token"
  BY DEF Visit, Flag, Unflag, Before, After

(* The graph that the reducer leaves: the children of applications exist,  *)
(* and what references lead to, unless the file has a forward one.         *)
LEMMA GraphDone ==
  ASSUME IInv, pc = "done", NEW a \in Nodes
  PROVE  /\ mem[a] \in Node /\ mem[a].type \in Types /\ mem[a].id \in Idents \cup {NoIdent}
         /\ mem[a].type = "APP" => mem[a].left \in Nodes /\ mem[a].right \in Nodes
         /\ mem[a].type = "REF" => mem[a].left \in Nodes \/ (mem[a].left = NULL /\ ~Closed(prog))
  <1>1. mem \in Seq(Node) /\ Len(mem) \in Nat /\ a \in 1..Len(mem)
    BY LenProperties DEF IInv, TypeOK, Nodes
  <1>2. mem[a] \in Node
    BY <1>1
  <1>3. \A side : ~Pending(a, side)
    <2>1. todo = <<>>
      BY DEF IInv, CopyOK
    <2> QED
      BY <2>1 DEF Pending
  <1>4. ASSUME mem[a].type = "APP"
        PROVE  mem[a].left \in Nodes /\ mem[a].right \in Nodes
    <2>1. ChildOK(a, mem[a].left, "left") /\ ChildOK(a, mem[a].right, "right")
      BY <1>1, <1>4 DEF IInv, HeapOK
    <2> QED
      BY <1>1, <1>3, <2>1 DEF ChildOK, Nodes
  <1>5. ASSUME mem[a].type = "REF"
        PROVE  mem[a].left \in Nodes \/ (mem[a].left = NULL /\ ~Closed(prog))
    <2>1. mem[a].left \in 0..Len(mem)
      BY <1>1, <1>5 DEF IInv, HeapOK
    <2>2. Closed(prog) => mem[a].left # NULL
      BY <1>1, <1>5 DEF IInv, RefsOK
    <2> QED
      BY <1>1, <2>1, <2>2 DEF Nodes
  <1> QED
    BY <1>2, <1>4, <1>5 DEF Node

-----------------------------------------------------------------------------
(* What the first item says of the node to be shown.                       *)
LEMMA FirstItem ==
  ASSUME OutputOK, work # <<>>
  PROVE  /\ Head(work) = work[1] /\ work[1] \in Items /\ Tail(work) \in Seq(Items)
         /\ work[1].op = "node" => work[1].at \in Nodes /\ work[1].depth \in Nat
         /\ work[1].op = "append" => work[1].flag \in BOOLEAN /\ work[1].depth \in Nat
         /\ work[1].op = "remove" => work[1].depth \in Nat
  <1>1. work \in Seq(Items)
    BY DEF OutputOK
  <1>2. /\ Head(work) = work[1] /\ work[1] \in Items /\ Tail(work) \in Seq(Items)
    BY <1>1, Pop
  <1> QED
    BY <1>2 DEF Items

(* Calls put in place of the one that makes them.                          *)
LEMMA Two ==
  ASSUME NEW T, NEW x \in T, NEW y \in T, NEW p, p = <<x, y>>
  PROVE  p \in Seq(T) /\ p # <<>> /\ Len(p) = 2 /\ p[1] = x /\ p[2] = y
  OBVIOUS

(* Three items.                                                            *)
LEMMA Three ==
  ASSUME NEW T, NEW x \in T, NEW y \in T, NEW z \in T, NEW p, p = <<x, y, z>>
  PROVE  p \in Seq(T) /\ p # <<>> /\ Len(p) = 3 /\ p[1] = x /\ p[2] = y /\ p[3] = z
  OBVIOUS

(* Six items.                                                              *)
LEMMA Six ==
  ASSUME NEW T, NEW x \in T, NEW y \in T, NEW z \in T, NEW u \in T, NEW v \in T, NEW w \in T,
         NEW p, p = <<x, y, z, u, v, w>>
  PROVE  /\ p \in Seq(T) /\ p # <<>> /\ Len(p) = 6
         /\ p[1] = x /\ p[2] = y /\ p[3] = z /\ p[4] = u /\ p[5] = v /\ p[6] = w
  OBVIOUS

(* The two children of an application, and the one of a reference.         *)
Both(a, b, d) == <<Flag(FALSE, d), Visit(a, d), Unflag(d), Flag(TRUE, d), Visit(b, d), Unflag(d)>>
Only(a, d)    == <<Flag(TRUE, d), Visit(a, d), Unflag(d)>>

(* The items for an application leave the list as long as they found it.   *)
LEMMA BothChildren ==
  ASSUME NEW a \in Nodes, NEW b \in Nodes, NEW d \in Nat, NEW p, p = Both(a, b, d)
  PROVE  /\ p \in Seq(Items) /\ p # <<>> /\ Len(p) = 6
         /\ Linked(p, d) /\ NoTokens(p) /\ After(p[Len(p)]) = d
  <1>1. PICK e \in Items : e = Flag(FALSE, d)
    BY ItemTypes
  <1>2. PICK f \in Items : f = Visit(a, d)
    BY ItemTypes
  <1>3. PICK g \in Items : g = Unflag(d)
    BY ItemTypes
  <1>4. PICK h \in Items : h = Flag(TRUE, d)
    BY ItemTypes
  <1>5. PICK l \in Items : l = Visit(b, d)
    BY ItemTypes
  <1>6. /\ p \in Seq(Items) /\ p # <<>> /\ Len(p) = 6
        /\ p[1] = e /\ p[2] = f /\ p[3] = g /\ p[4] = h /\ p[5] = l /\ p[6] = g
    <2>1. p = <<e, f, g, h, l, g>>
      BY <1>1, <1>2, <1>3, <1>4, <1>5 DEF Both
    <2> QED
      BY <2>1, Six
  <1>7. /\ Before(e) = d /\ After(e) = d + 1 /\ e.op # "token"
        /\ Before(f) = d + 1 /\ After(f) = d + 1 /\ f.op # "token"
        /\ Before(g) = d + 1 /\ After(g) = d /\ g.op # "token"
        /\ Before(h) = d /\ After(h) = d + 1 /\ h.op # "token"
        /\ Before(l) = d + 1 /\ After(l) = d + 1 /\ l.op # "token"
    BY <1>1, <1>2, <1>3, <1>4, <1>5, ItemSteps
  <1>8. NoTokens(p)
    BY <1>6, <1>7 DEF NoTokens
  <1>9. ASSUME NEW j \in 1..(Len(p) - 1) PROVE After(p[j]) = Before(p[j + 1])
    <2>1. j = 1 \/ j = 2 \/ j = 3 \/ j = 4 \/ j = 5
      BY <1>6
    <2> QED
      BY <1>6, <1>7, <2>1
  <1> QED
    BY <1>6, <1>7, <1>8, <1>9 DEF Linked

(* So do the items for a reference.                                        *)
LEMMA OneChild ==
  ASSUME NEW a \in Nodes, NEW d \in Nat, NEW p, p = Only(a, d)
  PROVE  /\ p \in Seq(Items) /\ p # <<>> /\ Len(p) = 3
         /\ Linked(p, d) /\ NoTokens(p) /\ After(p[Len(p)]) = d
  <1>1. PICK e \in Items : e = Flag(TRUE, d)
    BY ItemTypes
  <1>2. PICK f \in Items : f = Visit(a, d)
    BY ItemTypes
  <1>3. PICK g \in Items : g = Unflag(d)
    BY ItemTypes
  <1>4. p \in Seq(Items) /\ p # <<>> /\ Len(p) = 3 /\ p[1] = e /\ p[2] = f /\ p[3] = g
    <2>1. p = <<e, f, g>>
      BY <1>1, <1>2, <1>3 DEF Only
    <2> QED
      BY <2>1, Three
  <1>5. /\ Before(e) = d /\ After(e) = d + 1 /\ e.op # "token"
        /\ Before(f) = d + 1 /\ After(f) = d + 1 /\ f.op # "token"
        /\ Before(g) = d + 1 /\ After(g) = d /\ g.op # "token"
    BY <1>1, <1>2, <1>3, ItemSteps
  <1>6. NoTokens(p)
    BY <1>4, <1>5 DEF NoTokens
  <1>7. ASSUME NEW j \in 1..(Len(p) - 1) PROVE After(p[j]) = Before(p[j + 1])
    <2>1. j = 1 \/ j = 2
      BY <1>4
    <2> QED
      BY <1>4, <1>5, <2>1
  <1> QED
    BY <1>4, <1>5, <1>6, <1>7 DEF Linked

-----------------------------------------------------------------------------
(* Printing and writing leave the graph alone.                             *)
LEMMA GraphSame ==
  ASSUME IInv, prog \in Programs, UNCHANGED vars
  PROVE  /\ IInv' /\ Items' = Items /\ Nodes' = Nodes /\ roots' = roots /\ pc' = pc
         /\ Closed(prog)' <=> Closed(prog)
  <1>1. IInv'
    BY StepInv
  <1>2. mem' = mem /\ prog' = prog /\ roots' = roots /\ pc' = pc
    BY DEF vars
  <1> QED
    BY <1>1, <1>2 DEF Items, Nodes, Closed

(* Nothing has been printed yet.                                           *)
LEMMA OutputInitial == OutputInit => OutputInv
  <1> SUFFICES ASSUME OutputInit PROVE OutputInv
    OBVIOUS
  <1>1. IInv
    BY InitInv DEF OutputInit
  <1>2. OutputOK
    BY DEF OutputInit, Init, OutputOK
  <1> QED
    BY <1>1, <1>2 DEF OutputInit, OutputInv, ListOK

(* While the reducer works the printer waits.                              *)
LEMMA ReduceInv ==
  ASSUME OutputInv, prog \in Programs, Reduce
  PROVE  OutputInv'
  <1>1. IInv'
    BY StepInv DEF OutputInv, Reduce, Next
  <1>2. /\ phase = "reduce" /\ phase' = phase /\ k' = k /\ work' = work /\ list' = list
        /\ work = <<>> /\ k = 0 /\ list \in Seq(BOOLEAN)
    BY DEF OutputInv, OutputOK, Reduce, outvars
  <1>3. Len(roots') \in Nat
    BY <1>1, LenProperties DEF IInv, TypeOK
  <1>4. OutputOK'
    BY <1>2, <1>3 DEF OutputOK
  <1> QED
    BY <1>1, <1>2, <1>4 DEF OutputInv, ListOK

(* The steps between the statements and the phases.                        *)
LEMMA BetweenInv ==
  ASSUME OutputInv, prog \in Programs,
         StartPrint \/ OpenOutput \/ CloseOutput \/ Overflow \/ UNCHANGED allvars
  PROVE  OutputInv'
  <1>2. UNCHANGED vars /\ work' = work /\ (list' = list \/ list' = <<>>)
    BY DEF StartPrint, OpenOutput, CloseOutput, Overflow, Ends, allvars, outvars
  <1>3. /\ IInv' /\ Items' = Items /\ roots' = roots /\ pc' = pc
        /\ Closed(prog)' <=> Closed(prog)
    BY <1>2, GraphSame DEF OutputInv
  <1>4. Len(roots) \in Nat
    BY LenProperties DEF OutputInv, IInv, TypeOK
  <1>5. k' \in 0..Len(roots)
    <2>1. k' = k \/ k' = 0
      BY DEF StartPrint, OpenOutput, CloseOutput, Overflow, Ends, allvars, outvars
    <2> QED
      BY <1>4, <2>1 DEF OutputInv, OutputOK
  <1>6. /\ phase' \in {"reduce", "print", "write"} \cup Ended
        /\ phase' = "reduce" => phase = "reduce" /\ work' = <<>> /\ k' = 0
        /\ phase' # "reduce" => pc = "done"
        /\ phase' = "print" => work' = <<>> \/ (phase = "print" /\ list' = list)
        /\ phase' = "crash" => phase = "crash"
    BY DEF OutputInv, OutputOK, StartPrint, OpenOutput, CloseOutput, Overflow, Ends, Ended, At, allvars, outvars
  <1>7. OutputOK'
    <2>1. work \in Seq(Items) /\ list \in Seq(BOOLEAN) /\ <<>> \in Seq(BOOLEAN)
      BY DEF OutputInv, OutputOK
    <2>2. work' \in Seq(Items)' /\ list' \in Seq(BOOLEAN)
      BY <1>2, <1>3, <2>1
    <2>3. k' \in 0..Len(roots')
      BY <1>3, <1>5
    <2> QED
      BY <1>3, <1>6, <2>2, <2>3 DEF OutputOK
  <1>8. ListOK'
    BY <1>2, <1>6 DEF OutputInv, ListOK
  <1> QED
    BY <1>3, <1>6, <1>7, <1>8 DEF OutputInv

(* A statement is begun.                                                   *)
LEMMA RootInv ==
  ASSUME OutputInv, prog \in Programs, PrintRoot \/ WriteRoot
  PROVE  OutputInv'
  <1>1. UNCHANGED vars /\ phase' = phase /\ phase # "reduce" /\ phase # "crash" /\ k < Len(roots) /\ k' = k + 1
    BY DEF PrintRoot, WriteRoot
  <1>2. /\ IInv' /\ Items' = Items /\ roots' = roots /\ pc' = pc
    BY <1>1, GraphSame DEF OutputInv
  <1>3. Len(roots) \in Nat /\ k \in 0..Len(roots) /\ roots \in Seq(Nodes)
    BY LenProperties DEF OutputInv, OutputOK, IInv, TypeOK, Nodes
  <1>4. k' \in 0..Len(roots) /\ roots[k + 1] \in Nodes
    BY <1>1, <1>3
  <1>5. Visit(roots[k + 1], 0) \in Items /\ Put(";") \in Items
    <2>1. 0 \in Nat /\ ";" \in Tokens
      BY DEF Tokens
    <2> QED
      BY <1>4, <2>1, ItemTypes
  <1>6. work' \in Seq(Items) /\ list' \in Seq(BOOLEAN)
    <2>1. CASE PrintRoot
      <3>1. work' = <<Visit(roots[k + 1], 0)>> /\ list' = <<TRUE>>
        BY <2>1 DEF PrintRoot
      <3> QED
        BY <1>5, <3>1, Single
    <2>2. CASE WriteRoot
      <3>1. work' = <<Visit(roots[k + 1], 0), Put(";")>> /\ list' = list /\ list \in Seq(BOOLEAN)
        BY <2>2 DEF WriteRoot, OutputInv, OutputOK
      <3>2. PICK e \in Items, f \in Items : e = Visit(roots[k + 1], 0) /\ f = Put(";")
        BY <1>5
      <3>3. <<e, f>> \in Seq(Items)
        OBVIOUS
      <3> QED
        BY <3>1, <3>2, <3>3
    <2> QED
      BY <2>1, <2>2
  <1>7. OutputOK'
    BY <1>1, <1>2, <1>4, <1>6 DEF OutputInv, OutputOK
  <1>8. ListOK'
    <2>1. CASE PrintRoot
      <3>1. Len(list') = 1 /\ Len(work') = 1 /\ work'[1] = Visit(roots[k + 1], 0) /\ work' # <<>>
        BY <2>1 DEF PrintRoot
      <3>2. NoTokens(work') /\ Linked(work', 1)
        BY <3>1, ItemSteps DEF NoTokens, Linked
      <3> QED
        BY <3>1, <3>2, ListNext
    <2>2. CASE WriteRoot
      BY <2>2 DEF WriteRoot, ListOK
    <2> QED
      BY <2>1, <2>2
  <1> QED
    BY <1>1, <1>2, <1>7, <1>8 DEF OutputInv

(* A row is printed, and the calls for the children come first.            *)
LEMMA PrintNodeInv ==
  ASSUME OutputInv, prog \in Programs, PrintNode
  PROVE  OutputInv'
  <1>1. /\ UNCHANGED vars /\ phase = "print" /\ phase' = "print" /\ k' = k /\ list' = list
        /\ work # <<>> /\ work' = Children \o Tail(work)
        /\ Head(work).op = "node" /\ ~LeadsNowhere
    BY DEF PrintNode, At
  <1>2. /\ IInv' /\ Items' = Items /\ roots' = roots /\ pc' = pc
    BY <1>1, GraphSame DEF OutputInv
  <1>3. PICK first \in Items : first = call
    BY <1>1, FirstItem DEF OutputInv, call
  <1>4. PICK a \in Nodes, d \in Nat : a = call.at /\ d = call.depth + 1
    <2>1. call.at \in Nodes /\ call.depth \in Nat
      BY <1>1, FirstItem DEF OutputInv, call
    <2> QED
      BY <2>1
  <1>5. work \in Seq(Items) /\ pc = "done" /\ k \in 0..Len(roots) /\ list \in Seq(BOOLEAN)
    BY <1>1 DEF OutputInv, OutputOK
  <1>6. PICK rest \in Seq(Items) : rest = Tail(work)
    BY <1>1, FirstItem DEF OutputInv
  <1>7. Linked(rest, Len(list)) /\ NoTokens(rest) /\ Len(list) = d
    <2>1. NoTokens(work) /\ Linked(work, Len(list))
      BY <1>1, ListIs DEF OutputInv
    <2>2. Before(work[1]) = Len(list) /\ Linked(Tail(work), After(work[1])) /\ NoTokens(Tail(work))
      BY <1>1, <1>5, <2>1, RestLinked
    <2>3. work[1] = call
      BY <1>1, FirstItem DEF OutputInv, call
    <2>4. Before(work[1]) = d /\ After(work[1]) = d
      BY <1>1, <1>4, <2>3 DEF Before, After, call
    <2> QED
      BY <1>6, <2>2, <2>4
  <1>8. node = mem[a]
    BY <1>4 DEF node
  <1>9. /\ node.type = "APP" => node.left \in Nodes /\ node.right \in Nodes
        /\ node.type = "REF" => node.left \in Nodes
    <2>1. ~(node.type = "REF" /\ node.left = NULL)
      BY <1>1 DEF LeadsNowhere
    <2>2. /\ mem[a].type = "APP" => mem[a].left \in Nodes /\ mem[a].right \in Nodes
          /\ mem[a].type = "REF" => mem[a].left \in Nodes \/ mem[a].left = NULL
      BY <1>5, GraphDone DEF OutputInv
    <2> QED
      BY <1>8, <2>1, <2>2
  <1>10. work' \in Seq(Items) /\ NoTokens(work') /\ Linked(work', Len(list))
    <2>1. CASE node.type = "APP"
      <3>1. Children = Both(node.left, node.right, d)
        BY <1>4, <2>1 DEF Children, Both
      <3>2. PICK p \in Seq(Items) : /\ p = Children /\ p # <<>>
                                    /\ Linked(p, d) /\ NoTokens(p) /\ After(p[Len(p)]) = d
        BY <1>9, <2>1, <3>1, BothChildren
      <3>3. p \o rest \in Seq(Items) /\ Linked(p \o rest, d) /\ NoTokens(p \o rest)
        BY <1>7, <3>2, FrontLinked, ConcatProperties
      <3> QED
        BY <1>1, <1>6, <1>7, <3>2, <3>3
    <2>2. CASE node.type = "REF" /\ Name(node.left) = NoIdent
      <3>1. Children = Only(node.left, d)
        BY <1>4, <2>2 DEF Children, Only
      <3>2. PICK p \in Seq(Items) : /\ p = Children /\ p # <<>>
                                    /\ Linked(p, d) /\ NoTokens(p) /\ After(p[Len(p)]) = d
        BY <1>9, <2>2, <3>1, OneChild
      <3>3. p \o rest \in Seq(Items) /\ Linked(p \o rest, d) /\ NoTokens(p \o rest)
        BY <1>7, <3>2, FrontLinked, ConcatProperties
      <3> QED
        BY <1>1, <1>6, <1>7, <3>2, <3>3
    <2>3. CASE node.type # "APP" /\ ~(node.type = "REF" /\ Name(node.left) = NoIdent)
      <3>1. Children = <<>>
        BY <2>3 DEF Children
      <3>2. <<>> \o rest = rest
        OBVIOUS
      <3> QED
        BY <1>1, <1>6, <1>7, <3>1, <3>2
    <2> QED
      BY <2>1, <2>2, <2>3
  <1>11. OutputOK'
    BY <1>1, <1>2, <1>5, <1>10 DEF OutputOK
  <1>12. ListOK'
    BY <1>1, <1>10, ListNext
  <1> QED
    BY <1>1, <1>2, <1>11, <1>12 DEF OutputInv

(* The list of flags grows and shrinks at its end.                         *)
LEMMA ListInv ==
  ASSUME OutputInv, prog \in Programs, PrintAppend \/ PrintRemove
  PROVE  OutputInv'
  <1>1. /\ UNCHANGED vars /\ phase = "print" /\ phase' = "print" /\ k' = k
        /\ work # <<>> /\ work' = Tail(work)
    BY DEF PrintAppend, PrintRemove, At
  <1>2. /\ IInv' /\ Items' = Items /\ roots' = roots /\ pc' = pc
    BY <1>1, GraphSame DEF OutputInv
  <1>3. work \in Seq(Items) /\ pc = "done" /\ k \in 0..Len(roots) /\ list \in Seq(BOOLEAN)
    BY <1>1 DEF OutputInv, OutputOK
  <1>4. Head(work) = work[1] /\ Tail(work) \in Seq(Items)
    BY <1>1, FirstItem DEF OutputInv
  <1>5. Before(work[1]) = Len(list) /\ Linked(Tail(work), After(work[1])) /\ NoTokens(Tail(work))
    <2>1. NoTokens(work) /\ Linked(work, Len(list))
      BY <1>1, ListIs DEF OutputInv
    <2> QED
      BY <1>1, <1>3, <2>1, RestLinked
  <1>6. list' \in Seq(BOOLEAN) /\ Len(list') = After(work[1])
    <2>1. CASE PrintAppend
      <3>1. work[1].op = "append" /\ work[1].flag \in BOOLEAN /\ list' = Append(list, work[1].flag)
        BY <1>1, <1>4, <2>1, FirstItem DEF PrintAppend, At, call, OutputInv
      <3>2. list' \in Seq(BOOLEAN) /\ Len(list') = Len(list) + 1
        BY <1>3, <3>1, Push
      <3> QED
        BY <1>5, <3>1, <3>2 DEF Before, After
    <2>2. CASE PrintRemove
      <3>1. /\ work[1].op = "remove" /\ work[1].depth \in Nat
            /\ list # <<>> /\ list' = SubSeq(list, 1, Len(list) - 1)
        BY <1>1, <1>4, <2>2, FirstItem DEF PrintRemove, At, call, OutputInv
      <3>2. list' \in Seq(BOOLEAN) /\ Len(list') = Len(list) - 1
        BY <1>3, <3>1, Shorten
      <3> QED
        BY <1>5, <3>1, <3>2 DEF Before, After
    <2> QED
      BY <2>1, <2>2
  <1>7. OutputOK'
    BY <1>1, <1>2, <1>3, <1>4, <1>6 DEF OutputOK
  <1>8. ListOK'
    BY <1>1, <1>5, <1>6, ListNext
  <1> QED
    BY <1>1, <1>2, <1>7, <1>8 DEF OutputInv

(* A walk that cannot go on was led nowhere by a reference: the list of    *)
(* flags always reaches.                                                   *)
LEMMA CrashInv ==
  ASSUME OutputInv, prog \in Programs, Crash
  PROVE  OutputInv'
  <1>1. /\ UNCHANGED vars /\ UNCHANGED <<work, list, k>> /\ phase' = "crash"
        /\ work # <<>> /\ Head(work).op = "node" /\ phase # "reduce"
        /\ LeadsNowhere \/ (phase = "print" /\ Len(list) <= call.depth)
    BY DEF Crash, Ends, At
  <1>2. /\ IInv' /\ Items' = Items /\ roots' = roots /\ pc' = pc
        /\ Closed(prog)' <=> Closed(prog)
    BY <1>1, GraphSame DEF OutputInv
  <1>3. pc = "done" /\ k \in 0..Len(roots) /\ list \in Seq(BOOLEAN) /\ work \in Seq(Items)
    BY <1>1 DEF OutputInv, OutputOK
  <1>4. work[1] = call /\ call.at \in Nodes /\ call.depth \in Nat
    BY <1>1, FirstItem DEF OutputInv, call
  <1>5. phase = "print" => Len(list) = call.depth + 1
    BY <1>1, <1>4 DEF OutputInv, ListOK, Before, call
  <1>6. LeadsNowhere
    BY <1>1, <1>4, <1>5
  <1>7. call.at # NULL
    BY <1>4 DEF Nodes
  <1>8. ~Closed(prog)
    BY <1>3, <1>4, <1>6, <1>7, GraphDone DEF LeadsNowhere, node, OutputInv, Nodes
  <1>9. OutputOK'
    BY <1>1, <1>2, <1>3 DEF OutputOK, Ended
  <1> QED
    BY <1>1, <1>2, <1>8, <1>9 DEF OutputInv, ListOK

-----------------------------------------------------------------------------
(* What a node is written as are items.                                    *)
LEMMA WrittenItems ==
  ASSUME OutputInv, phase = "write", work # <<>>, Head(work).op = "node", ~LeadsNowhere
  PROVE  Written \in Seq(Items)
  <1>1. PICK a \in Nodes, d \in Nat : a = call.at /\ d = call.depth + 1
    <2>1. call.at \in Nodes /\ call.depth \in Nat
      BY FirstItem DEF OutputInv, call
    <2> QED
      BY <2>1
  <1>2. PICK x \in Node : x = node
    BY <1>1, GraphDone DEF node, OutputInv, OutputOK
  <1>3. /\ x.type \in Types /\ x.id \in Tokens /\ x.type \in Tokens
        /\ x.type = "APP" => x.left \in Nodes /\ x.right \in Nodes
        /\ x.type = "REF" => x.left \in Nodes
    <2>1. x = mem[a]
      BY <1>1, <1>2 DEF node
    <2>2. ~(x.type = "REF" /\ x.left = NULL)
      BY <1>2 DEF LeadsNowhere
    <2> QED
      BY <2>1, <2>2, GraphDone DEF OutputInv, OutputOK, Tokens
  <1>4. \A b \in Nodes : Visit(b, d) \in Items /\ Name(b) \in Tokens /\ Put(Name(b)) \in Items
    BY GraphDone, ItemTypes DEF OutputInv, OutputOK, Name, Tokens
  <1>5. \A b \in Nodes : <<Visit(b, d)>> \in Seq(Items) /\ <<Put(Name(b))>> \in Seq(Items)
    BY <1>4
  <1>6. <<Put(x.id)>> \in Seq(Items) /\ <<Put(x.type)>> \in Seq(Items) /\ <<Put("&")>> \in Seq(Items)
    <2>1. Put(x.id) \in Items /\ Put(x.type) \in Items /\ Put("&") \in Items
      BY <1>3, ItemTypes DEF Tokens
    <2> QED
      BY <2>1
  <1>7. ASSUME NEW b \in Nodes PROVE Within(b) \in Seq(Items)
    <2>1. PICK e \in Items, f \in Items, g \in Items : e = Put("(") /\ f = Visit(b, d) /\ g = Put(")")
      BY <1>4, ItemTypes DEF Tokens
    <2>2. <<e, f, g>> \in Seq(Items)
      OBVIOUS
    <2> QED
      BY <1>1, <2>1, <2>2 DEF Within
  <1>8. CASE x.type = "APP"
    <2>1. PICK p \in Seq(Items) : p = <<Visit(x.left, d)>>
      BY <1>3, <1>5, <1>8
    <2>2. PICK q \in Seq(Items) : q = IF Bare(x.right) THEN <<Visit(x.right, d)>> ELSE Within(x.right)
      BY <1>3, <1>5, <1>7, <1>8
    <2>3. Written = p \o q
      BY <1>1, <1>2, <1>8, <2>1, <2>2 DEF Written
    <2> QED
      BY <2>3, ConcatProperties
  <1>9. CASE x.type = "REF"
    <2>1. PICK p \in Seq(Items) : p = <<Put("&")>>
      BY <1>6
    <2>2. PICK q \in Seq(Items) :
            q = IF Name(x.left) # NoIdent THEN <<Put(Name(x.left))>> ELSE Within(x.left)
      BY <1>3, <1>5, <1>7, <1>9
    <2>3. Written = p \o q
      BY <1>2, <1>9, <2>1, <2>2 DEF Written
    <2> QED
      BY <2>3, ConcatProperties
  <1>10. CASE x.type \notin {"APP", "REF"}
    BY <1>2, <1>6, <1>10 DEF Written
  <1> QED
    BY <1>8, <1>9, <1>10

(* The writer follows children that exist, as the printer does.            *)
LEMMA WriteInv ==
  ASSUME OutputInv, prog \in Programs, WriteNode \/ WriteToken
  PROVE  OutputInv'
  <1>1. /\ UNCHANGED vars /\ phase = "write" /\ phase' = "write" /\ k' = k /\ list' = list /\ work # <<>>
    BY DEF WriteNode, WriteToken, At
  <1>2. /\ IInv' /\ Items' = Items /\ roots' = roots /\ pc' = pc
    BY <1>1, GraphSame DEF OutputInv
  <1>3. pc = "done" /\ k \in 0..Len(roots) /\ list \in Seq(BOOLEAN) /\ Tail(work) \in Seq(Items)
    BY <1>1, FirstItem DEF OutputInv, OutputOK
  <1>4. work' \in Seq(Items)
    <2>1. CASE WriteNode
      BY <1>1, <1>3, <2>1, WrittenItems, ConcatProperties DEF WriteNode, At
    <2>2. CASE WriteToken
      BY <1>3, <2>2 DEF WriteToken
    <2> QED
      BY <2>1, <2>2
  <1>5. OutputOK'
    BY <1>1, <1>2, <1>3, <1>4 DEF OutputOK
  <1> QED
    BY <1>1, <1>2, <1>5 DEF OutputInv, ListOK

-----------------------------------------------------------------------------
(* Every step of main is one of the reducer or leaves its state alone.     *)
LEMMA StepOfReducer == [OutputNext]_allvars => [Next]_vars
  BY DEF OutputNext, OutputStep, OutputTerminated, Reduce, StartPrint, PrintRoot, PrintNode, PrintAppend,
         PrintRemove, OpenOutput, WriteRoot, WriteNode, WriteToken, CloseOutput, Crash, Overflow, Ends,
         allvars, Next

(* Every step of reducer, printer and writer keeps the invariant.          *)
LEMMA OutputStepInv ==
  ASSUME OutputInv, prog \in Programs, [OutputNext]_allvars
  PROVE  OutputInv'
  <1>1. CASE Reduce
    BY <1>1, ReduceInv
  <1>2. CASE StartPrint \/ OpenOutput \/ CloseOutput \/ Overflow \/ UNCHANGED allvars
    BY <1>2, BetweenInv
  <1>3. CASE PrintRoot \/ WriteRoot
    BY <1>3, RootInv
  <1>4. CASE PrintNode
    BY <1>4, PrintNodeInv
  <1>5. CASE PrintAppend \/ PrintRemove
    BY <1>5, ListInv
  <1>6. CASE WriteNode \/ WriteToken
    BY <1>6, WriteInv
  <1>7. CASE Crash
    BY <1>7, CrashInv
  <1> QED
    BY <1>1, <1>2, <1>3, <1>4, <1>5, <1>6, <1>7 DEF OutputNext, OutputStep, OutputTerminated

(* What printing and writing work on is a run of the reducer: all that was *)
(* proved of that holds of the whole program.                              *)
THEOREM ReducerImplemented == OutputSpec => Spec
  <1>1. OutputInit => Init
    BY DEF OutputInit
  <1> QED
    BY <1>1, StepOfReducer, PTL DEF OutputSpec, Spec

(* The graph is complete, the calls still to be made are for nodes that    *)
(* exist, and the list of flags has an entry for each level.               *)
THEOREM OutputInvariance == OutputSpec => []OutputInv
  <1>1. OutputSpec => [](prog \in Programs)
    BY ReducerImplemented, SameProgram, PTL
  <1>2. OutputInv /\ prog \in Programs /\ [OutputNext]_allvars => OutputInv'
    BY OutputStepInv
  <1> QED
    BY OutputInitial, <1>1, <1>2, PTL DEF OutputSpec

(* No print and no write follows a NULL or reads past the list of flags in *)
(* a file whose statements only use earlier ones.                          *)
THEOREM OutputNeverCrashes == OutputSpec => []NoCrashWhenClosed
  <1>1. OutputInv => NoCrashWhenClosed
    BY DEF OutputInv, NoCrashWhenClosed
  <1> QED
    BY <1>1, OutputInvariance, PTL

-----------------------------------------------------------------------------
(* How deep the walks go.  d calls below the root there is a node of level *)
(* Len(mem) - d: there are no more calls than nodes.                       *)
Deep(g) ==
  {it \in Items : it.op = "node" => \E n \in 0..Len(mem) : it.depth + n = Len(mem) /\ it.at \in g[n]}

DepthInv ==
  /\ phase \in {"print", "write"} /\ work # <<>> =>
       /\ k \in 1..Len(roots)
       /\ roots[k] \in Grounded(mem) => \E g : Levels(mem, g) /\ work \in Seq(Deep(g))
  /\ phase = "overflow" => k \in 1..Len(roots) /\ roots[k] \notin Grounded(mem)

(* Items that call nothing are deep enough, and so is a call for a child   *)
(* of a node whose call is.                                                *)
LEMMA DeepItems ==
  ASSUME Len(mem) \in Nat, NEW g, Levels(mem, g)
  PROVE  /\ \A t \in Tokens : Put(t) \in Deep(g)
         /\ \A b \in BOOLEAN : \A d \in Nat : Flag(b, d) \in Deep(g)
         /\ \A d \in Nat : Unflag(d) \in Deep(g)
         /\ \A a \in Nodes, d \in Nat : Visit(a, d) \in Deep(g) =>
              /\ d < Len(mem)
              /\ \A b \in Links(mem, a) \cap Nodes : Visit(b, d + 1) \in Deep(g)
  <1>1. \A t \in Tokens : Put(t) \in Deep(g)
    BY ItemTypes DEF Put, Deep
  <1>2. \A b \in BOOLEAN : \A d \in Nat : Flag(b, d) \in Deep(g)
    BY ItemTypes DEF Flag, Deep
  <1>3. \A d \in Nat : Unflag(d) \in Deep(g)
    BY ItemTypes DEF Unflag, Deep
  <1>4. ASSUME NEW a \in Nodes, NEW d \in Nat, Visit(a, d) \in Deep(g)
        PROVE  /\ d < Len(mem)
               /\ \A b \in Links(mem, a) \cap Nodes : Visit(b, d + 1) \in Deep(g)
    <2>1. PICK n \in 0..Len(mem) : d + n = Len(mem) /\ a \in g[n]
      BY <1>4 DEF Deep, Visit
    <2>2. n # 0
      BY <2>1 DEF Levels
    <2>3. n \in 1..Len(mem) /\ n - 1 \in 0..Len(mem) /\ (d + 1) + (n - 1) = Len(mem) /\ d < Len(mem)
      BY <2>1, <2>2
    <2>4. Links(mem, a) \subseteq g[n - 1]
      BY <2>1, <2>3, LevelBefore
    <2>5. ASSUME NEW b \in Links(mem, a) \cap Nodes
          PROVE  Visit(b, d + 1) \in Deep(g)
      <3>1. Visit(b, d + 1) \in Items
        BY ItemTypes
      <3>2. Visit(b, d + 1).depth = d + 1 /\ Visit(b, d + 1).at = b
        BY DEF Visit
      <3>3. b \in g[n - 1]
        BY <2>4
      <3> QED
        BY <2>3, <3>1, <3>2, <3>3 DEF Deep
    <2> QED
      BY <2>3, <2>5
  <1> QED
    BY <1>1, <1>2, <1>3, <1>4

(* What a call puts in its place is deep enough when the call was.         *)
LEMMA NodeDeep ==
  ASSUME OutputInv, pc = "done", work # <<>>, Head(work).op = "node", ~LeadsNowhere,
         NEW g, Levels(mem, g), call \in Deep(g)
  PROVE  Children \in Seq(Deep(g)) /\ Written \in Seq(Deep(g))
  <1> DEFINE D == Deep(g)
  <1>1. PICK a \in Nodes, d \in Nat : a = call.at /\ d = call.depth
    BY FirstItem DEF OutputInv, call
  <1>2. call = Visit(a, d)
    <2>1. call \in Items /\ call.op = "node"
      BY FirstItem DEF OutputInv, call
    <2> QED
      BY <1>1, <2>1 DEF Items, Visit
  <1>3. Len(mem) \in Nat
    BY LenProperties DEF OutputInv, IInv, TypeOK
  <1>4. node = mem[a] /\ node.type \in Types /\ node.id \in Tokens /\ node.type \in Tokens
    BY <1>1, GraphDone DEF node, OutputInv, Tokens
  <1>5. /\ node.type = "APP" => /\ node.left \in Links(mem, a) \cap Nodes
                                /\ node.right \in Links(mem, a) \cap Nodes
        /\ node.type = "REF" => node.left \in Links(mem, a) \cap Nodes
    <2>1. ~(node.type = "REF" /\ node.left = NULL)
      BY DEF LeadsNowhere
    <2>2. /\ mem[a].type = "APP" => mem[a].left \in Nodes /\ mem[a].right \in Nodes
          /\ mem[a].type = "REF" => mem[a].left \in Nodes \/ mem[a].left = NULL
      BY GraphDone DEF OutputInv
    <2>3. \A b \in Nodes : b # NULL
      BY DEF Nodes
    <2> QED
      BY <1>4, <2>1, <2>2, <2>3 DEF Links
  <1>6. /\ \A t \in Tokens : Put(t) \in D
        /\ \A b \in BOOLEAN : Flag(b, d + 1) \in D
        /\ Unflag(d + 1) \in D
        /\ \A b \in Links(mem, a) \cap Nodes : Visit(b, d + 1) \in D
    <2>1. d + 1 \in Nat
      OBVIOUS
    <2> QED
      BY <1>2, <1>3, <2>1, DeepItems
  <1> HIDE DEF D
  <1>7. Children \in Seq(D)
    <2>1. CASE node.type = "APP"
      <3>1. PICK u \in D, v \in D, w \in D, x \in D, y \in D :
              /\ u = Flag(FALSE, d + 1) /\ v = Visit(node.left, d + 1) /\ w = Unflag(d + 1)
              /\ x = Flag(TRUE, d + 1) /\ y = Visit(node.right, d + 1)
        BY <1>5, <1>6, <2>1
      <3>2. Children = <<u, v, w, x, y, w>>
        BY <1>1, <2>1, <3>1 DEF Children
      <3> QED
        BY <3>2, Six
    <2>2. CASE node.type = "REF" /\ Name(node.left) = NoIdent
      <3>1. PICK u \in D, v \in D, w \in D :
              u = Flag(TRUE, d + 1) /\ v = Visit(node.left, d + 1) /\ w = Unflag(d + 1)
        BY <1>5, <1>6, <2>2
      <3>2. Children = <<u, v, w>>
        BY <1>1, <2>2, <3>1 DEF Children
      <3> QED
        BY <3>2, Three
    <2>3. CASE node.type # "APP" /\ ~(node.type = "REF" /\ Name(node.left) = NoIdent)
      <3>1. Children = <<>>
        BY <2>3 DEF Children
      <3> QED
        BY <3>1
    <2> QED
      BY <2>1, <2>2, <2>3
  <1>8. ASSUME NEW b \in Links(mem, a) \cap Nodes
        PROVE  <<Visit(b, d + 1)>> \in Seq(D) /\ Within(b) \in Seq(D)
    <2>1. PICK u \in D, v \in D, w \in D : u = Put("(") /\ v = Visit(b, d + 1) /\ w = Put(")")
      BY <1>6 DEF Tokens
    <2>2. Within(b) = <<u, v, w>>
      BY <1>1, <2>1 DEF Within
    <2> QED
      BY <2>1, <2>2, Three, Single
  <1>9. \A t \in Tokens : <<Put(t)>> \in Seq(D)
    BY <1>6, Single
  <1>10. Written \in Seq(D)
    <2>1. CASE node.type = "APP"
      <3>1. PICK p \in Seq(D) : p = <<Visit(node.left, d + 1)>>
        BY <1>5, <1>8, <2>1
      <3>2. PICK q \in Seq(D) :
              q = IF Bare(node.right) THEN <<Visit(node.right, d + 1)>> ELSE Within(node.right)
        BY <1>5, <1>8, <2>1
      <3>3. Written = p \o q
        BY <1>1, <2>1, <3>1, <3>2 DEF Written
      <3> QED
        BY <3>3, ConcatProperties
    <2>2. CASE node.type = "REF"
      <3>1. PICK p \in Seq(D) : p = <<Put("&")>>
        BY <1>9 DEF Tokens
      <3>2. Name(node.left) \in Tokens
        BY <1>5, <2>2, GraphDone DEF OutputInv, Name, Tokens
      <3>3. PICK q \in Seq(D) :
              q = IF Name(node.left) # NoIdent THEN <<Put(Name(node.left))>> ELSE Within(node.left)
        BY <1>5, <1>8, <1>9, <2>2, <3>2
      <3>4. Written = p \o q
        BY <2>2, <3>1, <3>3 DEF Written
      <3> QED
        BY <3>4, ConcatProperties
    <2>3. CASE node.type \notin {"APP", "REF"}
      BY <1>4, <1>9, <2>3 DEF Written
    <2> QED
      BY <2>1, <2>2, <2>3
  <1> QED
    BY <1>7, <1>10 DEF D

(* A walk begins at its root, which has all the levels below it.           *)
LEMMA RootDeep ==
  ASSUME OutputInv, k < Len(roots), roots[k + 1] \in Grounded(mem)
  PROVE  \E g : Levels(mem, g) /\ Visit(roots[k + 1], 0) \in Deep(g)
  <1>1. Len(mem) \in Nat /\ roots[k + 1] \in Nodes
    BY LenProperties DEF OutputInv, OutputOK, IInv, TypeOK, Nodes
  <1>2. PICK g : Levels(mem, g) /\ Grounded(mem) = g[Len(mem)]
    BY HeapIs, GroundLevels DEF OutputInv, Levels, Nodes
  <1>3. Visit(roots[k + 1], 0) \in Items
    BY <1>1, ItemTypes
  <1>4. Len(mem) \in 0..Len(mem) /\ 0 + Len(mem) = Len(mem)
    BY <1>1
  <1>5. Visit(roots[k + 1], 0) \in Deep(g)
    BY <1>2, <1>3, <1>4 DEF Deep, Visit
  <1> QED
    BY <1>2, <1>5

(* No step lets a walk go deeper than the graph, and an acyclic one fits a *)
(* stack that has a frame for every node.                                  *)
LEMMA DepthStep ==
  ASSUME OutputInv, OutputInv', InArena, MaxNodes <= MaxDepth, DepthInv, [OutputNext]_allvars
  PROVE  DepthInv'
  <1>1. Len(mem) \in Nat /\ Len(roots) \in Nat /\ k \in 0..Len(roots) /\ work \in Seq(Items)
    BY LenProperties DEF OutputInv, OutputOK, IInv, TypeOK
  <1>2. CASE Reduce
    BY <1>2 DEF Reduce, outvars, OutputInv, OutputOK, DepthInv
  <1>3. CASE StartPrint \/ OpenOutput \/ CloseOutput \/ Crash
    <2>1. work' = <<>> \/ phase' = "crash"
      BY <1>3 DEF StartPrint, OpenOutput, CloseOutput, Crash, Ends, OutputInv, OutputOK
    <2>2. phase' # "overflow"
      BY <1>3 DEF StartPrint, OpenOutput, CloseOutput, Crash, Ends
    <2> QED
      BY <2>1, <2>2 DEF DepthInv
  <1>4. CASE UNCHANGED allvars
    <2>1. UNCHANGED <<mem, roots, phase, k, work>>
      BY <1>4 DEF allvars, vars, outvars
    <2>2. Nodes' = Nodes /\ Items' = Items
      BY <2>1 DEF Nodes, Items
    <2>3. \A g : (Levels(mem, g) <=> Levels(mem, g)') /\ Deep(g)' = Deep(g)
      BY <2>1, <2>2 DEF Levels, Deep
    <2> QED
      BY <2>1, <2>3 DEF DepthInv
  <1>5. ASSUME UNCHANGED vars
        PROVE  /\ mem' = mem /\ roots' = roots /\ Grounded(mem)' = Grounded(mem)
               /\ \A g : (Levels(mem, g) <=> Levels(mem, g)') /\ Deep(g)' = Deep(g)
    <2>1. mem' = mem /\ roots' = roots
      BY <1>5 DEF vars
    <2>2. Nodes' = Nodes /\ Items' = Items
      BY <2>1 DEF Nodes, Items
    <2> QED
      BY <2>1, <2>2 DEF Levels, Deep
  <1>6. CASE PrintRoot \/ WriteRoot
    <2>1. /\ UNCHANGED vars /\ phase' \in {"print", "write"} /\ k' = k + 1 /\ k < Len(roots)
          /\ \/ work' = <<Visit(roots[k + 1], 0)>>
             \/ work' = <<Visit(roots[k + 1], 0), Put(";")>>
      BY <1>6 DEF PrintRoot, WriteRoot
    <2>2. k' \in 1..Len(roots)
      <3>1. k' = k + 1 /\ k < Len(roots)
        BY <2>1
      <3> QED
        BY <1>1, <3>1
    <2>3. ASSUME roots[k + 1] \in Grounded(mem)
          PROVE  \E g : Levels(mem, g) /\ work' \in Seq(Deep(g))
      <3>1. PICK g : Levels(mem, g) /\ Visit(roots[k + 1], 0) \in Deep(g)
        BY <2>1, <2>3, RootDeep
      <3>2. PICK u \in Deep(g), v \in Deep(g) : u = Visit(roots[k + 1], 0) /\ v = Put(";")
        BY <1>1, <3>1, DeepItems DEF Tokens
      <3>3. <<u>> \in Seq(Deep(g)) /\ <<u, v>> \in Seq(Deep(g))
        BY <3>2, Single, Two
      <3> QED
        BY <2>1, <3>1, <3>2, <3>3
    <2> QED
      BY <1>5, <2>1, <2>2, <2>3 DEF DepthInv
  <1>7. CASE PrintNode \/ PrintAppend \/ PrintRemove \/ WriteNode \/ WriteToken
    <2>1. /\ UNCHANGED vars /\ phase' = phase /\ phase \in {"print", "write"} /\ k' = k /\ work # <<>>
      BY <1>7 DEF PrintNode, PrintAppend, PrintRemove, WriteNode, WriteToken, At
    <2>2. \/ work' = Tail(work)
          \/ /\ work' = Children \o Tail(work) \/ work' = Written \o Tail(work)
             /\ Head(work).op = "node" /\ ~LeadsNowhere
      BY <1>7 DEF PrintNode, PrintAppend, PrintRemove, WriteNode, WriteToken, At
    <2>3. k \in 1..Len(roots)
      BY <2>1 DEF DepthInv
    <2>4. ASSUME roots[k] \in Grounded(mem)
          PROVE  \E g : Levels(mem, g) /\ work' \in Seq(Deep(g))
      <3>1. PICK g : Levels(mem, g) /\ work \in Seq(Deep(g))
        BY <2>1, <2>4 DEF DepthInv
      <3>2. call \in Deep(g) /\ Tail(work) \in Seq(Deep(g))
        BY <2>1, <3>1, Pop DEF call
      <3>3. ASSUME Head(work).op = "node", ~LeadsNowhere
            PROVE  Children \in Seq(Deep(g)) /\ Written \in Seq(Deep(g))
        <4>1. pc = "done"
          BY <2>1 DEF OutputInv, OutputOK
        <4> QED
          BY <2>1, <3>1, <3>2, <3>3, <4>1, NodeDeep
      <3> QED
        BY <2>2, <3>1, <3>2, <3>3, ConcatProperties
    <2> QED
      BY <1>5, <2>1, <2>3, <2>4 DEF DepthInv
  <1>8. CASE Overflow
    <2>1. /\ UNCHANGED vars /\ k' = k /\ phase' = "overflow" /\ phase \in {"print", "write"}
          /\ work # <<>> /\ Head(work).op = "node" /\ call.depth > MaxDepth
      BY <1>8 DEF Overflow, Ends, At
    <2>2. k \in 1..Len(roots)
      BY <2>1 DEF DepthInv
    <2>3. ASSUME roots[k] \in Grounded(mem)
          PROVE  FALSE
      <3>1. PICK g : Levels(mem, g) /\ work \in Seq(Deep(g))
        BY <2>1, <2>3 DEF DepthInv
      <3>2. call \in Deep(g) /\ call \in Items /\ call.op = "node"
        BY <2>1, <3>1, Pop DEF call, Deep
      <3>3. PICK a \in Nodes, d \in Nat : call = Visit(a, d) /\ call.depth = d
        BY <3>2 DEF Items, Visit
      <3>4. d < Len(mem)
        BY <1>1, <3>1, <3>2, <3>3, DeepItems
      <3> QED
        BY <1>1, <2>1, <3>3, <3>4, BoundsAssumption, MaxDepthAssumption DEF InArena
    <2> QED
      BY <1>5, <2>1, <2>2, <2>3 DEF DepthInv
  <1> QED
    BY <1>2, <1>3, <1>4, <1>6, <1>7, <1>8 DEF OutputNext, OutputStep, OutputTerminated

(* With a stack that has a frame for every node the arena can hold, only a *)
(* statement that has become cyclic makes printing or writing run out of   *)
(* it: how deep the walks go is bounded by the graph, not by what is shown.*)
THEOREM OverflowRight ==
  ASSUME MaxNodes <= MaxDepth
  PROVE  OutputSpec => []DepthInv /\ []OverflowOnlyCyclic
  <1>1. OutputInit => DepthInv
    BY DEF OutputInit, DepthInv
  <1>2. OutputInv /\ OutputInv' /\ InArena /\ DepthInv /\ [OutputNext]_allvars => DepthInv'
    BY DepthStep
  <1>3. DepthInv => OverflowOnlyCyclic
    BY DEF DepthInv, OverflowOnlyCyclic
  <1>4. OutputSpec => []InArena
    BY ReducerImplemented, ArenaBound, PTL
  <1> QED
    BY <1>1, <1>2, <1>3, <1>4, OutputInvariance, PTL DEF OutputSpec

(* When the reducer rewrites no shared partial application, its output is  *)
(* never too deep for such a stack, whatever the file.                     *)
THEOREM OutputNeverOverflows ==
  ASSUME MaxNodes <= MaxDepth
  PROVE  OutputSpec /\ []~RewritesShared => [](phase # "overflow")
  <1>1. OutputInv /\ DepthInv /\ Acyclic => phase # "overflow"
    <2>1. OutputInv => Len(roots) \in Nat /\ DOMAIN roots = 1..Len(roots)
      BY LenProperties DEF OutputInv, IInv, TypeOK
    <2>2. OutputInv /\ k \in 1..Len(roots) => roots[k] \in Roots
      BY <2>1 DEF Roots
    <2> QED
      BY <2>2 DEF DepthInv, Acyclic
  <1> QED
    BY <1>1, OverflowRight, OutputInvariance, ReducerImplemented, StaysAcyclic, PTL
=============================================================================

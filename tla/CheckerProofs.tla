--------------------------- MODULE CheckerProofs ----------------------------
(***************************************************************************)
(* What is true of the checker for every file, every first size of its     *)
(* stack and every measure of depth: its warnings miss no name that is     *)
(* neither bound nor declared, are right for plain expressions, and the    *)
(* stack stays within its memory for expressions of no more than its size. *)
(***************************************************************************)
EXTENDS Checker, SequenceTheorems, TLAPS

-----------------------------------------------------------------------------
(* Items, or names, put in front of others.                                *)
LEMMA Joined ==
  ASSUME NEW T, NEW u \in Seq(T), NEW r \in Seq(T), NEW w, w = u \o r
  PROVE  /\ w \in Seq(T) /\ Len(u) \in Nat /\ Len(r) \in Nat /\ Len(w) = Len(u) + Len(r)
         /\ \A j \in 1..Len(u) : w[j] = u[j]
         /\ \A j \in (Len(u) + 1)..Len(w) : w[j] = r[j - Len(u)]
         /\ u # <<>> => w # <<>>
  OBVIOUS

(* The first item is taken.                                                *)
LEMMA Taken ==
  ASSUME NEW T, NEW w \in Seq(T), w # <<>>
  PROVE  /\ Len(w) \in Nat \ {0} /\ Head(w) = w[1] /\ w[1] \in T
         /\ Tail(w) \in Seq(T) /\ Len(Tail(w)) = Len(w) - 1
         /\ \A j \in 1..(Len(w) - 1) : Tail(w)[j] = w[j + 1]
         /\ Tail(w) = <<>> <=> Len(w) = 1
  <1>1. /\ Len(w) \in Nat \ {0} /\ Head(w) = w[1] /\ w[1] \in T
        /\ Tail(w) \in Seq(T) /\ Len(Tail(w)) = Len(w) - 1
        /\ \A j \in 1..(Len(w) - 1) : Tail(w)[j] = w[j + 1]
    OBVIOUS
  <1>2. Tail(w) = <<>> => Len(Tail(w)) = 0
    BY EmptySeq
  <1>3. Tail(w) # <<>> => Len(Tail(w)) # 0
    BY <1>1, EmptySeq
  <1> QED
    BY <1>1, <1>2, <1>3

(* The last name is popped.                                                *)
LEMMA Popped ==
  ASSUME NEW T, NEW w \in Seq(T), w # <<>>, NEW u, u = SubSeq(w, 1, Len(w) - 1)
  PROVE  /\ u \in Seq(T) /\ Len(w) \in Nat /\ Len(u) = Len(w) - 1
         /\ \A j \in 1..Len(u) : u[j] = w[j]
  <1>1. PICK n \in Nat : n = Len(w) - 1
    <2>1. Len(w) \in Nat \ {0}
      BY EmptySeq
    <2> QED
      BY <2>1
  <1>2. \A j \in 1..n : w[j] \in T
    BY <1>1
  <1>3. /\ SubSeq(w, 1, n) \in Seq(T)
        /\ Len(SubSeq(w, 1, n)) = IF 1 <= n THEN n - 1 + 1 ELSE 0
        /\ \A j \in 1..(n - 1 + 1) : SubSeq(w, 1, n)[j] = w[1 + j - 1]
    BY <1>2, SubSeqProperties
  <1>4. u = SubSeq(w, 1, n) /\ Len(u) = n
    BY <1>1, <1>3
  <1> QED
    BY <1>1, <1>3, <1>4

(* The sequences the rules of the checker make.                            *)
LEMMA One ==
  ASSUME NEW T, NEW x \in T, NEW p, p = <<x>>
  PROVE  p \in Seq(T) /\ Len(p) = 1 /\ p[1] = x /\ p # <<>>
  OBVIOUS

(* A function on 1..n is a sequence.                                       *)
LEMMA Made ==
  ASSUME NEW T, NEW n \in Nat, NEW p \in [1..n -> T]
  PROVE  p \in Seq(T) /\ Len(p) = n
  OBVIOUS

-----------------------------------------------------------------------------
(* How much items owe is a number.                                         *)
LEMMA OwedType == \A w \in Seq(Items) : \A j \in 1..Len(w) : w[j] \in Items /\ w[j].owed \in Nat
  <1> SUFFICES ASSUME NEW w \in Seq(Items), NEW j \in 1..Len(w) PROVE w[j] \in Items /\ w[j].owed \in Nat
    OBVIOUS
  <1>1. w[j] \in Items
    OBVIOUS
  <1> QED
    BY <1>1 DEF Items

(* What the first item owes, and what the items after it do.               *)
LEMMA OwingRest ==
  ASSUME NEW w \in Seq(Items), w # <<>>, NEW p \in Nat, Owing(w, p)
  PROVE  /\ Tail(w) = <<>> => w[1].owed = Popping(w[1]) + p
         /\ Tail(w) # <<>> => w[1].owed = Popping(w[1]) + Head(Tail(w)).owed
         /\ Owing(Tail(w), p)
  <1>1. PICK n \in Nat : n = Len(w)
    BY LenProperties
  <1>2. PICK r \in Seq(Items) : r = Tail(w)
    BY Taken
  <1>3. /\ n # 0 /\ Len(r) = n - 1 /\ \A j \in 1..(n - 1) : r[j] = w[j + 1]
        /\ r = <<>> <=> n = 1
    BY <1>1, <1>2, Taken
  <1>4. r # <<>> => Head(r) = r[1]
    BY Taken
  <1>5. w[1].owed = Popping(w[1]) + After(w, 1, p)
    BY <1>1, <1>3 DEF Owing
  <1>6. ASSUME NEW j \in 1..(n - 1)
        PROVE  r[j].owed = Popping(r[j]) + After(r, j, p)
    <2>1. w[j + 1].owed = Popping(w[j + 1]) + After(w, j + 1, p)
      BY <1>1 DEF Owing
    <2>2. After(w, j + 1, p) = After(r, j, p)
      BY <1>1, <1>3 DEF After
    <2> QED
      BY <1>3, <2>1, <2>2
  <1>7. ASSUME NEW j \in 1..(n - 1)
        PROVE  r[j].owed >= p /\ \A l \in 1..j : r[j].owed <= r[l].owed
    <2>1. w[j + 1].owed >= p /\ \A l \in 1..(j + 1) : w[j + 1].owed <= w[l].owed
      BY <1>1 DEF Owing
    <2>2. ASSUME NEW l \in 1..j PROVE r[j].owed <= r[l].owed
      <3>1. r[j] = w[j + 1] /\ r[l] = w[l + 1] /\ l + 1 \in 1..(j + 1)
        BY <1>3
      <3> QED
        BY <2>1, <3>1
    <2> QED
      BY <1>3, <2>1, <2>2
  <1>8. Owing(r, p)
    BY <1>3, <1>6, <1>7 DEF Owing
  <1> QED
    BY <1>1, <1>2, <1>3, <1>4, <1>5, <1>8 DEF After

(* Items put in front of others: the pops add up.                          *)
LEMMA OwingFront ==
  ASSUME NEW u \in Seq(Items), u # <<>>, NEW r \in Seq(Items), NEW p \in Nat, NEW o \in Nat,
         r = <<>> => o = p, r # <<>> => o = Head(r).owed,
         Owing(u, o), Owing(r, p), NEW w, w = u \o r
  PROVE  Owing(w, p)
  <1>1. PICK m \in Nat, n \in Nat : m = Len(u) /\ n = Len(r)
    BY LenProperties
  <1>2. /\ w \in Seq(Items) /\ Len(w) = m + n
        /\ \A j \in 1..m : w[j] = u[j]
        /\ \A j \in (m + 1)..(m + n) : w[j] = r[j - m]
    BY <1>1, Joined
  <1>3. m # 0 /\ (r = <<>> <=> n = 0) /\ (r # <<>> => Head(r) = r[1])
    BY <1>1, EmptySeq, Taken
  <1>4. /\ \A j \in 1..(m + n) : w[j].owed \in Nat
        /\ \A j \in 1..m : u[j].owed \in Nat
        /\ \A j \in 1..n : r[j].owed \in Nat
    BY <1>1, <1>2, OwedType
  <1>5. o >= p /\ \A j \in 1..n : r[j].owed >= p /\ r[j].owed <= o
    BY <1>1, <1>3, <1>4 DEF Owing
  <1>6. \A j \in 1..m : u[j].owed >= o /\ \A l \in 1..j : u[j].owed <= u[l].owed
    BY <1>1 DEF Owing
  <1>7. ASSUME NEW j \in 1..(m + n)
        PROVE  w[j].owed = Popping(w[j]) + After(w, j, p)
    <2>0. j < m \/ j = m \/ j > m
      OBVIOUS
    <2>1. CASE j < m
      <3>1. w[j] = u[j] /\ w[j + 1] = u[j + 1] /\ j \in 1..m /\ j < Len(w) /\ j < Len(u)
        BY <1>1, <1>2, <2>1
      <3>2. After(w, j, p) = After(u, j, o)
        BY <3>1 DEF After
      <3> QED
        BY <1>1, <3>1, <3>2 DEF Owing
    <2>2. CASE j = m
      <3>1. w[j] = u[j] /\ j \in 1..m /\ After(u, j, o) = o
        BY <1>1, <1>2, <1>3, <2>2 DEF After
      <3>2. CASE n = 0
        BY <1>1, <1>2, <1>3, <2>2, <3>1, <3>2 DEF Owing, After
      <3>3. CASE n # 0
        <4>1. j < Len(w) /\ w[j + 1] = r[1] /\ o = r[1].owed
          BY <1>2, <1>3, <2>2, <3>3
        <4>2. After(w, j, p) = o
          BY <4>1 DEF After
        <4> QED
          BY <1>1, <3>1, <4>2 DEF Owing
      <3> QED
        BY <3>2, <3>3
    <2>3. CASE j > m
      <3>1. j - m \in 1..n
        BY <2>3
      <3>2. PICK i \in 1..n : i = j - m
        BY <3>1
      <3>3. w[j] = r[i] /\ (j < m + n <=> i < n)
        BY <1>2, <2>3, <3>2
      <3>4. j < m + n => w[j + 1] = r[i + 1]
        BY <1>2, <2>3, <3>2
      <3>5. After(w, j, p) = After(r, i, p)
        BY <1>1, <1>2, <3>3, <3>4 DEF After
      <3> QED
        BY <1>1, <3>3, <3>5 DEF Owing
    <2> QED
      BY <2>0, <2>1, <2>2, <2>3
  <1>8. ASSUME NEW j \in 1..(m + n)
        PROVE  w[j].owed >= p /\ \A l \in 1..j : w[j].owed <= w[l].owed
    <2>0. j <= m \/ j > m
      OBVIOUS
    <2>1. CASE j <= m
      <3>1. j \in 1..m /\ w[j] = u[j] /\ w[j].owed >= o
        BY <1>2, <1>6, <2>1
      <3>2. w[j].owed >= p
        BY <1>4, <1>5, <3>1
      <3>3. ASSUME NEW l \in 1..j PROVE w[j].owed <= w[l].owed
        <4>1. w[l] = u[l]
          BY <1>2, <2>1
        <4> QED
          BY <1>6, <3>1, <4>1
      <3> QED
        BY <3>2, <3>3
    <2>2. CASE j > m
      <3>1. j - m \in 1..n
        BY <2>2
      <3>2. PICK i \in 1..n : i = j - m
        BY <3>1
      <3>3. w[j] = r[i] /\ w[j].owed >= p /\ w[j].owed <= o
        BY <1>2, <1>5, <2>2, <3>2
      <3>4. ASSUME NEW l \in 1..j PROVE w[j].owed <= w[l].owed
        <4>1. CASE l <= m
          <5>1. w[l] = u[l] /\ w[l].owed >= o /\ l \in 1..(m + n)
            BY <1>2, <1>6, <4>1
          <5>2. w[l].owed \in Nat /\ w[j].owed \in Nat
            BY <1>4, <5>1
          <5> QED
            BY <3>3, <5>1, <5>2
        <4>2. CASE l > m
          <5>1. l - m \in 1..i
            BY <3>2, <4>2
          <5>2. w[l] = r[l - m]
            BY <1>2, <4>2
          <5> QED
            BY <1>1, <3>3, <5>1, <5>2 DEF Owing
        <4>3. l <= m \/ l > m
          OBVIOUS
        <4> QED
          BY <4>1, <4>2, <4>3
      <3> QED
        BY <3>3, <3>4
    <2> QED
      BY <2>0, <2>1, <2>2
  <1> QED
    BY <1>2, <1>7, <1>8 DEF Owing

-----------------------------------------------------------------------------
(* What is known when there is something to be done.                       *)
LEMMA ItemKnown ==
  ASSUME IInv, pc = "check", work # <<>>
  PROVE  /\ work \in Seq(Items) /\ Len(work) \in Nat \ {0} /\ work[1] = item /\ Head(work) = item /\ item \in Items
         /\ item.owed = Popping(item) + owed /\ item.owed \in Nat /\ owed \in Nat
         /\ rest \in Seq(Items) /\ Owing(rest, 0)
         /\ rest = <<>> => owed = 0
         /\ rest # <<>> => owed = Head(rest).owed
         /\ Len(rest) = Len(work) - 1 /\ \A j \in 1..Len(rest) : rest[j] = work[j + 1]
         /\ stack \in Seq(Names \cup {NULL}) /\ Len(stack) \in Nat
         /\ CheckOK /\ s \in 1..Len(file) /\ file \in Files /\ Len(file) \in Nat
  <1>1. work \in Seq(Items) /\ stack \in Seq(Names \cup {NULL}) /\ file \in Files /\ s \in 0..Len(file)
    BY DEF IInv, TypeOK
  <1>2. /\ Len(work) \in Nat \ {0} /\ item = work[1] /\ Head(work) = item /\ item \in Items /\ rest \in Seq(Items)
        /\ Len(rest) = Len(work) - 1 /\ \A j \in 1..Len(rest) : rest[j] = work[j + 1]
    BY <1>1, Taken DEF item, rest
  <1>3. item.owed \in Nat
    BY <1>2 DEF Items
  <1>4. CheckOK
    BY DEF IInv
  <1>5. /\ rest = <<>> => owed = 0
        /\ rest # <<>> => owed = Head(rest).owed
    BY DEF owed
  <1>6. item.owed = Popping(item) + owed /\ Owing(rest, 0) /\ owed \in Nat
    <2>1. Owing(work, 0)
      BY <1>4 DEF CheckOK
    <2>2. /\ rest = <<>> => item.owed = Popping(item) + 0
          /\ rest # <<>> => item.owed = Popping(item) + Head(rest).owed
          /\ Owing(rest, 0)
      BY <1>1, <1>2, <2>1, OwingRest DEF rest
    <2>3. rest # <<>> => Head(rest).owed \in Nat
      <3>1. rest # <<>> => Head(rest) \in Items
        BY <1>2, Taken
      <3> QED
        BY <3>1 DEF Items
    <2> QED
      BY <1>5, <2>2, <2>3
  <1>7. Len(stack) \in Nat /\ Len(file) \in Nat
    BY <1>1, LenProperties, FilesAssumption
  <1>8. s >= 1
    BY <1>4 DEF CheckOK
  <1> QED
    BY <1>1, <1>2, <1>3, <1>4, <1>5, <1>6, <1>7, <1>8

(* What is known besides when it is a call.                                *)
LEMMA CallKnown ==
  ASSUME IInv, pc = "check", work # <<>>, item.op = "check"
  PROVE  /\ item.expr \in Exprs /\ item.scope \in SUBSET Names /\ item.owed = owed
         /\ Height(item) = Len(stack) /\ CallOK(item)
  <1>1. /\ Len(work) \in Nat \ {0} /\ work[1] = item /\ Head(work) = item /\ item \in Items
        /\ item.owed = Popping(item) + owed /\ item.owed \in Nat /\ owed \in Nat
        /\ Len(stack) \in Nat /\ CheckOK
    BY ItemKnown
  <1>2. item.expr \in Exprs /\ item.scope \in SUBSET Names
    BY <1>1 DEF Items
  <1>3. item.owed = owed
    BY <1>1 DEF Popping
  <1>4. Height(item) = Len(stack)
    BY <1>1 DEF Height
  <1>5. CallOK(item)
    BY <1>1 DEF CheckOK
  <1> QED
    BY <1>2, <1>3, <1>4, <1>5

(* A height is no higher when more pops than pushes come in between.       *)
LEMMA Lower ==
  ASSUME NEW a \in Nat, NEW b \in Nat, NEW o \in Nat, NEW w \in Nat, NEW x \in Nat, w >= o + b, x <= o
  PROVE  /\ (a + b) - (w - x) <= a - (o - x) /\ a - (o - x) <= a
         /\ (a + b) - (w - x) \in Int /\ a - (o - x) \in Int
  OBVIOUS

(* The first item, a call, is replaced by the items u, and the names q are *)
(* pushed, no more than the pops of u.                                     *)
LEMMA Replaced ==
  ASSUME IInv, pc = "check", work # <<>>, item.op = "check", UNCHANGED <<file, s>>,
         NEW u \in Seq(Items), u # <<>>, work' = u \o rest, Owing(u, owed),
         NEW q \in Seq(Names \cup {NULL}), stack' = stack \o q, u[1].owed >= owed + Len(q),
         Plain(file[s].expr) => u[1].owed = owed + Len(q) /\ \A l \in 1..Len(q) : q[l] # NULL,
         \A j \in 1..Len(u) : u[j].op = "check" => CallOK(u[j])'
  PROVE  CheckOK'
  <1>1. /\ work \in Seq(Items) /\ Len(work) \in Nat \ {0} /\ Head(work).owed = owed
        /\ owed \in Nat /\ rest \in Seq(Items) /\ Owing(rest, 0)
        /\ rest = <<>> => owed = 0
        /\ rest # <<>> => owed = Head(rest).owed
        /\ Len(rest) = Len(work) - 1 /\ \A j \in 1..Len(rest) : rest[j] = work[j + 1]
        /\ stack \in Seq(Names \cup {NULL}) /\ Len(stack) \in Nat
        /\ CheckOK /\ s >= 1
    <2>1. /\ work \in Seq(Items) /\ Len(work) \in Nat \ {0} /\ Head(work) = item
          /\ item.owed = owed /\ owed \in Nat /\ rest \in Seq(Items) /\ Owing(rest, 0)
      BY ItemKnown, CallKnown
    <2>2. /\ rest = <<>> => owed = 0
          /\ rest # <<>> => owed = Head(rest).owed
      BY ItemKnown
    <2>3. Len(rest) = Len(work) - 1 /\ \A j \in 1..Len(rest) : rest[j] = work[j + 1]
      BY ItemKnown
    <2>4. stack \in Seq(Names \cup {NULL}) /\ Len(stack) \in Nat /\ CheckOK
      BY ItemKnown
    <2>5. s >= 1
      BY <2>4 DEF CheckOK
    <2> QED
      BY <2>1, <2>2, <2>3, <2>4, <2>5
  <1>2. Owing(work', 0)
    BY <1>1, OwingFront
  <1>3. /\ Len(u) \in Nat \ {0} /\ Len(work') = Len(u) + Len(rest)
        /\ \A j \in 1..Len(u) : work'[j] = u[j]
        /\ \A j \in (Len(u) + 1)..Len(work') : work'[j] = rest[j - Len(u)]
        /\ work' \in Seq(Items) /\ work' # <<>>
    <2>1. /\ work' \in Seq(Items) /\ Len(u) \in Nat /\ Len(work') = Len(u) + Len(rest)
          /\ \A j \in 1..Len(u) : work'[j] = u[j]
          /\ \A j \in (Len(u) + 1)..Len(work') : work'[j] = rest[j - Len(u)]
          /\ work' # <<>>
      <3>1. PICK r \in Seq(Items), w \in {u \o rest} : w = u \o rest /\ r = rest
        BY <1>1
      <3>2. /\ w \in Seq(Items) /\ Len(u) \in Nat /\ Len(w) = Len(u) + Len(rest)
            /\ \A j \in 1..Len(u) : w[j] = u[j]
            /\ \A j \in (Len(u) + 1)..Len(w) : w[j] = rest[j - Len(u)]
            /\ w # <<>>
        <4>1. w = u \o r
          BY <3>1
        <4>2. /\ w \in Seq(Items) /\ Len(u) \in Nat /\ Len(w) = Len(u) + Len(r)
              /\ \A j \in 1..Len(u) : w[j] = u[j]
              /\ \A j \in (Len(u) + 1)..Len(w) : w[j] = r[j - Len(u)]
              /\ w # <<>>
          BY <4>1, Joined
        <4> QED
          BY <3>1, <4>2
      <3> QED
        BY <3>1, <3>2
    <2>2. Len(u) # 0
      BY EmptySeq
    <2> QED
      BY <2>1, <2>2
  <1>4. Head(work') = u[1] /\ u[1].owed \in Nat
    BY <1>3, Taken, OwedType
  <1>5. /\ Len(q) \in Nat /\ Len(stack') = Len(stack) + Len(q)
        /\ \A l \in 1..Len(stack) : stack'[l] = stack[l]
        /\ \A l \in (Len(stack) + 1)..Len(stack') : stack'[l] = q[l - Len(stack)]
    BY <1>1, Joined
  <1>6. ASSUME NEW x \in Items, x.op = "check", NEW j \in 2..Len(work), x = work[j]
        PROVE  CallOK(x)'
    <2>1. CallOK(x) /\ x.owed \in Nat
      BY <1>1, <1>6, OwedType DEF CheckOK
    <2>2. x.owed <= owed
      <3>1. work[1] = Head(work) /\ j \in 1..Len(work) /\ 1 \in 1..j
        BY <1>1, Taken
      <3>2. work[j].owed <= work[1].owed
        BY <1>1, <3>1 DEF CheckOK, Owing
      <3> QED
        BY <1>1, <1>6, <3>1, <3>2
    <2>3. Height(x) = Len(stack) - (owed - x.owed) /\ Height(x)' = Len(stack') - (u[1].owed - x.owed)
      BY <1>1, <1>4 DEF Height
    <2>4. Height(x)' <= Height(x) /\ Height(x) <= Len(stack) /\ Height(x) \in Int /\ Height(x)' \in Int
      <3>1. Height(x)' = (Len(stack) + Len(q)) - (u[1].owed - x.owed)
        BY <1>5, <2>3
      <3>2. /\ (Len(stack) + Len(q)) - (u[1].owed - x.owed) <= Len(stack) - (owed - x.owed)
            /\ Len(stack) - (owed - x.owed) <= Len(stack)
            /\ (Len(stack) + Len(q)) - (u[1].owed - x.owed) \in Int
            /\ Len(stack) - (owed - x.owed) \in Int
        BY <1>1, <1>4, <1>5, <2>1, <2>2, Lower
      <3> QED
        BY <2>3, <3>1, <3>2
    <2>5. ASSUME NEW l \in 1..Len(stack'), l <= Height(x)'
          PROVE  stack'[l] \in x.scope \cup {NULL}
      <3>1. l \in 1..Len(stack) /\ l <= Height(x)
        BY <1>1, <1>5, <2>4, <2>5
      <3> QED
        BY <1>5, <2>1, <3>1 DEF CallOK
    <2>6. Fitting' => Height(x)' + Depth(x.expr) <= SStack /\ Depth(x.expr) <= SStack
      <3>1. Fitting' <=> Fitting
        BY DEF Fitting
      <3>2. Depth(x.expr) \in Nat /\ SStack \in Nat
        <4>1. x.expr \in Exprs
          BY <1>6 DEF Items
        <4> QED
          BY <4>1, DepthAssumption, FilesAssumption
      <3> QED
        BY <2>1, <2>4, <3>1, <3>2 DEF CallOK
    <2>7. Plain(file[s].expr) =>
            Plain(x.expr) /\ \A v \in x.scope : \E l \in 1..Len(stack') : l <= x.owed /\ stack'[l] = v
      <3> SUFFICES ASSUME Plain(file[s].expr), NEW v \in x.scope
                   PROVE  Plain(x.expr) /\ \E l \in 1..Len(stack') : l <= x.owed /\ stack'[l] = v
        BY <2>1 DEF CallOK
      <3>1. PICK l \in 1..Len(stack) : l <= x.owed /\ stack[l] = v
        BY <2>1 DEF CallOK
      <3>2. l \in 1..Len(stack') /\ stack'[l] = v
        BY <1>1, <1>5, <3>1
      <3> QED
        BY <2>1, <3>1, <3>2 DEF CallOK
    <2> QED
      BY <2>5, <2>6, <2>7 DEF CallOK
  <1>7. ASSUME NEW j \in 1..Len(work'), work'[j].op = "check"
        PROVE  CallOK(work[j])'
    <2>1. PICK x \in Items : x = work'[j]
      BY <1>3, OwedType
    <2>2. CallOK(x)'
      <3>0. j <= Len(u) \/ j > Len(u)
        BY <1>3
      <3>1. CASE j <= Len(u)
        BY <1>3, <1>7, <2>1, <3>1
      <3>2. CASE j > Len(u)
        <4>1. (j - Len(u)) + 1 \in 2..Len(work)
          BY <1>1, <1>3, <3>2
        <4>2. x = work[(j - Len(u)) + 1]
          <5>1. j - Len(u) \in 1..Len(rest) /\ x = rest[j - Len(u)]
            BY <1>1, <1>3, <2>1, <3>2
          <5> QED
            BY <1>1, <5>1
        <4> QED
          BY <1>6, <1>7, <2>1, <4>1, <4>2
      <3> QED
        BY <3>0, <3>1, <3>2
    <2> QED
      BY <2>1, <2>2
  <1>8. StackOK'
    <2> SUFFICES ASSUME Plain(file[s].expr)
                 PROVE  Len(stack') = u[1].owed /\ \A l \in 1..Len(stack') : stack'[l] # NULL
      BY <1>3, <1>4 DEF StackOK
    <2>1. Len(stack) = owed /\ \A l \in 1..Len(stack) : stack[l] # NULL
      BY <1>1 DEF CheckOK, StackOK
    <2>2. ASSUME NEW l \in 1..Len(stack') PROVE stack'[l] # NULL
      <3>0. l <= Len(stack) \/ l > Len(stack)
        BY <1>1
      <3>1. CASE l <= Len(stack)
        BY <1>5, <2>1, <3>1
      <3>2. CASE l > Len(stack)
        <4>1. stack'[l] = q[l - Len(stack)] /\ l - Len(stack) \in 1..Len(q)
          BY <1>1, <1>5, <3>2
        <4> QED
          BY <4>1
      <3> QED
        BY <3>0, <3>1, <3>2
    <2> QED
      BY <1>5, <2>1, <2>2
  <1> QED
    BY <1>1, <1>2, <1>7, <1>8 DEF CheckOK

(* The first item is done, and a name was popped if it was a pop.          *)
LEMMA RestOK ==
  ASSUME IInv, pc = "check", work # <<>>, UNCHANGED <<file, s>>, work' = rest,
         NEW st \in Seq(Names \cup {NULL}), stack' = st, Len(st) <= Len(stack),
         \A l \in 1..Len(st) : st[l] = stack[l],
         Len(st) = Len(stack) - Popping(item) \/ (Len(stack) = 0 /\ Len(st) = 0)
  PROVE  CheckOK'
  <1>1. /\ work \in Seq(Items) /\ Len(work) \in Nat \ {0} /\ Head(work) = item /\ work[1] = item
        /\ item.owed = Popping(item) + owed /\ item.owed \in Nat /\ owed \in Nat
        /\ rest \in Seq(Items) /\ Owing(rest, 0)
    BY ItemKnown
  <1>2. /\ rest = <<>> => owed = 0
        /\ rest # <<>> => owed = Head(rest).owed
    BY ItemKnown
  <1>3. Len(rest) = Len(work) - 1 /\ \A j \in 1..Len(rest) : rest[j] = work[j + 1]
    BY ItemKnown
  <1>4. Len(stack) \in Nat /\ CheckOK /\ s >= 1 /\ Popping(item) \in {0, 1} /\ Len(st) \in Nat
    BY ItemKnown, LenProperties DEF CheckOK, Popping
  <1>5. ASSUME NEW j \in 1..Len(work'), work'[j].op = "check"
        PROVE  CallOK(work[j])'
    <2>1. j + 1 \in 1..Len(work) /\ work'[j] = work[j + 1] /\ rest # <<>>
      BY <1>1, <1>3, EmptySeq
    <2>2. PICK x \in Items : x = work[j + 1]
      BY <1>1, <2>1
    <2>3. x.owed \in Nat /\ x.op = "check" /\ CallOK(x) /\ x.owed <= owed /\ x.expr \in Exprs
      <3>1. x.op = "check" /\ CallOK(x)
        BY <1>4, <1>5, <2>1, <2>2 DEF CheckOK
      <3>2. rest[1] = Head(rest) /\ j \in 1..Len(rest) /\ 1 \in 1..j
        BY <1>1, <2>1, Taken
      <3>3. rest[j].owed <= rest[1].owed
        BY <1>1, <3>2 DEF Owing
      <3>4. x = rest[j]
        BY <1>3, <2>2, <3>2
      <3> QED
        BY <1>2, <2>1, <3>1, <3>2, <3>3, <3>4 DEF Items
    <2>4. Height(x) = Len(stack) - (item.owed - x.owed) /\ Height(x)' = Len(st) - (owed - x.owed)
      BY <1>1, <1>2, <2>1 DEF Height
    <2>5. Fitting' <=> Fitting
      BY DEF Fitting
    <2>6. Depth(x.expr) \in Nat /\ SStack \in Nat
      BY <2>3, DepthAssumption, FilesAssumption
    <2>7. CASE Len(st) = Len(stack) - Popping(item)
      <3>1. Height(x)' = Height(x)
        BY <1>1, <1>4, <2>3, <2>4, <2>7
      <3>2. \A l \in 1..Len(stack') : l <= Height(x)' => stack'[l] \in x.scope \cup {NULL}
        BY <1>4, <2>3, <3>1 DEF CallOK
      <3>3. Plain(file[s].expr) =>
              Plain(x.expr) /\ \A v \in x.scope : \E l \in 1..Len(stack') : l <= x.owed /\ stack'[l] = v
        <4> SUFFICES ASSUME Plain(file[s].expr), NEW v \in x.scope
                     PROVE  Plain(x.expr) /\ \E l \in 1..Len(stack') : l <= x.owed /\ stack'[l] = v
          BY <2>3 DEF CallOK
        <4>1. PICK l \in 1..Len(stack) : l <= x.owed /\ stack[l] = v
          BY <2>3 DEF CallOK
        <4>2. Len(stack) = item.owed
          BY <1>1, <1>4 DEF CheckOK, StackOK
        <4>3. Len(st) = owed
          BY <1>1, <1>4, <2>7, <4>2
        <4>4. l \in 1..Len(stack') /\ stack'[l] = v
          BY <1>1, <2>3, <4>1, <4>3
        <4> QED
          BY <2>3, <4>1, <4>4 DEF CallOK
      <3>4. CallOK(x)'
        BY <2>3, <2>5, <3>1, <3>2, <3>3 DEF CallOK
      <3> QED
        BY <2>1, <2>2, <3>4
    <2>8. CASE Len(stack) = 0 /\ Len(st) = 0
      <3>1. Height(x)' <= 0 /\ Height(x)' \in Int
        BY <1>1, <2>3, <2>4, <2>8
      <3>2. Fitting => Height(x)' + Depth(x.expr) <= SStack /\ Depth(x.expr) <= SStack
        BY <2>3, <2>6, <3>1 DEF CallOK
      <3>3. Plain(file[s].expr) => Plain(x.expr) /\ x.scope = {}
        BY <2>3, <2>8 DEF CallOK
      <3>4. CallOK(x)'
        BY <2>5, <2>8, <3>2, <3>3 DEF CallOK
      <3> QED
        BY <2>1, <2>2, <3>4
    <2> QED
      BY <2>7, <2>8
  <1>6. StackOK'
    <2> SUFFICES ASSUME Plain(file[s].expr)
                 PROVE  Len(st) = owed /\ \A l \in 1..Len(st) : st[l] # NULL
      BY <1>2 DEF StackOK
    <2>1. Len(stack) = item.owed /\ \A l \in 1..Len(stack) : stack[l] # NULL
      BY <1>1, <1>4 DEF CheckOK, StackOK
    <2>2. Len(st) = owed
      BY <1>1, <1>4, <2>1
    <2> QED
      BY <1>4, <2>1, <2>2
  <1> QED
    BY <1>1, <1>4, <1>5, <1>6 DEF CheckOK

-----------------------------------------------------------------------------
Seen == [var : Names, stmt : 1..Len(file), scope : SUBSET Names, warned : BOOLEAN]

Right(o) ==
  LET known == o.var \in o.scope \cup DeclaredBy(o.stmt)
  IN  (o.warned \/ known) /\ (Plain(file[o.stmt].expr) => ~o.warned \/ ~known)

(* What holds whatever happens to the stack and to the items.              *)
LEMMA SeenSame ==
  ASSUME IInv, UNCHANGED <<file, seen>>
  PROVE  seen' \in SUBSET Seen /\ Seen' = Seen /\ WarningsRight'
  BY DEF IInv, TypeOK, WarningsRight, Seen, DeclaredBy

(* An identifier is warned of as it should be.                             *)
LEMMA CheckIdentInv ==
  ASSUME IInv, CheckIdent
  PROVE  IInv'
  <1>1. /\ pc = "check" /\ pc' = "check" /\ work # <<>> /\ item.op = "check" /\ item.expr.type = "IDENT"
        /\ work' = rest /\ file' = file /\ s' = s /\ stack' = stack
        /\ seen' = seen \cup {[var |-> item.expr.var, stmt |-> s, scope |-> item.scope,
                               warned |-> ~StackExists(item.expr.var) /\ item.expr.var \notin Declared]}
    BY DEF CheckIdent
  <1>2. /\ item.expr \in Exprs /\ item.scope \in SUBSET Names /\ Height(item) = Len(stack) /\ CallOK(item)
        /\ rest \in Seq(Items) /\ stack \in Seq(Names \cup {NULL}) /\ Len(stack) \in Nat
        /\ CheckOK /\ s \in 1..Len(file) /\ file \in Files /\ Len(file) \in Nat
    BY <1>1, ItemKnown, CallKnown
  <1>3. PICK x \in Names : x = item.expr.var
    BY <1>1, <1>2, ExprsAssumption
  <1>4. PICK b \in BOOLEAN : b <=> ~StackExists(x) /\ x \notin Declared
    OBVIOUS
  <1>5. PICK o \in Seen : o = [var |-> x, stmt |-> s, scope |-> item.scope, warned |-> b]
    BY <1>2 DEF Seen
  <1>6. seen' = seen \cup {o}
    <2>1. b = (~StackExists(x) /\ x \notin Declared)
      BY <1>4, Zenon
    <2> QED
      BY <1>1, <1>3, <1>5, <2>1, Zenon
  <1>7. Declared = DeclaredBy(s)
    BY DEF Declared, DeclaredBy
  <1>8. StackExists(x) => x \in item.scope
    <2> SUFFICES ASSUME NEW j \in 1..Len(stack), stack[j] = x PROVE x \in item.scope
      BY DEF StackExists
    <2>1. j <= Height(item) /\ x # NULL
      BY <1>2, FilesAssumption
    <2> QED
      BY <1>2, <2>1 DEF CallOK
  <1>9. Plain(file[s].expr) /\ x \in item.scope => StackExists(x)
    <2> SUFFICES ASSUME Plain(file[s].expr), x \in item.scope PROVE StackExists(x)
      OBVIOUS
    <2>1. PICK l \in 1..Len(stack) : stack[l] = x
      BY <1>2 DEF CallOK
    <2>2. \A j \in 1..Len(stack) : stack[j] # NULL
      BY <1>2 DEF CheckOK, StackOK
    <2>3. \A j \in (l + 1)..Len(stack) : j \in 1..Len(stack)
      BY <1>2
    <2> QED
      BY <2>1, <2>2, <2>3 DEF StackExists
  <1>10. Right(o)
    <2>1. o.var = x /\ o.stmt = s /\ o.scope = item.scope /\ (o.warned <=> b)
      BY <1>5
    <2>2. o.warned <=> ~StackExists(x) /\ x \notin DeclaredBy(s)
      BY <1>4, <1>7, <2>1
    <2> QED
      BY <1>8, <1>9, <2>1, <2>2 DEF Right
  <1>11. WarningsRight'
    <2>1. \A p \in seen : Right(p)
      BY DEF IInv, WarningsRight, Right
    <2>2. \A p \in seen' : Right(p)
      BY <1>6, <1>10, <2>1
    <2>3. \A p : Right(p)' <=> Right(p)
      BY <1>1 DEF Right, DeclaredBy
    <2> QED
      BY <2>2, <2>3 DEF WarningsRight, Right
  <1>12. CheckOK'
    <2>1. Popping(item) = 0
      BY <1>1 DEF Popping
    <2>2. PICK st \in Seq(Names \cup {NULL}) : st = stack
      BY <1>2
    <2> QED
      BY <1>1, <1>2, <2>1, <2>2, RestOK
  <1>13. TypeOK'
    <2>1. seen \in SUBSET Seen /\ Seen' = Seen
      BY <1>1 DEF IInv, TypeOK, Seen
    <2>2. seen' \in SUBSET Seen'
      BY <1>6, <2>1
    <2> QED
      BY <1>1, <1>2, <2>2 DEF TypeOK, Seen
  <1> QED
    BY <1>1, <1>11, <1>12, <1>13 DEF IInv, FitsWhenShallow

(* A name is popped, if there is one.                                      *)
LEMMA PopNameInv ==
  ASSUME IInv, PopName
  PROVE  IInv'
  <1>1. /\ pc = "check" /\ pc' = "check" /\ work # <<>> /\ item.op = "pop"
        /\ work' = rest /\ file' = file /\ s' = s /\ seen' = seen
        /\ stack = <<>> => stack' = stack
        /\ stack # <<>> => stack' = SubSeq(stack, 1, Len(stack) - 1)
    BY DEF PopName
  <1>2. /\ rest \in Seq(Items) /\ stack \in Seq(Names \cup {NULL}) /\ Len(stack) \in Nat
        /\ s \in 1..Len(file) /\ file \in Files /\ Len(file) \in Nat
    BY <1>1, ItemKnown
  <1>3. Popping(item) = 1
    BY <1>1 DEF Popping
  <1>4. PICK st : stack' = st
    OBVIOUS
  <1>5. /\ st \in Seq(Names \cup {NULL}) /\ Len(st) <= Len(stack) /\ \A l \in 1..Len(st) : st[l] = stack[l]
        /\ Len(st) = Len(stack) - Popping(item) \/ (Len(stack) = 0 /\ Len(st) = 0)
    <2>1. CASE stack = <<>>
      <3>1. st = stack /\ Len(stack) = 0
        BY <1>1, <1>4, <2>1, EmptySeq
      <3> QED
        BY <1>2, <3>1
    <2>2. CASE stack # <<>>
      <3>1. PICK T : T = Names \cup {NULL}
        OBVIOUS
      <3>2. st = SubSeq(stack, 1, Len(stack) - 1) /\ stack \in Seq(T)
        BY <1>1, <1>2, <1>4, <2>2, <3>1
      <3>3. st \in Seq(T) /\ Len(st) = Len(stack) - 1 /\ \A j \in 1..Len(st) : st[j] = stack[j]
        BY <2>2, <3>2, Popped
      <3> QED
        BY <1>2, <1>3, <3>1, <3>3
    <2> QED
      BY <2>1, <2>2
  <1>6. CheckOK'
    BY <1>1, <1>4, <1>5, RestOK
  <1>7. TypeOK'
    BY <1>1, <1>2, <1>4, <1>5, SeenSame DEF TypeOK, Seen
  <1> QED
    BY <1>1, <1>6, <1>7, SeenSame DEF IInv, FitsWhenShallow

(* Between the statements: the stack is cleared.                           *)
LEMMA BetweenInv ==
  ASSUME IInv, NextStatement \/ Checked \/ EndStatement \/ Terminated \/ UNCHANGED vars
  PROVE  IInv'
  <1>1. file' = file /\ seen' = seen
    BY DEF NextStatement, Checked, EndStatement, Terminated, vars
  <1>2. /\ file \in Files /\ s \in 0..Len(file) /\ work \in Seq(Items) /\ stack \in Seq(Names \cup {NULL})
        /\ Len(file) \in Nat /\ file \in Seq([var : Names, expr : Exprs])
        /\ pc \in {"statement", "check", "done", "corrupt"}
    BY LenProperties, FilesAssumption DEF IInv, TypeOK
  <1>3. seen' \in SUBSET Seen' /\ WarningsRight' /\ (Fitting' <=> Fitting)
    BY <1>1, SeenSame DEF Fitting
  <1>4. CASE NextStatement
    <2>1. /\ s < Len(file) /\ s' = s + 1 /\ work' = <<Check(file[s + 1].expr, {}, 0)>>
          /\ pc' = "check" /\ stack' = stack /\ stack = <<>>
      BY <1>4 DEF NextStatement, IInv
    <2>2. s' \in 1..Len(file) /\ file[s'].expr \in Exprs
      <3>1. PICK t \in 1..Len(file) : t = s'
        BY <1>2, <2>1
      <3>2. file[t] \in [var : Names, expr : Exprs]
        BY <1>2, ElementOfSeq
      <3> QED
        BY <3>1, <3>2
    <2>3. PICK x \in Items : x = Check(file[s'].expr, {}, 0)
      BY <2>2 DEF Check, Items
    <2>4. x.op = "check" /\ x.expr = file[s'].expr /\ x.scope = {} /\ x.owed = 0
      BY <2>3 DEF Check
    <2>5. work' \in Seq(Items) /\ Len(work') = 1 /\ work'[1] = x /\ work' # <<>> /\ Head(work') = x
      <3>1. work' = <<x>>
        BY <2>1, <2>3
      <3> QED
        BY <3>1
    <2>6. Owing(work', 0)
      BY <2>4, <2>5 DEF Owing, After, Popping
    <2>7. Len(stack') = 0
      BY <2>1, EmptySeq
    <2>8. StackOK'
      BY <2>4, <2>5, <2>7 DEF StackOK
    <2>9. CallOK(x)'
      <3>1. Height(x)' = 0
        BY <2>4, <2>5, <2>7 DEF Height
      <3>2. Depth(x.expr) \in Nat /\ (Fitting => Depth(x.expr) <= SStack)
        BY <2>2, <2>4, DepthAssumption DEF Fitting
      <3> QED
        BY <1>1, <1>3, <2>4, <2>7, <3>1, <3>2 DEF CallOK
    <2>10. CheckOK'
      BY <2>2, <2>5, <2>6, <2>8, <2>9, <1>2 DEF CheckOK
    <2>11. TypeOK'
      BY <1>1, <1>2, <1>3, <2>1, <2>2, <2>5 DEF TypeOK, Seen
    <2> QED
      BY <1>3, <2>1, <2>10, <2>11 DEF IInv, FitsWhenShallow
  <1>5. CASE Checked
    <2>1. pc' = "done" /\ s' = s /\ work' = work /\ stack' = stack
      BY <1>5 DEF Checked
    <2> QED
      BY <1>1, <1>2, <1>3, <2>1 DEF IInv, TypeOK, Seen, FitsWhenShallow
  <1>6. CASE EndStatement
    <2>1. pc' = "statement" /\ s' = s /\ work' = work /\ work = <<>> /\ stack' = <<>>
      BY <1>6 DEF EndStatement
    <2>2. stack' \in Seq(Names \cup {NULL})
      BY <2>1
    <2> QED
      BY <1>1, <1>2, <1>3, <2>1, <2>2 DEF IInv, TypeOK, Seen, FitsWhenShallow
  <1>7. CASE UNCHANGED vars
    BY <1>7 DEF vars, IInv, TypeOK, WarningsRight, DeclaredBy, FitsWhenShallow, Fitting, CheckOK, StackOK,
                CallOK, Height
  <1> QED
    BY <1>4, <1>5, <1>6, <1>7 DEF Terminated

-----------------------------------------------------------------------------
(* A call for part x of the expression, when at most names around x or     *)
(* NULLs were pushed, is in order.                                         *)
LEMMA PartOK ==
  ASSUME IInv, pc = "check", work # <<>>, item.op = "check", UNCHANGED <<file, s>>,
         NEW q \in Seq(Names \cup {NULL}), stack' = stack \o q,
         NEW x \in Items, x.op = "check", item.scope \subseteq x.scope, x.owed >= owed,
         \A l \in 1..Len(q) : q[l] \in x.scope \cup {NULL},
         Plain(file[s].expr) =>
           \A v \in x.scope \ item.scope : \E l \in 1..Len(q) : Len(stack) + l <= x.owed /\ q[l] = v,
         Height(x)' \in Int, Height(x)' + Depth(x.expr) <= Len(stack) + Depth(item.expr),
         Depth(x.expr) <= Depth(item.expr), Plain(item.expr) => Plain(x.expr)
  PROVE  CallOK(x)'
  <1>1. /\ stack \in Seq(Names \cup {NULL}) /\ Len(stack) \in Nat /\ Height(item) = Len(stack) /\ CallOK(item)
        /\ item.expr \in Exprs /\ item.owed = owed /\ owed \in Nat
    BY ItemKnown, CallKnown
  <1>2. /\ Len(q) \in Nat /\ Len(stack') = Len(stack) + Len(q)
        /\ \A l \in 1..Len(stack) : stack'[l] = stack[l]
        /\ \A l \in (Len(stack) + 1)..Len(stack') : stack'[l] = q[l - Len(stack)]
    BY <1>1, Joined
  <1>3. x.owed \in Nat /\ x.expr \in Exprs
    BY DEF Items
  <1>4. Depth(x.expr) \in Nat /\ Depth(item.expr) \in Nat /\ SStack \in Nat
    BY <1>1, <1>3, DepthAssumption, FilesAssumption
  <1>5. ASSUME NEW l \in 1..Len(stack') PROVE stack'[l] \in x.scope \cup {NULL}
    <2>0. l <= Len(stack) \/ l > Len(stack)
      BY <1>1
    <2>1. CASE l <= Len(stack)
      BY <1>1, <1>2, <2>1 DEF CallOK
    <2>2. CASE l > Len(stack)
      <3>1. l - Len(stack) \in 1..Len(q) /\ stack'[l] = q[l - Len(stack)]
        BY <1>1, <1>2, <2>2
      <3> QED
        BY <3>1
    <2> QED
      BY <2>0, <2>1, <2>2
  <1>6. Fitting' => Height(x)' + Depth(x.expr) <= SStack /\ Depth(x.expr) <= SStack
    <2>1. Fitting' <=> Fitting
      BY DEF Fitting
    <2>2. Fitting => Len(stack) + Depth(item.expr) <= SStack /\ Depth(item.expr) <= SStack
      BY <1>1 DEF CallOK
    <2> QED
      BY <1>1, <1>4, <2>1, <2>2
  <1>7. ASSUME Plain(file[s].expr)
        PROVE  Plain(x.expr) /\ \A v \in x.scope : \E l \in 1..Len(stack') : l <= x.owed /\ stack'[l] = v
    <2>1. Plain(x.expr)
      BY <1>1, <1>7 DEF CallOK
    <2>2. ASSUME NEW v \in x.scope, v \in item.scope
          PROVE  \E l \in 1..Len(stack') : l <= x.owed /\ stack'[l] = v
      <3>1. PICK l \in 1..Len(stack) : l <= item.owed /\ stack[l] = v
        BY <1>1, <1>7, <2>2 DEF CallOK
      <3>2. l \in 1..Len(stack') /\ l <= x.owed /\ stack'[l] = v
        BY <1>1, <1>2, <1>3, <3>1
      <3> QED
        BY <3>2
    <2>3. ASSUME NEW v \in x.scope, v \notin item.scope
          PROVE  \E l \in 1..Len(stack') : l <= x.owed /\ stack'[l] = v
      <3>1. PICK l \in 1..Len(q) : Len(stack) + l <= x.owed /\ q[l] = v
        BY <1>7, <2>3
      <3>2. PICK k \in (Len(stack) + 1)..Len(stack') : k = Len(stack) + l
        BY <1>1, <1>2
      <3>3. k \in 1..Len(stack') /\ k - Len(stack) = l /\ k <= x.owed /\ stack'[k] = v
        BY <1>1, <1>2, <3>1, <3>2
      <3> QED
        BY <3>3
    <2> QED
      BY <2>1, <2>2, <2>3
  <1> QED
    BY <1>5, <1>6, <1>7 DEF CallOK

(* The pops that follow the expression of an abstraction.                  *)
LEMMA PopItems ==
  ASSUME NEW n \in Nat, owed \in Nat
  PROVE  /\ Pops(n) \in Seq(Items) /\ Len(Pops(n)) = n
         /\ \A j \in 1..n : Pops(n)[j].op = "pop" /\ Pops(n)[j].owed = owed + n + 1 - j
  <1>1. \A j \in 1..n : owed + n + 1 - j \in Nat
    OBVIOUS
  <1>2. \A o \in Nat : Pop(o) \in Items /\ Pop(o).op = "pop" /\ Pop(o).owed = o
    BY DEF Pop, Items
  <1>3. Pops(n) \in [1..n -> Items]
    BY <1>1, <1>2 DEF Pops
  <1>4. \A j \in 1..n : Pops(n)[j] = Pop(owed + n + 1 - j)
    BY DEF Pops
  <1>5. Pops(n) \in Seq(Items) /\ Len(Pops(n)) = n
    BY <1>3, Made
  <1> QED
    BY <1>1, <1>2, <1>4, <1>5

(* A push that fits nowhere needs an expression deeper than the stack.     *)
LEMMA PushFails ==
  ASSUME IInv, pc = "check", work # <<>>, item.op = "check", file' = file,
         NEW n \in Nat, n <= Depth(item.expr), Len(stack) + n > SStack
  PROVE  FitsWhenShallow'
  <1>1. Len(stack) \in Nat /\ Height(item) = Len(stack) /\ CallOK(item) /\ item.expr \in Exprs
    BY ItemKnown, CallKnown
  <1>2. Depth(item.expr) \in Nat /\ SStack \in Nat
    BY <1>1, DepthAssumption, FilesAssumption
  <1>3. ~Fitting
    BY <1>1, <1>2 DEF CallOK
  <1> QED
    BY <1>3 DEF FitsWhenShallow, Fitting

(* An abstraction: its variables are pushed, its expression is next, and   *)
(* as many pops.                                                           *)
LEMMA CheckAbsInv ==
  ASSUME IInv, CheckAbs
  PROVE  IInv'
  <1>1. PICK xs : /\ xs = item.expr.vars
                  /\ PushAll(xs)
                  /\ work' = <<Check(item.expr.expr, item.scope \cup {xs[j] : j \in 1..Len(xs)}, owed + Len(xs))>>
                               \o Pops(Len(xs)) \o rest
    BY DEF CheckAbs
  <1>2. /\ pc = "check" /\ work # <<>> /\ item.op = "check" /\ item.expr.type = "ABS"
        /\ file' = file /\ s' = s /\ seen' = seen
    BY DEF CheckAbs, IsAbs
  <1>3. /\ item.expr \in Exprs /\ item.scope \in SUBSET Names
        /\ CallOK(item) /\ owed \in Nat /\ rest \in Seq(Items)
        /\ stack \in Seq(Names \cup {NULL}) /\ Len(stack) \in Nat
    BY <1>2, ItemKnown, CallKnown
  <1>4. file \in Files /\ s \in 1..Len(file) /\ Len(file) \in Nat /\ CheckOK
    BY <1>2, ItemKnown
  <1>5. xs \in Seq(Names) /\ Len(xs) \in Nat /\ item.expr.expr \in Exprs
    BY <1>1, <1>2, <1>3, ExprsAssumption, LenProperties
  <1>6. PICK n \in Nat : n = Len(xs)
    BY <1>5
  <1>7. PICK names \in SUBSET Names : names = {xs[j] : j \in 1..Len(xs)}
    <2>1. \A j \in 1..Len(xs) : xs[j] \in Names
      BY <1>5
    <2>2. {xs[j] : j \in 1..Len(xs)} \subseteq Names
      BY <2>1
    <2> QED
      BY <2>2
  <1>8. PICK c \in Items : c = Check(item.expr.expr, item.scope \cup names, owed + n)
    <2>1. item.scope \cup names \in SUBSET Names /\ owed + n \in Nat
      BY <1>3
    <2> QED
      BY <1>5, <2>1 DEF Check, Items
  <1>9. c.op = "check" /\ c.expr = item.expr.expr /\ c.scope = item.scope \cup names /\ c.owed = owed + n
    BY <1>8 DEF Check
  <1>10. PICK p \in Seq(Items) :
            /\ p = Pops(n) /\ Len(p) = n
            /\ \A j \in 1..n : p[j].op = "pop" /\ p[j].owed = owed + n + 1 - j
    BY <1>3, PopItems
  <1>11. PICK u : u = <<c>> \o p
    OBVIOUS
  <1>12. work' = u \o rest
    BY <1>1, <1>6, <1>7, <1>8, <1>10, <1>11
  <1>13. /\ u \in Seq(Items) /\ u # <<>> /\ Len(u) = n + 1 /\ u[1] = c
         /\ \A j \in 2..(n + 1) : u[j].op = "pop" /\ u[j].owed = owed + n + 2 - j
    <2>1. <<c>> \in Seq(Items) /\ Len(<<c>>) = 1 /\ <<c>>[1] = c /\ <<c>> # <<>>
      BY One
    <2>2. /\ u \in Seq(Items) /\ u # <<>> /\ Len(u) = 1 + n
          /\ \A j \in 1..1 : u[j] = <<c>>[j]
          /\ \A j \in 2..Len(u) : u[j] = p[j - 1]
      BY <1>10, <1>11, <2>1, Joined
    <2>3. ASSUME NEW j \in 2..(n + 1) PROVE u[j].op = "pop" /\ u[j].owed = owed + n + 2 - j
      <3>1. PICK k \in 1..n : k = j - 1
        OBVIOUS
      <3>2. u[j] = p[k]
        BY <2>2, <3>1
      <3>3. p[k].op = "pop" /\ p[k].owed = owed + n + 1 - k
        BY <1>10
      <3> QED
        BY <1>3, <3>1, <3>2, <3>3
    <2> QED
      BY <2>1, <2>2, <2>3
  <1>14. \A j \in 1..(n + 1) : u[j].owed = (IF j = 1 THEN owed + n ELSE owed + n + 2 - j)
    BY <1>9, <1>13
  <1>15. Owing(u, owed)
    <2>1. ASSUME NEW j \in 1..(n + 1) PROVE u[j].owed = Popping(u[j]) + After(u, j, owed)
      <3>1. CASE j = 1 /\ n = 0
        BY <1>3, <1>9, <1>13, <3>1 DEF Popping, After
      <3>2. CASE j = 1 /\ n # 0
        <4>1. u[2].owed = owed + n /\ 1 < Len(u) /\ Popping(u[1]) = 0
          BY <1>3, <1>9, <1>13, <3>2 DEF Popping
        <4> QED
          BY <1>3, <1>9, <1>13, <3>2, <4>1 DEF After
      <3>3. CASE j # 1 /\ j <= n
        <4>1. u[j + 1].owed = owed + n + 2 - (j + 1) /\ j < Len(u) /\ Popping(u[j]) = 1
          BY <1>3, <1>13, <3>3 DEF Popping
        <4>2. u[j].owed = owed + n + 2 - j
          BY <1>13, <3>3
        <4> QED
          BY <1>3, <4>1, <4>2 DEF After
      <3>4. CASE j # 1 /\ j > n
        <4>1. j = n + 1 /\ ~(j < Len(u)) /\ Popping(u[j]) = 1
          BY <1>3, <1>13, <3>4 DEF Popping
        <4>2. u[j].owed = owed + n + 2 - j
          BY <1>13, <3>4
        <4> QED
          BY <1>3, <4>1, <4>2 DEF After
      <3> QED
        BY <3>1, <3>2, <3>3, <3>4
    <2>2. ASSUME NEW j \in 1..(n + 1) PROVE u[j].owed >= owed /\ \A l \in 1..j : u[j].owed <= u[l].owed
      BY <1>3, <1>14
    <2> QED
      BY <1>13, <2>1, <2>2 DEF Owing
  <1>16. work' \in Seq(Items) /\ Head(work') = c
    <2>1. PICK w : w = u \o rest
      OBVIOUS
    <2>2. w \in Seq(Items) /\ w # <<>> /\ w[1] = u[1]
      BY <1>3, <1>13, <2>1, Joined
    <2>3. Head(w) = w[1]
      BY <2>2, Taken
    <2> QED
      BY <1>12, <1>13, <2>1, <2>2, <2>3
  <1>17. n <= Depth(item.expr) /\ n + Depth(c.expr) <= Depth(item.expr) /\ Depth(c.expr) \in Nat
         /\ Depth(item.expr) \in Nat
    BY <1>1, <1>2, <1>3, <1>5, <1>6, <1>9, DepthAssumption
  <1>18. CASE stack' = stack \o xs /\ pc' = pc
    <2>1. xs \in Seq(Names \cup {NULL})
      BY <1>5
    <2>2. Len(stack') = Len(stack) + n
      BY <1>3, <1>6, <1>18, <2>1, Joined
    <2>3. Height(c)' = Len(stack) + n
      BY <1>3, <1>9, <1>16, <2>2 DEF Height
    <2>4. Height(c)' \in Int /\ Height(c)' + Depth(c.expr) <= Len(stack) + Depth(item.expr)
          /\ Depth(c.expr) <= Depth(item.expr)
      BY <1>3, <1>17, <2>3
    <2>5. Plain(item.expr) => Plain(c.expr)
      BY <1>2, <1>3, <1>9, PlainAssumption
    <2>6. ASSUME Plain(file[s].expr), NEW v \in c.scope \ item.scope
          PROVE  \E l \in 1..Len(xs) : Len(stack) + l <= c.owed /\ xs[l] = v
      <3>1. PICK l \in 1..Len(xs) : xs[l] = v
        BY <1>7, <1>9
      <3>2. Len(stack) = owed
        BY <1>2, <1>4, <2>6, ItemKnown, CallKnown DEF CheckOK, StackOK
      <3>3. Len(stack) + l <= c.owed
        BY <1>3, <1>5, <1>6, <1>9, <3>2
      <3> QED
        BY <3>1, <3>3
    <2>7. /\ \A l \in 1..Len(xs) : xs[l] \in c.scope \cup {NULL}
          /\ item.scope \subseteq c.scope /\ c.owed >= owed
      BY <1>3, <1>5, <1>6, <1>7, <1>9
    <2>8. CallOK(c)'
      BY <1>2, <1>9, <1>18, <2>1, <2>4, <2>5, <2>6, <2>7, PartOK
    <2>9. \A j \in 1..Len(u) : u[j].op = "check" => CallOK(u[j])'
      <3> SUFFICES ASSUME NEW j \in 1..Len(u), u[j].op = "check" PROVE CallOK(u[j])'
        OBVIOUS
      <3>1. u[j] = c
        BY <1>13
      <3> QED
        BY <2>8, <3>1
    <2>10. /\ u[1].owed >= owed + Len(xs) /\ u[1].owed = owed + Len(xs)
           /\ \A l \in 1..Len(xs) : xs[l] # NULL
      BY <1>3, <1>5, <1>6, <1>9, <1>13, FilesAssumption
    <2>11. CheckOK'
      BY <1>2, <1>12, <1>13, <1>15, <1>18, <2>1, <2>9, <2>10, Replaced
    <2>12. TypeOK'
      <3>1. stack' \in Seq(Names \cup {NULL})
        BY <1>3, <1>18, <2>1, Joined
      <3> QED
        BY <1>2, <1>4, <1>16, <1>18, <3>1, SeenSame DEF TypeOK, Seen
    <2> QED
      BY <1>2, <1>18, <2>11, <2>12, SeenSame DEF IInv, FitsWhenShallow
  <1>19. CASE pc' = "corrupt" /\ stack' = stack /\ Len(stack) + n > SStack
    <2>1. TypeOK'
      BY <1>2, <1>3, <1>4, <1>16, <1>19, SeenSame DEF TypeOK, Seen
    <2>2. FitsWhenShallow'
      BY <1>2, <1>17, <1>19, PushFails
    <2> QED
      BY <1>2, <1>19, <2>1, <2>2, SeenSame DEF IInv
  <1> QED
    BY <1>1, <1>6, <1>18, <1>19 DEF PushAll

(* An application: calls l and r for its sides, and the pops among them,   *)
(* are put in its place, and the NULLs q are pushed.                       *)
LEMMA SidesOK ==
  ASSUME IInv, pc = "check", work # <<>>, item.op = "check", item.expr.type = "APP",
         UNCHANGED <<file, s, seen>>, NEW l \in Items, NEW r \in Items,
         l.op = "check", l.expr = item.expr.left, l.scope = item.scope,
         r.op = "check", r.expr = item.expr.right, r.scope = item.scope, r.owed >= owed,
         NEW u \in Seq(Items), u # <<>>, u[1] = l, Owing(u, owed), work' = u \o rest,
         \A j \in 1..Len(u) : u[j].op = "check" => u[j] = l \/ u[j] = r,
         NEW q \in Seq({NULL}), PushAll(q), l.owed >= owed + Len(q),
         Len(q) + Depth(l.expr) <= Depth(item.expr),
         Len(q) - (l.owed - r.owed) + Depth(r.expr) <= Depth(item.expr),
         Plain(item.expr) => l.owed = owed /\ Len(q) = 0
  PROVE  IInv'
  <1>1. /\ item.expr \in Exprs /\ item.scope \in SUBSET Names /\ CallOK(item)
        /\ owed \in Nat /\ rest \in Seq(Items)
        /\ stack \in Seq(Names \cup {NULL}) /\ Len(stack) \in Nat
    BY ItemKnown, CallKnown
  <1>2. file \in Files /\ s \in 1..Len(file) /\ Len(file) \in Nat
    BY ItemKnown
  <1>3. l.owed \in Nat /\ r.owed \in Nat /\ l.expr \in Exprs /\ r.expr \in Exprs
    BY DEF Items
  <1>4. Len(q) \in Nat /\ q \in Seq(Names \cup {NULL}) /\ \A j \in 1..Len(q) : q[j] = NULL
    <2>1. Len(q) \in Nat
      BY LenProperties
    <2>2. \A j \in 1..Len(q) : q[j] \in {NULL}
      OBVIOUS
    <2>3. q \in Seq(Names \cup {NULL})
      OBVIOUS
    <2> QED
      BY <2>1, <2>2, <2>3
  <1>5. work' \in Seq(Items) /\ Head(work') = l
    <2>1. PICK w : w = u \o rest
      OBVIOUS
    <2>2. w \in Seq(Items) /\ w # <<>> /\ Len(u) \in Nat \ {0} /\ \A j \in 1..Len(u) : w[j] = u[j]
      BY <1>1, <2>1, Joined, EmptySeq
    <2>3. 1 \in 1..Len(u) /\ w[1] = u[1]
      <3>1. 1 \in 1..Len(u)
        BY <2>2
      <3> QED
        BY <2>2, <3>1
    <2>4. Head(w) = w[1]
      BY <2>2, Taken
    <2> QED
      BY <2>1, <2>2, <2>3, <2>4
  <1>6. /\ Depth(l.expr) \in Nat /\ Depth(r.expr) \in Nat /\ Depth(item.expr) \in Nat
        /\ Depth(l.expr) <= Depth(item.expr) /\ Depth(r.expr) <= Depth(item.expr)
    <2>1. /\ Depth(l.expr) \in Nat /\ Depth(r.expr) \in Nat /\ Depth(item.expr) \in Nat
      BY <1>1, <1>3, DepthAssumption
    <2>2. Depth(r.expr) <= Depth(item.expr)
      BY <1>1, DepthAssumption
    <2> QED
      BY <1>4, <2>1, <2>2
  <1>7. CASE stack' = stack \o q /\ pc' = pc
    <2>1. Len(stack') = Len(stack) + Len(q)
      BY <1>1, <1>4, <1>7, Joined
    <2>2. Height(l)' = Len(stack) + Len(q) /\ Height(r)' = Len(stack) + Len(q) - (l.owed - r.owed)
      BY <1>1, <1>3, <1>4, <1>5, <2>1 DEF Height
    <2>3. Plain(item.expr) => Plain(l.expr) /\ Plain(r.expr)
      BY <1>1, PlainAssumption
    <2>4. CallOK(l)'
      <3>1. Height(l)' \in Int /\ Height(l)' + Depth(l.expr) <= Len(stack) + Depth(item.expr) /\ l.owed >= owed
        BY <1>1, <1>3, <1>4, <1>6, <2>2
      <3>2. /\ \A j \in 1..Len(q) : q[j] \in l.scope \cup {NULL}
            /\ item.scope \subseteq l.scope /\ l.scope \ item.scope = {}
        BY <1>4
      <3> QED
        BY <1>4, <1>6, <1>7, <2>3, <3>1, <3>2, PartOK
    <2>5. CallOK(r)'
      <3>1. Height(r)' \in Int /\ Height(r)' + Depth(r.expr) <= Len(stack) + Depth(item.expr)
        BY <1>1, <1>3, <1>4, <1>6, <2>2
      <3>2. /\ \A j \in 1..Len(q) : q[j] \in r.scope \cup {NULL}
            /\ item.scope \subseteq r.scope /\ r.scope \ item.scope = {}
        BY <1>4
      <3> QED
        BY <1>4, <1>6, <1>7, <2>3, <3>1, <3>2, PartOK
    <2>6. \A j \in 1..Len(u) : u[j].op = "check" => CallOK(u[j])'
      <3> SUFFICES ASSUME NEW j \in 1..Len(u), u[j].op = "check" PROVE CallOK(u[j])'
        OBVIOUS
      <3>1. u[j] = l \/ u[j] = r
        OBVIOUS
      <3> QED
        BY <2>4, <2>5, <3>1
    <2>7. Plain(file[s].expr) => u[1].owed = owed + Len(q) /\ \A j \in 1..Len(q) : q[j] # NULL
      <3>1. Plain(file[s].expr) => Plain(item.expr)
        BY <1>1 DEF CallOK
      <3> QED
        BY <1>1, <1>4, <3>1
    <2>8. CheckOK'
      BY <1>4, <1>7, <2>6, <2>7, Replaced
    <2>9. TypeOK'
      <3>1. stack' \in Seq(Names \cup {NULL})
        BY <1>1, <1>4, <1>7, Joined
      <3> QED
        BY <1>2, <1>5, <1>7, <3>1, SeenSame DEF TypeOK, Seen
    <2> QED
      BY <1>7, <2>8, <2>9, SeenSame DEF IInv, FitsWhenShallow
  <1>8. CASE pc' = "corrupt" /\ stack' = stack /\ Len(stack) + Len(q) > SStack
    <2>1. TypeOK'
      BY <1>1, <1>2, <1>5, <1>8, SeenSame DEF TypeOK, Seen
    <2>2. Len(q) <= Depth(item.expr)
      BY <1>4, <1>6
    <2>3. FitsWhenShallow'
      BY <1>4, <1>8, <2>2, PushFails
    <2> QED
      BY <1>8, <2>1, <2>3, SeenSame DEF IInv
  <1> QED
    BY <1>7, <1>8 DEF PushAll

(* The items for an application.                                           *)
LEMMA Tuples ==
  ASSUME NEW T, NEW a \in T, NEW b \in T, NEW c \in T, NEW z \in Seq(T)
  PROVE  /\ <<a>> \o <<>> \o <<b>> \o <<>> \o z = <<a, b>> \o z
         /\ <<a>> \o <<c>> \o <<b>> \o <<>> \o z = <<a, c, b>> \o z
         /\ <<a>> \o <<>> \o <<b>> \o <<c>> \o z = <<a, b, c>> \o z
  <1>1. /\ <<a>> \in Seq(T) /\ <<b>> \in Seq(T) /\ <<c>> \in Seq(T)
        /\ <<a, b>> \in Seq(T) /\ <<a, c, b>> \in Seq(T) /\ <<a, c>> \in Seq(T)
    OBVIOUS
  <1>2. \A w \in Seq(T) : w \o <<>> = w
    BY ConcatEmptySeq
  <1>3. \A x, y \in T : <<x>> \o <<y>> = <<x, y>>
    <2> SUFFICES ASSUME NEW x \in T, NEW y \in T PROVE <<x>> \o <<y>> = <<x, y>>
      OBVIOUS
    <2>1. PICK w : w = <<x>> \o <<y>> /\ w \in Seq(T)
      <3>1. <<x>> \o <<y>> \in Seq(T)
        OBVIOUS
      <3> QED
        BY <3>1, Zenon
    <2>2. Len(w) = 2 /\ w[1] = x /\ w[2] = y
      BY <2>1
    <2>3. PICK v : v = <<x, y>> /\ v \in Seq(T)
      <3>1. <<x, y>> \in Seq(T)
        OBVIOUS
      <3> QED
        BY <3>1, Zenon
    <2>4. Len(v) = 2 /\ v[1] = x /\ v[2] = y
      BY <2>3
    <2>5. w = v
      <3>1. Len(w) = Len(v) /\ \A i \in 1..Len(w) : w[i] = v[i]
        BY <2>2, <2>4
      <3> QED
        BY <2>1, <2>3, <3>1, SeqEqual
    <2> QED
      BY <2>1, <2>3, <2>5
  <1>4. \A x, y, z1 \in T : <<x, y>> \o <<z1>> = <<x, y, z1>>
    <2> SUFFICES ASSUME NEW x \in T, NEW y \in T, NEW z1 \in T PROVE <<x, y>> \o <<z1>> = <<x, y, z1>>
      OBVIOUS
    <2>1. PICK w : w = <<x, y>> \o <<z1>> /\ w \in Seq(T)
      <3>1. <<x, y>> \o <<z1>> \in Seq(T)
        OBVIOUS
      <3> QED
        BY <3>1, Zenon
    <2>2. Len(w) = 3 /\ w[1] = x /\ w[2] = y /\ w[3] = z1
      BY <2>1
    <2>3. PICK v : v = <<x, y, z1>> /\ v \in Seq(T)
      <3>1. <<x, y, z1>> \in Seq(T)
        OBVIOUS
      <3> QED
        BY <3>1, Zenon
    <2>4. Len(v) = 3 /\ v[1] = x /\ v[2] = y /\ v[3] = z1
      BY <2>3
    <2>5. w = v
      <3>1. Len(w) = Len(v) /\ \A i \in 1..Len(w) : w[i] = v[i]
        BY <2>2, <2>4
      <3> QED
        BY <2>1, <2>3, <3>1, SeqEqual
    <2> QED
      BY <2>1, <2>3, <2>5
  <1>5. <<a>> \o <<>> \o <<b>> \o <<>> = <<a, b>>
    BY <1>1, <1>2, <1>3, Zenon
  <1>6. <<a>> \o <<c>> \o <<b>> \o <<>> = <<a, c, b>>
    BY <1>1, <1>2, <1>3, <1>4, Zenon
  <1>7. <<a>> \o <<>> \o <<b>> \o <<c>> = <<a, b, c>>
    <2>1. <<a>> \o <<>> = <<a>> /\ <<a>> \o <<b>> = <<a, b>> /\ <<a, b>> \o <<c>> = <<a, b, c>>
      BY <1>1, <1>2, <1>3, <1>4, Zenon
    <2> QED
      BY <2>1, Zenon
  <1> QED
    BY <1>5, <1>6, <1>7, Zenon

(* An application: the marker for a function on its left, the two calls,   *)
(* and the pop before or after the second.                                 *)
LEMMA CheckAppInv ==
  ASSUME IInv, CheckApp
  PROVE  IInv'
  <1>1. PICK left, right, before, after, q :
          /\ left = item.expr.left /\ right = item.expr.right
          /\ before = IF IsAbs(left) /\ ~IsAbs(right) THEN Pops(1) ELSE <<>>
          /\ after = IF IsAbs(right) THEN Pops(1) ELSE <<>>
          /\ q = IF IsAbs(left) THEN <<NULL>> ELSE <<>>
          /\ PushAll(q)
          /\ work' = <<Check(left, item.scope, owed + Len(before) + Len(after))>> \o before
                       \o <<Check(right, item.scope, owed + Len(after))>> \o after \o rest
    BY DEF CheckApp
  <1>2. /\ pc = "check" /\ work # <<>> /\ item.op = "check" /\ item.expr.type = "APP"
        /\ UNCHANGED <<file, s, seen>>
    BY DEF CheckApp
  <1>3. item.expr \in Exprs /\ item.scope \in SUBSET Names /\ owed \in Nat
    BY <1>2, ItemKnown, CallKnown
  <1>13. rest \in Seq(Items)
    BY <1>2, ItemKnown, CallKnown
  <1>4. left \in Exprs /\ right \in Exprs
    BY <1>1, <1>2, <1>3, ExprsAssumption
  <1>5. /\ Depth(left) \in Nat /\ Depth(right) \in Nat /\ Depth(item.expr) \in Nat
        /\ Depth(item.expr) >= Marker(left) + Depth(left)
        /\ Depth(item.expr) >= Depth(right)
        /\ IsAbs(right) => Depth(item.expr) >= Marker(left) + Depth(right)
    BY <1>1, <1>2, <1>3, <1>4, DepthAssumption
  <1>6. q \in Seq({NULL}) /\ Len(q) = Marker(left) /\ Len(q) \in {0, 1}
    <2>1. CASE IsAbs(left)
      <3>1. q = <<NULL>> /\ Marker(left) = 1
        BY <1>1, <2>1 DEF Marker
      <3> QED
        BY <3>1
    <2>2. CASE ~IsAbs(left)
      <3>1. q = <<>> /\ Marker(left) = 0
        BY <1>1, <2>2 DEF Marker
      <3> QED
        BY <3>1
    <2> QED
      BY <2>1, <2>2
  <1>7. Plain(item.expr) => ~IsAbs(left) /\ ~IsAbs(right)
    BY <1>1, <1>2, <1>3, PlainAssumption
  <1>8. PICK p \in Items : p = Pop(owed + 1) /\ p.op = "pop" /\ p.owed = owed + 1 /\ Pops(1) = <<p>>
    <2>0. owed + 1 \in Nat /\ \A o \in Nat : Pop(o) \in Items
      BY <1>3 DEF Pop, Items
    <2>1. PICK p \in Items : p = Pop(owed + 1)
      BY <2>0
    <2>2. p.op = "pop" /\ p.owed = owed + 1
      BY <2>1 DEF Pop
    <2>3. \A j \in 1..1 : owed + 1 + 1 - j = owed + 1
      BY <1>3
    <2>4. Pops(1) = [j \in 1..1 |-> p]
      BY <2>1, <2>3 DEF Pops
    <2>5. [j \in 1..1 |-> p] = <<p>>
      OBVIOUS
    <2> QED
      BY <2>1, <2>2, <2>4, <2>5
  <1> DEFINE known(x, e, o) == x.op = "check" /\ x.expr = e /\ x.scope = item.scope /\ x.owed = o
  <1>9. \A e \in Exprs : \A o \in Nat : Check(e, item.scope, o) \in Items /\ known(Check(e, item.scope, o), e, o)
    BY <1>3 DEF Check, Items
  <1>10. CASE ~IsAbs(left) /\ ~IsAbs(right)
    <2>1. PICK l \in Items, r \in Items : /\ l = Check(left, item.scope, owed) /\ known(l, left, owed)
                                          /\ r = Check(right, item.scope, owed) /\ known(r, right, owed)
      BY <1>3, <1>4, <1>9
    <2>2. before = <<>> /\ after = <<>> /\ Len(before) = 0 /\ Len(after) = 0
      BY <1>1, <1>10
    <2>3. work' = <<l>> \o <<>> \o <<r>> \o <<>> \o rest
      <3>1. /\ owed + Len(before) + Len(after) = owed
            /\ owed + Len(after) = owed
        BY <1>3, <2>2
      <3> QED
        BY <1>1, <2>1, <2>2, <3>1, Zenon
    <2>4. PICK u : u = <<l, r>>
      OBVIOUS
    <2>5. work' = u \o rest
      BY <1>13, <1>8, <2>1, <2>3, <2>4, Tuples
    <2>6. u \in Seq(Items) /\ u # <<>> /\ Len(u) = 2 /\ u[1] = l /\ u[2] = r
      BY <2>4
    <2>7. Owing(u, owed)
      BY <1>3, <2>1, <2>6 DEF Owing, Popping, After
    <2>8. \A j \in 1..Len(u) : u[j].op = "check" => u[j] = l \/ u[j] = r
      BY <2>6
    <2>9. /\ r.owed >= owed /\ l.owed >= owed + Len(q)
          /\ Len(q) + Depth(l.expr) <= Depth(item.expr)
          /\ Len(q) - (l.owed - r.owed) + Depth(r.expr) <= Depth(item.expr)
      BY <1>3, <1>5, <1>6, <1>10, <2>1 DEF Marker
    <2>10. Plain(item.expr) => l.owed = owed /\ Len(q) = 0
      BY <1>6, <1>10, <2>1 DEF Marker
    <2>11. u[1] = l /\ u # <<>> /\ u \in Seq(Items)
      BY <2>6
    <2> QED
      BY <1>1, <1>2, <1>6, <2>1, <2>5, <2>7, <2>8, <2>9, <2>10, <2>11, SidesOK
  <1>11. CASE IsAbs(left) /\ ~IsAbs(right)
    <2>1. PICK l \in Items, r \in Items : /\ l = Check(left, item.scope, owed + 1) /\ known(l, left, owed + 1)
                                          /\ r = Check(right, item.scope, owed) /\ known(r, right, owed)
      BY <1>3, <1>4, <1>9
    <2>2. before = <<p>> /\ after = <<>> /\ Len(before) = 1 /\ Len(after) = 0
      BY <1>1, <1>8, <1>11
    <2>3. work' = <<l>> \o <<p>> \o <<r>> \o <<>> \o rest
      <3>1. /\ owed + Len(before) + Len(after) = owed + 1
            /\ owed + Len(after) = owed
        BY <1>3, <2>2
      <3> QED
        BY <1>1, <2>1, <2>2, <3>1, Zenon
    <2>4. PICK u : u = <<l, p, r>>
      OBVIOUS
    <2>5. work' = u \o rest
      BY <1>13, <1>8, <2>1, <2>3, <2>4, Tuples
    <2>6. u \in Seq(Items) /\ u # <<>> /\ Len(u) = 3 /\ u[1] = l /\ u[2] = p /\ u[3] = r
      BY <2>4
    <2>7. Owing(u, owed)
      BY <1>3, <1>8, <2>1, <2>6 DEF Owing, Popping, After
    <2>8. \A j \in 1..Len(u) : u[j].op = "check" => u[j] = l \/ u[j] = r
      BY <1>8, <2>6
    <2>9. /\ r.owed >= owed /\ l.owed >= owed + Len(q)
          /\ Len(q) + Depth(l.expr) <= Depth(item.expr)
          /\ Len(q) - (l.owed - r.owed) + Depth(r.expr) <= Depth(item.expr)
      BY <1>3, <1>5, <1>6, <1>11, <2>1 DEF Marker
    <2> QED
      BY <1>1, <1>2, <1>6, <1>7, <1>11, <2>1, <2>5, <2>6, <2>7, <2>8, <2>9, SidesOK
  <1>12. CASE IsAbs(right)
    <2>1. PICK l \in Items, r \in Items : /\ l = Check(left, item.scope, owed + 1) /\ known(l, left, owed + 1)
                                          /\ r = Check(right, item.scope, owed + 1) /\ known(r, right, owed + 1)
      BY <1>3, <1>4, <1>9
    <2>2. before = <<>> /\ after = <<p>> /\ Len(before) = 0 /\ Len(after) = 1
      BY <1>1, <1>8, <1>12
    <2>3. work' = <<l>> \o <<>> \o <<r>> \o <<p>> \o rest
      <3>1. /\ owed + Len(before) + Len(after) = owed + 1
            /\ owed + Len(after) = owed + 1
        BY <1>3, <2>2
      <3> QED
        BY <1>1, <2>1, <2>2, <3>1, Zenon
    <2>4. PICK u : u = <<l, r, p>>
      OBVIOUS
    <2>5. work' = u \o rest
      BY <1>13, <1>8, <2>1, <2>3, <2>4, Tuples
    <2>6. u \in Seq(Items) /\ u # <<>> /\ Len(u) = 3 /\ u[1] = l /\ u[2] = r /\ u[3] = p
      BY <2>4
    <2>7. Owing(u, owed)
      BY <1>3, <1>8, <2>1, <2>6 DEF Owing, Popping, After
    <2>8. \A j \in 1..Len(u) : u[j].op = "check" => u[j] = l \/ u[j] = r
      BY <1>8, <2>6
    <2>9. /\ r.owed >= owed /\ l.owed >= owed + Len(q)
          /\ Len(q) + Depth(l.expr) <= Depth(item.expr)
          /\ Len(q) - (l.owed - r.owed) + Depth(r.expr) <= Depth(item.expr)
      BY <1>3, <1>5, <1>6, <1>12, <2>1
    <2> QED
      BY <1>1, <1>2, <1>6, <1>7, <1>12, <2>1, <2>5, <2>6, <2>7, <2>8, <2>9, SidesOK
  <1> QED
    BY <1>10, <1>11, <1>12

-----------------------------------------------------------------------------
(* Nothing has been checked yet.                                           *)
LEMMA InitInv == Init => IInv
  <1> SUFFICES ASSUME Init PROVE IInv
    OBVIOUS
  <1>1. /\ file \in Files /\ s = 0 /\ work = <<>> /\ stack = <<>> /\ pc = "statement" /\ seen = {}
    BY DEF Init
  <1>2. Len(file) \in Nat
    BY <1>1, FilesAssumption
  <1>3. TypeOK
    BY <1>1, <1>2 DEF TypeOK
  <1>4. WarningsRight /\ FitsWhenShallow
    BY <1>1 DEF WarningsRight, FitsWhenShallow
  <1> QED
    BY <1>1, <1>3, <1>4 DEF IInv

(* Every step of the checker keeps the invariant.                          *)
LEMMA StepInv ==
  ASSUME IInv, [Next]_vars
  PROVE  IInv'
  <1>1. CASE CheckIdent
    BY <1>1, CheckIdentInv
  <1>2. CASE CheckAbs
    BY <1>2, CheckAbsInv
  <1>3. CASE CheckApp
    BY <1>3, CheckAppInv
  <1>4. CASE PopName
    BY <1>4, PopNameInv
  <1>5. CASE NextStatement \/ Checked \/ EndStatement \/ Terminated \/ UNCHANGED vars
    BY <1>5, BetweenInv
  <1> QED
    BY <1>1, <1>2, <1>3, <1>4, <1>5 DEF Next, Step

(* The invariant of the checker: whatever is left to be done, what it owes *)
(* in pops bounds the height the stack has when its turn comes, and what   *)
(* is on the stack up to there is bound around it.                         *)
THEOREM Invariant == Spec => []IInv
  <1>1. IInv /\ [Next]_vars => IInv'
    BY StepInv
  <1> QED
    BY InitInv, <1>1, PTL DEF Spec

(* The types of the checker's variables.                                   *)
THEOREM TypesRight == Spec => []TypeOK
  <1>1. IInv => TypeOK
    BY DEF IInv
  <1> QED
    BY Invariant, <1>1, PTL

(* ast_check warns of every identifier that no abstraction around it binds *)
(* and no statement so far declares, though frames hide names from         *)
(* stack_exists and stack_pop takes names that no push of its own left;    *)
(* and of no other one in an expression without an abstraction for a child *)
(* of an application.                                                      *)
THEOREM Warnings == Spec => []WarningsRight
  <1>1. IInv => WarningsRight
    BY DEF IInv
  <1> QED
    BY Invariant, <1>1, PTL

(* stack_push stays within the memory of the stack when no expression      *)
(* nests deeper than s_stack, pops without a push included.                *)
THEOREM StackFits == Spec => []FitsWhenShallow
  <1>1. IInv => FitsWhenShallow
    BY DEF IInv
  <1> QED
    BY Invariant, <1>1, PTL
=============================================================================

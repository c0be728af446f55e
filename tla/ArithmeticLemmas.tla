-------------------------- MODULE ArithmeticLemmas --------------------------
(***************************************************************************)
(* Facts about division and about sets of numbers that the proofs about    *)
(* the allocator and the hash map need.                                    *)
(***************************************************************************)
EXTENDS Integers, WellFoundedInduction, TLAPS

(* Quotient and remainder.                                                 *)
LEMMA Division ==
  ASSUME NEW x \in Nat, NEW y \in Nat \ {0}
  PROVE  /\ x \div y \in Nat /\ x % y \in 0..(y - 1)
         /\ x = y * (x \div y) + (x % y)
         /\ y * (x \div y) <= x
         /\ x < y * (x \div y) + y
  <1>1. x \div y \in Int /\ x % y \in 0..(y - 1)
    OBVIOUS
  <1>2. x = y * (x \div y) + (x % y)
    OBVIOUS
  <1> QED
    BY <1>1, <1>2

(* There is one quotient.                                                  *)
LEMMA Quotient ==
  ASSUME NEW y \in Nat \ {0}, NEW q \in Int, NEW c \in Int, NEW x \in Nat,
         y * q <= x, x < y * q + y, y * c <= x, x < y * c + y
  PROVE  q = c
  <1>1. CASE q < c
    <2>1. y * (q + 1) <= y * c
      BY <1>1
    <2> QED
      BY <2>1
  <1>2. CASE c < q
    <2>1. y * (c + 1) <= y * q
      BY <1>2
    <2> QED
      BY <2>1
  <1> QED
    BY <1>1, <1>2

(* The remainder by n can be taken from the remainder by 2 n.              *)
LEMMA Halving ==
  ASSUME NEW h \in Nat, NEW n \in Nat \ {0}
  PROVE  h % n = (h % (2 * n)) % n
  <1> DEFINE q == h \div (2 * n)
             r == h % (2 * n)
             p == r \div n
             m == r % n
  <1>1. 2 * n \in Nat \ {0}
    OBVIOUS
  <1>2. q \in Nat /\ r \in 0..(2 * n - 1) /\ h = (2 * n) * q + r
    <2> DEFINE t == 2 * n
    <2>1. t \in Nat \ {0}
      OBVIOUS
    <2> HIDE DEF t
    <2>2. h \div t \in Nat /\ h % t \in 0..(t - 1) /\ h = t * (h \div t) + (h % t)
      BY <2>1, Division
    <2> QED
      BY <2>2 DEF t
  <1> HIDE DEF q, r
  <1>3. p \in Nat /\ m \in 0..(n - 1) /\ r = n * p + m
    <2>1. r \in Nat
      BY <1>1, <1>2
    <2> QED
      BY <2>1, Division
  <1>6. m = r % n
    OBVIOUS
  <1> HIDE DEF p, m
  <1>4. h = n * (2 * q + p) + m
    BY <1>2, <1>3
  <1>5. h % n = m
    <2>1. /\ h \div n \in Nat /\ h % n \in 0..(n - 1)
          /\ h = n * (h \div n) + (h % n)
      BY Division
    <2>2. h \div n = 2 * q + p
      <3>1. 2 * q + p \in Int /\ n * (2 * q + p) <= h /\ h < n * (2 * q + p) + n
        BY <1>2, <1>3, <1>4
      <3>2. h \div n \in Int /\ n * (h \div n) <= h /\ h < n * (h \div n) + n
        BY Division
      <3> QED
        BY <3>1, <3>2, Quotient
    <2> QED
      BY <1>2, <1>3, <1>4, <2>1, <2>2
  <1> QED
    BY <1>5, <1>6 DEF r

(* A set of numbers that has a member has a least one.                     *)
LEMMA Smallest ==
  ASSUME NEW J \in SUBSET Nat, J # {}
  PROVE  \E x \in J : \A y \in J : x <= y
  <1> DEFINE Less == OpToRel(<, Nat)
  <1>1. IsWellFoundedOn(Less, Nat)
    BY NatLessThanWellFounded
  <1>2. \A x, y \in Nat : y < x => <<y, x>> \in Less
    BY DEF OpToRel
  <1> HIDE DEF Less
  <1>3. PICK x \in J : \A y \in J : ~(<<y, x>> \in Less)
    BY <1>1, WFMin
  <1>4. \A y \in J : ~(y < x)
    BY <1>2, <1>3
  <1> QED
    BY <1>4

(* f is first at 0, and every next value is had from the one before it.    *)
Stepped(f, N, T, first, step) ==
  f \in [0..N -> T] /\ f[0] = first /\ \A n \in 1..N : f[n] = step[n][f[n - 1]]

(* A function that is defined from number to number exists.                *)
LEMMA Stepwise ==
  ASSUME NEW N \in Nat, NEW T, NEW first \in T, NEW step \in [1..N -> [T -> T]]
  PROVE  \E f : Stepped(f, N, T, first, step)
  <1> USE DEF Stepped
  <1> DEFINE Upto(m, f) == Stepped(f, m, T, first, step)
             J == {m \in 0..N : ~\E f : Upto(m, f)}
  <1>1. SUFFICES J = {}
    <2>1. \E f : Upto(N, f)
      BY <1>1
    <2> QED
      BY <2>1
  <1>2. SUFFICES ASSUME J # {}
                 PROVE  FALSE
    OBVIOUS
  <1>3. J \in SUBSET Nat
    OBVIOUS
  <1>4. PICK m \in J : \A y \in J : m <= y
    BY <1>2, <1>3, Smallest
  <1>5. CASE m = 0
    <2> DEFINE f == [n \in 0..0 |-> first]
    <2>1. f \in [0..0 -> T] /\ f[0] = first
      OBVIOUS
    <2> HIDE DEF f
    <2>2. Upto(0, f)
      BY <2>1
    <2> QED
      BY <1>4, <1>5, <2>2
  <1>6. CASE m > 0
    <2>1. m - 1 \in 0..N /\ m \in 1..N /\ ~(m - 1 \in J)
      <3>1. m \in 0..N
        OBVIOUS
      <3>2. m - 1 \in 0..N /\ m \in 1..N /\ ~(m <= m - 1)
        BY <1>6, <3>1
      <3> HIDE DEF J
      <3> QED
        BY <1>4, <3>2
    <2>2. PICK f : Upto(m - 1, f)
      BY <2>1
    <2> DEFINE x == step[m][f[m - 1]]
               g == [n \in 0..m |-> IF n = m THEN x ELSE f[n]]
    <2>3. x \in T
      BY <2>1, <2>2
    <2> HIDE DEF x
    <2>4. /\ g \in [0..m -> T]
          /\ g[m] = x /\ \A n \in 0..(m - 1) : g[n] = f[n]
      BY <2>1, <2>2, <2>3
    <2> HIDE DEF g
    <2>5. g[0] = first
      BY <2>1, <2>2, <2>4
    <2>6. ASSUME NEW n \in 1..m
          PROVE  g[n] = step[n][g[n - 1]]
      <3>1. n - 1 \in 0..(m - 1) /\ g[n - 1] = f[n - 1]
        BY <2>1, <2>4
      <3>2. CASE n = m
        BY <2>4, <3>1, <3>2 DEF x
      <3>3. CASE n # m
        <4>1. n \in 1..(m - 1) /\ g[n] = f[n]
          BY <2>1, <2>4, <3>3
        <4> QED
          BY <2>2, <3>1, <4>1
      <3> QED
        BY <3>2, <3>3
    <2>7. Upto(m, g)
      BY <2>4, <2>5, <2>6
    <2> QED
      BY <1>4, <2>7
  <1> QED
    BY <1>3, <1>4, <1>5, <1>6

(* What holds of 0 and of every next number holds of all up to N.          *)
LEMMA Upward ==
  ASSUME NEW N \in Nat, NEW S, 0 \in S, \A n \in 1..N : n - 1 \in S => n \in S
  PROVE  \A n \in 0..N : n \in S
  <1> DEFINE J == {n \in 0..N : n \notin S}
  <1>1. SUFFICES ASSUME J # {}
                 PROVE  FALSE
    OBVIOUS
  <1>2. J \in SUBSET Nat
    OBVIOUS
  <1>3. PICK m \in J : \A y \in J : m <= y
    BY <1>1, <1>2, Smallest
  <1>4. m # 0 /\ m \in 1..N
    BY <1>3
  <1>5. m - 1 \in 0..N /\ m - 1 \notin J
    BY <1>2, <1>3, <1>4
  <1> QED
    BY <1>3, <1>4, <1>5
=============================================================================

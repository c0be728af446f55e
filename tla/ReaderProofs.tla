---------------------------- MODULE ReaderProofs ----------------------------
(***************************************************************************)
(* What is true of the columns and of the lines of messages for every text *)
(* and every sequence of tokens.                                           *)
(***************************************************************************)
EXTENDS Reader, ArithmeticLemmas, SequenceTheorems, FiniteSetTheorems

Pieces ==
  [kind : {"token", "blank", "newline", "comment", "lines", "other"}, first : Nat \ {0},
   mid : Seq(Nat), rest : Nat]

-----------------------------------------------------------------------------
(* Sums and counts.                                                        *)

(* The sum of a sequence is at least each of its members.                  *)
LEMMA SumBounds ==
  ASSUME NEW q \in Seq(Nat)
  PROVE  /\ Lex!Sum(q) \in Nat /\ \A j \in 1..Len(q) : q[j] <= Lex!Sum(q)
         /\ q = <<>> => Lex!Sum(q) = 0
  <1> DEFINE N == Len(q)
             Is(u) == u = [n \in 0..N |-> IF n = 0 THEN 0 ELSE u[n - 1] + q[n]]
             upto == CHOOSE u : Is(u)
  <1>1. N \in Nat /\ \A n \in 1..N : q[n] \in Nat
    BY LenProperties, ElementOfSeq
  <1>2. Lex!Sum(q) = upto[N] /\ (q = <<>> => N = 0)
    BY DEF Lex!Sum
  <1> HIDE DEF N
  <1>3. \E u : Is(u)
    <2> DEFINE step == [n \in 1..N |-> [b \in Nat |-> b + q[n]]]
    <2>1. step \in [1..N -> [Nat -> Nat]]
      BY <1>1
    <2>2. \A n \in 1..N : \A b \in Nat : step[n][b] = b + q[n]
      OBVIOUS
    <2> HIDE DEF step
    <2>3. PICK f : Stepped(f, N, Nat, 0, step)
      <3>1. 0 \in Nat /\ N \in Nat
        BY <1>1
      <3> QED
        BY <2>1, <3>1, Stepwise, Zenon
    <2>4. \A n \in 1..N : f[n] = f[n - 1] + q[n]
      <3>1. \A n \in 1..N : n - 1 \in 0..N
        BY <1>1
      <3> QED
        BY <2>2, <2>3, <3>1 DEF Stepped
    <2>5. \A n \in 0..N : f[n] = IF n = 0 THEN 0 ELSE f[n - 1] + q[n]
      BY <1>1, <2>3, <2>4 DEF Stepped
    <2>6. Is(f)
      BY <2>3, <2>5 DEF Stepped
    <2> QED
      BY <2>6
  <1>4. Is(upto)
    BY <1>3
  <1> HIDE DEF upto
  <1>5. upto[0] = 0 /\ \A n \in 1..N : upto[n] = upto[n - 1] + q[n]
    BY <1>1, <1>4
  <1> DEFINE S == {n \in 0..N : upto[n] \in Nat /\ \A j \in 1..n : q[j] <= upto[n]}
  <1>6. 0 \in S
    BY <1>1, <1>5
  <1>7. ASSUME NEW n \in 1..N, n - 1 \in S
        PROVE  n \in S
    <2>1. upto[n - 1] \in Nat /\ (\A j \in 1..(n - 1) : q[j] <= upto[n - 1]) /\ upto[n] = upto[n - 1] + q[n]
      BY <1>5, <1>7
    <2>2. upto[n] \in Nat /\ q[n] <= upto[n] /\ upto[n - 1] <= upto[n]
      BY <1>1, <2>1
    <2>3. ASSUME NEW j \in 1..n
          PROVE  q[j] <= upto[n]
      <3>1. CASE j = n
        BY <2>2, <3>1
      <3>2. CASE j # n
        <4>1. j \in 1..(n - 1) /\ q[j] \in Nat
          BY <1>1, <3>2
        <4> QED
          BY <2>1, <2>2, <4>1
      <3> QED
        BY <3>1, <3>2
    <2> QED
      BY <1>1, <2>2, <2>3
  <1> HIDE DEF S
  <1>8. \A n \in 0..N : n \in S
    BY <1>1, <1>6, <1>7, Upward
  <1>9. N \in S
    BY <1>1, <1>8
  <1> QED
    BY <1>2, <1>5, <1>9 DEF S, N

(* Counting on by one.                                                     *)
LEMMA CountStep ==
  ASSUME NEW S, NEW n \in Nat
  PROVE  LET Count(m) == {j \in 1..m : j \in S}
         IN  /\ IsFiniteSet(Count(n)) /\ Cardinality(Count(n)) \in Nat
             /\ Cardinality(Count(n + 1)) = Cardinality(Count(n)) + (IF n + 1 \in S THEN 1 ELSE 0)
  <1> DEFINE Count(m) == {j \in 1..m : j \in S}
  <1>1. IsFiniteSet(Count(n)) /\ Cardinality(Count(n)) \in Nat
    <2>1. IsFiniteSet(1..n) /\ Count(n) \subseteq 1..n
      BY FS_Interval
    <2> QED
      BY <2>1, FS_Subset, FS_CardinalityType
  <1>2. CASE n + 1 \in S
    <2>1. Count(n + 1) = Count(n) \cup {n + 1} /\ n + 1 \notin Count(n)
      BY <1>2
    <2> QED
      BY <1>1, <1>2, <2>1, FS_AddElement
  <1>3. CASE n + 1 \notin S
    <2>1. Count(n + 1) = Count(n)
      BY <1>3
    <2> QED
      BY <1>1, <1>3, <2>1
  <1> QED
    BY <1>1, <1>2, <1>3

(* Counting on.                                                            *)
LEMMA CountOn ==
  ASSUME NEW S, NEW n \in Nat, NEW m \in 0..n
  PROVE  LET Count(k) == {j \in 1..k : j \in S}
         IN  Cardinality(Count(m)) <= Cardinality(Count(n))
  <1>1. {j \in 1..m : j \in S} \subseteq {j \in 1..n : j \in S}
    OBVIOUS
  <1> QED
    BY <1>1, CountStep, FS_Subset

(* None is counted among the first of none.                                *)
LEMMA CountNone ==
  ASSUME NEW S
  PROVE  Cardinality({j \in 1..0 : j \in S}) = 0
  <1>1. {j \in 1..0 : j \in S} = {}
    OBVIOUS
  <1> QED
    BY <1>1, FS_EmptySet

-----------------------------------------------------------------------------
(* Lines, columns and tokens of a text.                                    *)

TokensIn(n) == {j \in 1..n : text[j].kind = "token"}

(* The tokens among the pieces are counted one by one.                     *)
LEMMA TokenSteps ==
  ASSUME NEW n \in Nat
  PROVE  /\ Cardinality(TokensIn(n)) \in Nat /\ Cardinality(TokensIn(0)) = 0
         /\ Cardinality(TokensIn(n + 1)) = Cardinality(TokensIn(n)) + (IF text[n + 1].kind = "token" THEN 1 ELSE 0)
         /\ \A m \in 0..n : Cardinality(TokensIn(m)) <= Cardinality(TokensIn(n))
  <1> DEFINE S == {j \in 1..(n + 1) : text[j].kind = "token"}
             Count(m) == {j \in 1..m : j \in S}
  <1>1. \A m \in 0..(n + 1) : TokensIn(m) = Count(m)
    BY DEF TokensIn
  <1>2. n + 1 \in S <=> text[n + 1].kind = "token"
    OBVIOUS
  <1> HIDE DEF S
  <1>3. /\ Cardinality(Count(n)) \in Nat
        /\ Cardinality(Count(n + 1)) = Cardinality(Count(n)) + (IF n + 1 \in S THEN 1 ELSE 0)
    BY CountStep
  <1>4. Cardinality(Count(0)) = 0
    BY CountNone
  <1>5. \A m \in 0..n : Cardinality(Count(m)) <= Cardinality(Count(n))
    BY CountOn
  <1> HIDE DEF Count
  <1>6. n \in 0..(n + 1) /\ n + 1 \in 0..(n + 1) /\ 0 \in 0..(n + 1) /\ \A m \in 0..n : m \in 0..(n + 1)
    OBVIOUS
  <1>7. TokensIn(n) = Count(n) /\ TokensIn(n + 1) = Count(n + 1) /\ TokensIn(0) = Count(0)
    BY <1>1, <1>6
  <1>8. \A m \in 0..n : TokensIn(m) = Count(m)
    BY <1>1, <1>6
  <1> QED
    BY <1>2, <1>3, <1>4, <1>5, <1>7, <1>8

(* A piece of the text.                                                    *)
LEMMA PieceType ==
  ASSUME text \in Seq(Pieces)
  PROVE  /\ Len(text) \in Nat
         /\ \A n \in 1..Len(text) : /\ text[n] \in Pieces
                                    /\ text[n].first \in Nat \ {0} /\ text[n].rest \in Nat
                                    /\ text[n].mid \in Seq(Nat) /\ Len(text[n].mid) \in Nat
                                    /\ Lex!Sum(text[n].mid) \in Nat /\ Lex!Breaks(text[n]) \in Nat
                                    /\ text[n].kind \in {"token", "blank", "newline", "comment", "lines", "other"}
  <1>1. Len(text) \in Nat /\ \A n \in 1..Len(text) : text[n] \in Pieces
    BY LenProperties, ElementOfSeq
  <1>2. ASSUME NEW n \in 1..Len(text)
        PROVE  /\ text[n].mid \in Seq(Nat) /\ Len(text[n].mid) \in Nat
               /\ Lex!Sum(text[n].mid) \in Nat /\ Lex!Breaks(text[n]) \in Nat
    <2>1. text[n].mid \in Seq(Nat)
      BY <1>1 DEF Pieces
    <2>2. Len(text[n].mid) \in Nat /\ Lex!Sum(text[n].mid) \in Nat
      BY <2>1, LenProperties, SumBounds
    <2> QED
      BY <2>1, <2>2 DEF Lex!Breaks
  <1> QED
    BY <1>1, <1>2 DEF Pieces

(* Lines are counted from piece to piece.                                  *)
LEMMA LineSteps ==
  ASSUME text \in Seq(Pieces)
  PROVE  /\ LineOf[1] = 1
         /\ \A n \in 1..Len(text) : LineOf[n + 1] = LineOf[n] + Lex!Breaks(text[n])
         /\ \A n \in 1..(Len(text) + 1) : LineOf[n] \in Nat /\ 1 <= LineOf[n]
         /\ \A n \in 1..(Len(text) + 1) : \A m \in 1..n : LineOf[m] <= LineOf[n]
  <1> DEFINE N == Len(text)
             Is(u) == u = [n \in 1..(N + 1) |-> IF n = 1 THEN 1 ELSE u[n - 1] + Lex!Breaks(text[n - 1])]
             row == CHOOSE u : Is(u)
  <1>1. N \in Nat /\ \A n \in 1..N : Lex!Breaks(text[n]) \in Nat
    BY PieceType
  <1>2. LineOf = row
    BY DEF LineOf
  <1> HIDE DEF N
  <1>3. \E u : Is(u)
    <2> DEFINE step == [n \in 1..N |-> [b \in Nat |-> b + Lex!Breaks(text[n])]]
    <2>1. step \in [1..N -> [Nat -> Nat]]
      BY <1>1
    <2>2. \A n \in 1..N : \A b \in Nat : step[n][b] = b + Lex!Breaks(text[n])
      OBVIOUS
    <2> HIDE DEF step
    <2>3. PICK f : Stepped(f, N, Nat, 1, step)
      <3>1. 1 \in Nat /\ N \in Nat
        BY <1>1
      <3> QED
        BY <2>1, <3>1, Stepwise, Zenon
    <2>4. f[0] = 1 /\ \A n \in 1..N : f[n] = f[n - 1] + Lex!Breaks(text[n])
      <3>1. \A n \in 1..N : n - 1 \in 0..N
        BY <1>1
      <3> QED
        BY <2>2, <2>3, <3>1 DEF Stepped
    <2> DEFINE u == [n \in 1..(N + 1) |-> f[n - 1]]
    <2>5. \A n \in 1..(N + 1) : u[n] = IF n = 1 THEN 1 ELSE u[n - 1] + Lex!Breaks(text[n - 1])
      <3>1. \A n \in 1..(N + 1) : n # 1 => n - 1 \in 1..N /\ n - 1 \in 1..(N + 1)
        BY <1>1
      <3> QED
        BY <2>4, <3>1
    <2>6. Is(u)
      <3> HIDE DEF u
      <3>1. u = [n \in 1..(N + 1) |-> u[n]]
        BY DEF u
      <3> QED
        BY <2>5, <3>1
    <2> QED
      BY <2>6
  <1>4. Is(row)
    BY <1>3
  <1> HIDE DEF row
  <1>5. row[1] = 1 /\ \A n \in 1..N : row[n + 1] = row[n] + Lex!Breaks(text[n])
    <2>1. 1 \in 1..(N + 1) /\ \A n \in 1..N : n + 1 \in 1..(N + 1) /\ n + 1 # 1 /\ n + 1 - 1 = n
      BY <1>1
    <2>2. \A n \in 1..(N + 1) : row[n] = IF n = 1 THEN 1 ELSE row[n - 1] + Lex!Breaks(text[n - 1])
      BY <1>4, Zenon
    <2> QED
      BY <2>1, <2>2
  <1> DEFINE S == {n \in 0..N : row[n + 1] \in Nat /\ 1 <= row[n + 1]
                               /\ \A m \in 1..(n + 1) : row[m] \in Nat /\ row[m] <= row[n + 1]}
  <1>6. 0 \in S
    BY <1>1, <1>5
  <1>7. ASSUME NEW n \in 1..N, n - 1 \in S
        PROVE  n \in S
    <2>1. row[n] \in Nat /\ 1 <= row[n] /\ \A m \in 1..n : row[m] \in Nat /\ row[m] <= row[n]
      BY <1>7
    <2>2. row[n + 1] \in Nat /\ 1 <= row[n + 1] /\ row[n] <= row[n + 1]
      BY <1>1, <1>5, <2>1
    <2>3. ASSUME NEW m \in 1..(n + 1)
          PROVE  row[m] \in Nat /\ row[m] <= row[n + 1]
      <3>1. CASE m = n + 1
        BY <2>2, <3>1
      <3>2. CASE m # n + 1
        <4>1. m \in 1..n
          BY <3>2
        <4> QED
          BY <2>1, <2>2, <4>1
      <3> QED
        BY <3>1, <3>2
    <2> QED
      BY <1>1, <2>2, <2>3
  <1> HIDE DEF S
  <1>8. \A n \in 0..N : n \in S
    BY <1>1, <1>6, <1>7, Upward
  <1>9. \A n \in 1..(N + 1) : row[n] \in Nat /\ 1 <= row[n] /\ \A m \in 1..n : row[m] <= row[n]
    <2>1. \A n \in 1..(N + 1) : n - 1 \in 0..N /\ n - 1 + 1 = n
      BY <1>1
    <2> QED
      BY <1>8, <2>1 DEF S
  <1> QED
    BY <1>2, <1>5, <1>9 DEF N

(* How many characters of its line are before a piece.                     *)
AfterPiece(n, b) ==
  IF text[n].kind = "newline" THEN 0
  ELSE IF text[n].kind \in Lex!Breaking THEN text[n].rest
  ELSE b + text[n].first

(* Before is what its definition says, from piece to piece.                *)
LEMMA BeforeSteps ==
  ASSUME text \in Seq(Pieces)
  PROVE  /\ Lex!Before[0] = 0 /\ \A n \in 0..Len(text) : Lex!Before[n] \in Nat
         /\ \A n \in 1..Len(text) : Lex!Before[n] = AfterPiece(n, Lex!Before[n - 1])
  <1> DEFINE N == Len(text)
             Is(u) == u = [n \in 0..N |-> IF n = 0 THEN 0
                                          ELSE IF text[n].kind = "newline" THEN 0
                                          ELSE IF text[n].kind \in Lex!Breaking THEN text[n].rest
                                          ELSE u[n - 1] + text[n].first]
             before == CHOOSE u : Is(u)
  <1>1. N \in Nat /\ \A n \in 1..N : \A b \in Nat : AfterPiece(n, b) \in Nat
    <2>1. Len(text) \in Nat /\ \A n \in 1..Len(text) : text[n].first \in Nat /\ text[n].rest \in Nat
      BY PieceType
    <2> QED
      BY <2>1 DEF AfterPiece
  <1>2. Lex!Before = before
    BY DEF Lex!Before
  <1> HIDE DEF N
  <1>3. \E u : Is(u)
    <2> DEFINE step == [n \in 1..N |-> [b \in Nat |-> AfterPiece(n, b)]]
    <2>1. step \in [1..N -> [Nat -> Nat]]
      BY <1>1
    <2>2. \A n \in 1..N : \A b \in Nat : step[n][b] = AfterPiece(n, b)
      OBVIOUS
    <2> HIDE DEF step
    <2>3. PICK f : Stepped(f, N, Nat, 0, step)
      <3>1. 0 \in Nat /\ N \in Nat
        BY <1>1
      <3> QED
        BY <2>1, <3>1, Stepwise, Zenon
    <2>4. \A n \in 1..N : f[n] = AfterPiece(n, f[n - 1])
      <3>1. \A n \in 1..N : n - 1 \in 0..N
        BY <1>1
      <3> QED
        BY <2>2, <2>3, <3>1 DEF Stepped
    <2>5. f = [n \in 0..N |-> IF n = 0 THEN 0 ELSE AfterPiece(n, f[n - 1])]
      BY <1>1, <2>3, <2>4 DEF Stepped
    <2>6. Is(f)
      BY <2>5, Zenon DEF AfterPiece
    <2> QED
      BY <2>6
  <1>4. Is(before)
    BY <1>3
  <1>5. before = [n \in 0..N |-> IF n = 0 THEN 0 ELSE AfterPiece(n, before[n - 1])]
    BY <1>4, Zenon DEF AfterPiece
  <1> HIDE DEF before
  <1>6. before[0] = 0 /\ \A n \in 1..N : before[n] = AfterPiece(n, before[n - 1])
    <2>1. \A n \in 0..N : before[n] = IF n = 0 THEN 0 ELSE AfterPiece(n, before[n - 1])
      BY <1>5, Zenon
    <2>2. 0 \in 0..N /\ \A n \in 1..N : n \in 0..N /\ n # 0
      BY <1>1
    <2> QED
      BY <2>1, <2>2, Zenon
  <1> DEFINE S == {n \in 0..N : before[n] \in Nat}
  <1>7. 0 \in S
    BY <1>1, <1>6
  <1>8. ASSUME NEW n \in 1..N, n - 1 \in S
        PROVE  n \in S
    BY <1>1, <1>6, <1>8
  <1> HIDE DEF S
  <1>9. \A n \in 0..N : n \in S
    BY <1>1, <1>7, <1>8, Upward
  <1> QED
    BY <1>2, <1>6, <1>9 DEF S, N

(* What is read of a line is at least what a piece of it has.              *)
LEMMA LengthBounds ==
  ASSUME text \in Seq(Pieces), NEW l \in Nat
  PROVE  Length(l) \in Nat /\ \A n \in 1..Len(text) : LineOf[n] = l => 1 <= Length(l)
  <1> DEFINE q == [n \in 1..Len(text) |-> Part(text[n], l - LineOf[n])]
  <1>1. Len(text) \in Nat
    BY PieceType
  <1>2. ASSUME NEW n \in 1..Len(text)
        PROVE  /\ Part(text[n], l - LineOf[n]) \in Nat
               /\ LineOf[n] = l => 1 <= Part(text[n], l - LineOf[n])
    <2> DEFINE p == text[n]
               k == l - LineOf[n]
    <2>1. /\ p.first \in Nat \ {0} /\ p.rest \in Nat /\ p.mid \in Seq(Nat) /\ Len(p.mid) \in Nat
          /\ LineOf[n] \in Nat
      <3>1. n \in 1..(Len(text) + 1)
        BY <1>1
      <3> QED
        BY <3>1, PieceType, LineSteps
    <2>2. k \in 1..(Lex!Breaks(p) - 1) => p.mid[k] \in Nat
      <3>1. ASSUME k \in 1..(Lex!Breaks(p) - 1)
            PROVE  k \in 1..Len(p.mid)
        BY <2>1, <3>1 DEF Lex!Breaks
      <3> QED
        BY <2>1, <3>1, ElementOfSeq
    <2>3. LineOf[n] = l => k = 0
      BY <2>1
    <2> HIDE DEF p, k
    <2>4. Part(p, k) \in Nat /\ (k = 0 => 1 <= Part(p, k))
      BY <2>1, <2>2 DEF Part
    <2> QED
      BY <2>3, <2>4 DEF p, k
  <1>3. q \in Seq(Nat) /\ Len(q) = Len(text) /\ \A n \in 1..Len(text) : q[n] = Part(text[n], l - LineOf[n])
    BY <1>1, <1>2
  <1>4. Length(l) = Lex!Sum(q)
    BY DEF Length
  <1> HIDE DEF q
  <1>5. Lex!Sum(q) \in Nat /\ \A j \in 1..Len(q) : q[j] <= Lex!Sum(q)
    BY <1>3, SumBounds
  <1> QED
    BY <1>2, <1>3, <1>4, <1>5

(* The lines of a text are those its pieces begin in; only the last one    *)
(* may be missing, when nothing is in it.                                  *)
LEMMA LinesThere ==
  ASSUME text \in Seq(Pieces)
  PROVE  /\ LinesOfText \in Seq(Nat)
         /\ Len(LinesOfText) <= LineOf[Len(text) + 1]
         /\ LineOf[Len(text) + 1] <= Len(LinesOfText) + 1
         /\ \A n \in 1..Len(text) : LineOf[n] <= Len(LinesOfText)
  <1> DEFINE last == LineOf[Len(text) + 1]
             k == IF Length(last) = 0 THEN last - 1 ELSE last
  <1>1. Len(text) \in Nat
    BY PieceType
  <1>2. last \in Nat /\ 1 <= last /\ \A n \in 1..Len(text) : LineOf[n] <= last /\ LineOf[n] \in Nat
    <2>1. Len(text) + 1 \in 1..(Len(text) + 1) /\ \A n \in 1..Len(text) : n \in 1..(Len(text) + 1)
      BY <1>1
    <2> QED
      BY <2>1, LineSteps
  <1>3. \A l \in Nat : Length(l) \in Nat
    BY LengthBounds
  <1>4. k \in Nat /\ k <= last /\ last <= k + 1
    BY <1>2
  <1>5. LinesOfText = [l \in 1..k |-> Length(l)]
    BY DEF LinesOfText
  <1>6. ASSUME NEW n \in 1..Len(text)
        PROVE  LineOf[n] <= k
    <2>1. CASE LineOf[n] = last
      <3>1. 1 <= Length(last)
        BY <1>2, <2>1, LengthBounds
      <3>2. Length(last) # 0
        BY <1>2, <1>3, <3>1
      <3> QED
        BY <1>2, <2>1, <3>2
    <2>2. CASE LineOf[n] # last
      BY <1>2, <2>2
    <2> QED
      BY <2>1, <2>2
  <1> HIDE DEF k
  <1>7. LinesOfText \in Seq(Nat) /\ Len(LinesOfText) = k
    <2> DEFINE q == [l \in 1..k |-> Length(l)]
    <2>2. k \in Nat
      BY <1>4
    <2>1. \A l \in 1..k : Length(l) \in Nat
      <3>1. \A l \in 1..k : l \in Nat
        BY <2>2
      <3> QED
        BY <1>3, <3>1, Zenon
    <2>3. q \in Seq(Nat) /\ Len(q) = k
      BY <2>1, <2>2
    <2> QED
      BY <1>5, <2>3
  <1> QED
    BY <1>4, <1>6, <1>7
-----------------------------------------------------------------------------
(* The invariant.                                                          *)

(* What is true of a text and what was made of it.                         *)
TextRight ==
  /\ input \in Inputs
  /\ text \in Seq(Pieces) /\ \A j \in 1..Len(text) : text[j].kind # "lines" => text[j].mid = <<>> /\ text[j].rest = 0
  /\ Cardinality(TokensIn(Len(text))) = Len(input)
  /\ lines = LinesOfText

(* Where the lexer is.                                                     *)
Place ==
  /\ at \in 0..Len(text)
  /\ yylineno = LineOf[at + 1] /\ yylloc.line = yylineno
  /\ current_column \in Nat
  /\ current_column > Lex!Before[at]
  /\ Lex!AfterNewline(at + 1) => current_column = Lex!Before[at] + 1

(* Where the tokens are that it returned.                                  *)
Returned ==
  /\ tokens \in Seq([piece : Nat, line : Nat, col : Nat, end : Int])
  /\ Len(tokens) = Cardinality(TokensIn(at))
  /\ \A t \in 1..Len(tokens) :
       /\ tokens[t].piece \in TokensIn(at)
       /\ tokens[t].line = LineOf[tokens[t].piece]

(* The lexer is at most one token ahead of the parser, and the last match  *)
(* is the one that the parser looks at.                                    *)
Ahead ==
  /\ read \in Nat /\ read <= Len(tokens) /\ Len(tokens) <= read + 1
  /\ read < Len(tokens) => look = NULL /\ yylloc.line = tokens[Len(tokens)].line
  /\ look # NULL => IF look = EndOfInput THEN at = Len(text)
                    ELSE read > 0 /\ yylloc.line = tokens[read].line
  /\ pc = "error" => look # NULL
  /\ look = NULL /\ (Shiftable = {} \/ pc = "exhausted") => read > 0 /\ Len(tokens) = read /\ yylloc.line = tokens[read].line

(* What row a message is about.                                            *)
Row ==
  showing # "closed" =>
    \/ pc \in {"error", "exhausted"} /\ frow = yylloc.line
    \/ pc = "accept" /\ \E t \in 1..Len(tokens) : frow = tokens[t].line

(* Line l was not read yet and all the lines before were read at once, or  *)
(* it was read.                                                            *)
Follows(l) ==
  \/ current_line <= l /\ position = [line |-> current_line, chars |-> 0]
  \/ current_line > l /\ l <= line

Reading ==
  /\ current_line \in Nat /\ 1 <= current_line
  /\ position \in [line : Nat, chars : Int] /\ 1 <= position.line /\ position.line <= Len(lines) + 1
  /\ line \in Nat /\ line <= position.line /\ line <= Len(lines)
  /\ showing \in {"closed", "read"} =>
       /\ position.line <= current_line
       /\ line = 0 => position.line = 1
       /\ \A l \in 1..Len(lines) : Message!FitBefore(l) => Follows(l)
  /\ showing = "closed" => current_line = 1
  /\ showing = "read" => current_line <= frow

Shown ==
  showing = "show" =>
    /\ line <= frow
    /\ line = 0 => lines = <<>>
    /\ \A l \in 1..Len(lines) : Message!FitBefore(l) /\ l <= frow => l <= line

ReaderInv == TextRight /\ Place /\ Returned /\ ColumnsRight /\ Ahead /\ Row /\ Reading /\ Shown

-----------------------------------------------------------------------------
(* What the lexer does.                                                    *)

(* What is said of the text stays true while it does.                      *)
LEMMA TextStays ==
  ASSUME text' = text
  PROVE  /\ Lex!Before' = Lex!Before /\ LineOf' = LineOf
         /\ \A n : TokensIn(n)' = TokensIn(n)
         /\ \A n : Lex!AfterNewline(n)' = Lex!AfterNewline(n)
         /\ LinesOfText' = LinesOfText
  <1>1. Lex!Before' = Lex!Before
    BY DEF Lex!Before, Lex!Breaking
  <1>2. LineOf' = LineOf
    BY DEF LineOf, Lex!Breaks, Lex!Breaking
  <1>3. \A n : TokensIn(n)' = TokensIn(n)
    BY DEF TokensIn
  <1>4. \A n : Lex!AfterNewline(n)' = Lex!AfterNewline(n)
    BY DEF Lex!AfterNewline
  <1>5. LinesOfText' = LinesOfText
    BY <1>2 DEF LinesOfText, Length, Part, Lex!Sum, Lex!Breaks, Lex!Breaking
  <1> QED
    BY <1>1, <1>2, <1>3, <1>4, <1>5

(* How many characters a piece has.                                        *)
Size(n) == text[n].first + Lex!Sum(text[n].mid) + text[n].rest

(* A piece is longer than what is of it in its last line.                  *)
LEMMA SizeBounds ==
  ASSUME TextRight, NEW n \in 1..Len(text)
  PROVE  /\ Size(n) \in Nat /\ text[n].first \in Nat \ {0} /\ text[n].rest \in Nat /\ text[n].rest < Size(n)
         /\ text[n].kind # "lines" => text[n].rest = 0 /\ Size(n) = text[n].first
  <1>1. /\ text[n].first \in Nat \ {0} /\ text[n].rest \in Nat
        /\ text[n].mid \in Seq(Nat) /\ Lex!Sum(text[n].mid) \in Nat
    BY PieceType DEF TextRight
  <1>2. text[n].kind # "lines" => text[n].mid = <<>> /\ text[n].rest = 0
    BY DEF TextRight
  <1>3. text[n].mid = <<>> => Lex!Sum(text[n].mid) = 0
    BY <1>1, SumBounds
  <1> QED
    BY <1>1, <1>2, <1>3 DEF Size

(* A match goes on by a piece, and over the line breaks of it.             *)
LEMMA MatchMoves ==
  ASSUME TextRight, Place, NEW kinds, Lex!Match(kinds)
  PROVE  /\ text' = text /\ at' = at + 1 /\ at \in Nat /\ at + 1 \in 1..Len(text) /\ at' \in 0..Len(text')
         /\ text[at + 1].kind \in kinds
         /\ yylineno' = LineOf[at + 1]' /\ yylineno' = LineOf[at + 1 + 1] /\ yylloc'.line = yylineno'
         /\ yylloc'.col = current_column
         /\ yylloc'.end = current_column + Size(at + 1) - 1
  <1>1. /\ text' = text /\ at' = at + 1 /\ at < Len(text) /\ text[at + 1].kind \in kinds
        /\ yylineno' = yylineno + Lex!Breaks(text[at + 1])
        /\ yylloc' = [line |-> yylineno', col |-> current_column, end |-> current_column + Size(at + 1) - 1]
    BY DEF Lex!Match, Lex!piece, Lex!length, Lex!LinesAfter, Size
  <1>2. at \in Nat /\ at + 1 \in 1..Len(text) /\ at + 1 \in 0..Len(text)
    BY <1>1, PieceType DEF Place, TextRight
  <1>3. yylineno' = LineOf[at + 1 + 1]
    BY <1>1, <1>2, LineSteps DEF Place, TextRight
  <1>4. LineOf[at + 1]' = LineOf[at + 1 + 1]
    BY <1>1, TextStays
  <1> QED
    BY <1>1, <1>2, <1>3, <1>4

(* A token of its own ends the doubt about columns that a comment leaves.  *)
LEMMA NewlineSteps ==
  ASSUME NEW n \in Nat \ {0}
  PROVE  /\ text[n].kind \in {"comment", "lines"} => ~Lex!AfterNewline(n + 1)
         /\ text[n].kind \notin {"comment", "lines", "newline"} /\ Lex!AfterNewline(n + 1) => Lex!AfterNewline(n)
  <1>1. ASSUME text[n].kind \in {"comment", "lines"}, Lex!AfterNewline(n + 1)
        PROVE  FALSE
    <2>1. n \in 1..(n + 1 - 1)
      OBVIOUS
    <2>2. \E l \in (n + 1)..(n + 1 - 1) : text[l].kind = "newline"
      BY <1>1, <2>1 DEF Lex!AfterNewline
    <2> QED
      BY <2>2
  <1>2. ASSUME text[n].kind \notin {"comment", "lines", "newline"}, Lex!AfterNewline(n + 1),
               NEW j \in 1..(n - 1), text[j].kind \in {"comment", "lines"}
        PROVE  \E l \in (j + 1)..(n - 1) : text[l].kind = "newline"
    <2>1. j \in 1..(n + 1 - 1)
      OBVIOUS
    <2>2. PICK l \in (j + 1)..(n + 1 - 1) : text[l].kind = "newline"
      BY <1>2, <2>1 DEF Lex!AfterNewline
    <2>3. l # n
      BY <1>2, <2>2
    <2>4. l \in (j + 1)..(n - 1)
      BY <2>3
    <2> QED
      BY <2>2, <2>4
  <1> QED
    BY <1>1, <1>2 DEF Lex!AfterNewline

(* The column the lexer counts is never less than that of what it reads    *)
(* next.                                                                   *)
LEMMA PlaceKept ==
  ASSUME TextRight, Place, Lex!Next
  PROVE  Place'
  <1> DEFINE n == at + 1
             b == Lex!Before[at]
  <1>1. b \in Nat /\ n - 1 = at
    BY BeforeSteps DEF TextRight, Place
  <1>2. SUFFICES ASSUME NEW kinds, kinds \subseteq {"token", "blank", "comment", "lines", "other", "newline"}, Lex!Match(kinds),
                        \/ "newline" \notin kinds
                           /\ current_column' = current_column + Size(n)
                        \/ kinds = {"newline"} /\ current_column' = 1
                 PROVE  Place'
    <2>1. CASE Lex!Skip
      BY <1>2, <2>1 DEF Lex!Skip, Lex!length, Lex!piece, Size
    <2>2. CASE Lex!NewLine
      BY <1>2, <2>2 DEF Lex!NewLine
    <2>3. CASE Lex!Return
      BY <1>2, <2>3 DEF Lex!Return, Lex!length, Lex!piece, Size
    <2> QED
      BY <2>1, <2>2, <2>3 DEF Lex!Next
  <1>3. /\ text' = text /\ at' = n /\ n \in 1..Len(text) /\ at' \in 0..Len(text')
        /\ text[n].kind \in kinds
        /\ yylineno' = LineOf[at + 1]' /\ yylloc'.line = yylineno'
    BY <1>2, MatchMoves
  <1>10. /\ Size(n) \in Nat /\ text[n].first \in Nat \ {0} /\ text[n].rest \in Nat /\ text[n].rest < Size(n)
         /\ text[n].kind # "lines" => text[n].rest = 0 /\ Size(n) = text[n].first
    BY <1>3, SizeBounds
  <1>4. Lex!Before[n] = AfterPiece(n, b)
    BY <1>1, <1>3, BeforeSteps DEF TextRight
  <1>5. n \in Nat \ {0} /\ current_column \in Nat /\ b < current_column
    BY <1>1, <1>3 DEF Place
  <1>6. Lex!AfterNewline(n) => current_column = b + 1
    BY DEF Place
  <1> HIDE DEF n, b
  <1>7. /\ current_column' \in Nat /\ Lex!Before[n] < current_column'
        /\ Lex!AfterNewline(n + 1) => current_column' = Lex!Before[n] + 1
    <2>1. CASE kinds = {"newline"} /\ current_column' = 1
      <3>1. Lex!Before[n] = 0
        BY <1>3, <1>4, <2>1 DEF AfterPiece
      <3> QED
        BY <2>1, <3>1
    <2>2. CASE "newline" \notin kinds /\ current_column' = current_column + Size(n)
      <3>1. text[n].kind # "newline"
        BY <1>3, <2>2
      <3>2. CASE text[n].kind \in {"comment", "lines"}
        <4>1. Lex!Before[n] = text[n].rest
          BY <1>4, <3>1, <3>2 DEF AfterPiece, Lex!Breaking
        <4>2. ~Lex!AfterNewline(n + 1)
          BY <1>5, <3>2, NewlineSteps
        <4> QED
          BY <1>10, <1>5, <2>2, <4>1, <4>2
      <3>3. CASE text[n].kind \notin {"comment", "lines"}
        <4>1. Lex!Before[n] = b + text[n].first /\ Size(n) = text[n].first
          BY <1>4, <1>10, <3>1, <3>3 DEF AfterPiece, Lex!Breaking
        <4>2. Lex!AfterNewline(n + 1) => Lex!AfterNewline(n)
          BY <1>5, <3>1, <3>3, NewlineSteps
        <4> QED
          BY <1>1, <1>5, <1>6, <1>10, <2>2, <4>1, <4>2
      <3> QED
        BY <3>2, <3>3
    <2> QED
      BY <1>2, <2>1, <2>2
  <1>8. Lex!Before' = Lex!Before /\ \A m : Lex!AfterNewline(m)' = Lex!AfterNewline(m)
    BY <1>3, TextStays
  <1>9. /\ current_column' > Lex!Before[at]'
        /\ Lex!AfterNewline(at + 1)' => current_column' = Lex!Before[at]' + 1
    BY <1>3, <1>7, <1>8
  <1> QED
    BY <1>3, <1>7, <1>9 DEF Place
(* A token is at the column and in the line that its piece is in.          *)
LEMMA ReturnedKept ==
  ASSUME TextRight, Place, Returned, ColumnsRight, Lex!Next
  PROVE  /\ Returned' /\ ColumnsRight' /\ Len(tokens') \in {Len(tokens), Len(tokens) + 1}
         /\ Len(tokens') = Len(tokens) + 1 => yylloc'.line = tokens'[Len(tokens')].line
  <1> DEFINE n == at + 1
             new == [piece |-> n, line |-> yylloc'.line, col |-> yylloc'.col, end |-> yylloc'.end]
             Right(t) == /\ t.col > Lex!Before[t.piece - 1]
                         /\ Lex!AfterNewline(t.piece) =>
                              /\ t.col = Lex!Before[t.piece - 1] + 1
                              /\ t.end = Lex!Before[t.piece - 1] + text[t.piece].first
             Good(t) == t.piece \in TokensIn(n) /\ t.line = LineOf[t.piece] /\ Right(t)
             Type == [piece : Nat, line : Nat, col : Nat, end : Int]
  <1>1. Len(tokens) \in Nat /\ \A t \in 1..Len(tokens) : tokens[t] \in Type
    BY LenProperties, ElementOfSeq DEF Returned
  <1>2. at \in Nat
    BY PieceType DEF Place, TextRight
  <1>3. TokensIn(at) \subseteq TokensIn(n)
    BY <1>2 DEF TokensIn
  <1>4. \A t \in 1..Len(tokens) : Good(tokens[t])
    BY <1>3 DEF Returned, ColumnsRight, Lex!ColumnsRight
  <1>5. /\ Cardinality(TokensIn(n)) = Cardinality(TokensIn(at)) + (IF text[n].kind = "token" THEN 1 ELSE 0)
        /\ Len(tokens) = Cardinality(TokensIn(at))
    BY <1>2, TokenSteps DEF Returned
  <1>6. SUFFICES ASSUME text' = text, at' = n,
                        tokens' \in Seq(Type), Len(tokens') = Cardinality(TokensIn(n)),
                        \A t \in 1..Len(tokens') : Good(tokens'[t]),
                        Len(tokens') = Len(tokens) + 1 => yylloc'.line = tokens'[Len(tokens')].line
                 PROVE  Returned' /\ ColumnsRight' /\ Len(tokens') \in {Len(tokens), Len(tokens) + 1}
    <2>1. CASE \E kinds : Lex!Match(kinds) /\ "token" \notin kinds /\ tokens' = tokens
      <3>1. text' = text /\ at' = n /\ text[n].kind # "token"
        BY <2>1, MatchMoves
      <3>2. tokens' \in Seq(Type) /\ Len(tokens') = Cardinality(TokensIn(n))
        BY <1>5, <2>1, <3>1 DEF Returned
      <3>3. Len(tokens') # Len(tokens) + 1 /\ \A t \in 1..Len(tokens') : Good(tokens'[t])
        BY <1>1, <1>4, <2>1
      <3> HIDE DEF Good, n
      <3> QED
        BY <1>6, <3>1, <3>2, <3>3
    <2>2. CASE Lex!Return
      <3>1. Lex!Match({"token"}) /\ tokens' = Append(tokens, new)
        BY <2>2 DEF Lex!Return
      <3>2. /\ text' = text /\ at' = n /\ n \in 1..Len(text) /\ text[n].kind = "token"
            /\ yylineno' = LineOf[at + 1]' /\ yylloc'.line = yylineno'
            /\ yylloc'.col = current_column
            /\ yylloc'.end = current_column + text[n].first - 1 /\ text[n].first \in Nat \ {0}
        <4>1. n \in 1..Len(text) /\ text[n].kind = "token"
          BY <3>1, MatchMoves
        <4>2. Size(n) = text[n].first /\ text[n].first \in Nat \ {0}
          BY <4>1, SizeBounds
        <4> QED
          BY <3>1, <4>1, <4>2, MatchMoves
      <3>3. yylloc'.line = LineOf[n] /\ LineOf[n] \in Nat
        <4>1. yylloc'.line = LineOf[n + 1]
          BY <3>1, MatchMoves
        <4>2. Lex!Breaks(text[n]) = 0 /\ n \in 1..(Len(text) + 1)
          BY <1>2, <3>2 DEF Lex!Breaks, Lex!Breaking
        <4> HIDE DEF n
        <4> QED
          BY <3>2, <4>1, <4>2, LineSteps DEF TextRight
      <3>4. /\ current_column \in Nat /\ current_column > Lex!Before[at] /\ Lex!Before[at] \in Nat
            /\ Lex!AfterNewline(n) => current_column = Lex!Before[at] + 1
        BY BeforeSteps DEF Place, TextRight
      <3>5. n \in TokensIn(n) /\ n - 1 = at
        BY <1>2, <3>2 DEF TokensIn
      <3>6. new \in Type
        BY <1>2, <3>2, <3>3, <3>4
      <3>7. Good(new)
        <4>1. /\ new.piece = n /\ new.line = LineOf[n] /\ new.col = current_column
              /\ new.end = current_column + text[n].first - 1
          BY <3>2, <3>3, <3>4
        <4> HIDE DEF new
        <4>2. new.piece - 1 = at
          BY <3>5, <4>1
        <4>3. Right(new)
          <5>1. new.col > Lex!Before[new.piece - 1]
            BY <3>4, <4>1, <4>2
          <5>2. ASSUME Lex!AfterNewline(new.piece)
                PROVE  /\ new.col = Lex!Before[new.piece - 1] + 1
                       /\ new.end = Lex!Before[new.piece - 1] + text[new.piece].first
            <6>1. current_column = Lex!Before[at] + 1
              BY <3>4, <4>1, <5>2
            <6>2. new.end = Lex!Before[at] + text[n].first
              <7>1. text[n].first \in Nat /\ Lex!Before[at] \in Nat /\ new.end = current_column + text[n].first - 1
                BY <3>2, <3>4, <4>1
              <7> HIDE DEF n
              <7> QED
                BY <6>1, <7>1
            <6> QED
              BY <4>1, <4>2, <6>1, <6>2
          <5> QED
            BY <5>1, <5>2
        <4> QED
          BY <3>5, <4>1, <4>3
      <3> HIDE DEF Good, Type
      <3>8. tokens \in Seq(Type)
        BY DEF Returned, Type
      <3>9. /\ tokens' \in Seq(Type) /\ Len(tokens') = Len(tokens) + 1
            /\ \A t \in 1..Len(tokens) : tokens'[t] = tokens[t]
            /\ tokens'[Len(tokens) + 1] = new
        BY <3>1, <3>6, <3>8, AppendProperties
      <3>10. \A t \in 1..Len(tokens') : Good(tokens'[t])
        <4>1. \A t \in 1..Len(tokens') : t \in 1..Len(tokens) \/ t = Len(tokens) + 1
          BY <1>1, <3>9
        <4> QED
          BY <1>4, <3>7, <3>9, <4>1
      <3>11. yylloc'.line = tokens'[Len(tokens')].line
        BY <3>9
      <3>12. Len(tokens') = Cardinality(TokensIn(n))
        BY <1>5, <3>2, <3>9
      <3> HIDE DEF n, new
      <3> QED
        BY <1>6, <3>2, <3>9, <3>10, <3>11, <3>12
    <2>3. CASE Lex!Skip
      BY <2>1, <2>3 DEF Lex!Skip
    <2>4. CASE Lex!NewLine
      BY <2>1, <2>4 DEF Lex!NewLine
    <2> QED
      BY <2>2, <2>3, <2>4 DEF Lex!Next
  <1> HIDE DEF n
  <1>7. /\ Lex!Before' = Lex!Before /\ \A m : Lex!AfterNewline(m)' = Lex!AfterNewline(m)
        /\ LineOf' = LineOf /\ \A m : TokensIn(m)' = TokensIn(m)
    BY <1>6, TextStays
  <1>8. Returned'
    BY <1>6, <1>7 DEF Returned
  <1>9. ColumnsRight'
    BY <1>6, <1>7 DEF ColumnsRight, Lex!ColumnsRight
  <1> QED
    BY <1>5, <1>6, <1>8, <1>9
-----------------------------------------------------------------------------
(* The invariant holds when the file is opened.                            *)
LEMMA InitReader ==
  ASSUME ReaderInit
  PROVE  ReaderInv
  <1>1. /\ input \in Inputs /\ read = 0 /\ look = NULL /\ pc = "parse"
        /\ at = 0 /\ yylineno = 1 /\ current_column = 1 /\ yylloc.line = 1 /\ tokens = <<>>
        /\ frow = 0 /\ current_line = 1 /\ position = [line |-> 1, chars |-> 0] /\ line = 0 /\ showing = "closed"
        /\ text \in Texts(input) /\ lines = LinesOfText
    BY DEF ReaderInit, Init, Lex!Init, Message!Init
  <1>2. TextRight
    BY <1>1, TextsAssumption DEF TextRight, TokensIn, Pieces
  <1>3. Place
    <2>1. LineOf[1] = 1
      BY <1>2, LineSteps DEF TextRight
    <2>2. Lex!Before[0] = 0
      BY <1>2, BeforeSteps DEF TextRight
    <2>3. 0 \in 0..Len(text)
      BY <1>2, PieceType DEF TextRight
    <2> QED
      BY <1>1, <2>1, <2>2, <2>3 DEF Place
  <1>4. Returned /\ ColumnsRight
    <2>1. Cardinality(TokensIn(0)) = 0
      BY TokenSteps
    <2> QED
      BY <1>1, <2>1 DEF Returned, ColumnsRight, Lex!ColumnsRight
  <1>5. Ahead /\ Row /\ Shown
    <2>1. Shiftable # {}
      <3>1. top = "bottom"
        BY DEF ReaderInit, Init, top, Sym
      <3> QED
        BY <3>1 DEF Shiftable
    <2> QED
      BY <1>1, <2>1 DEF Ahead, Row, Shown
  <1>6. Reading
    <2>1. Len(lines) \in Nat
      BY <1>1, <1>2, LinesThere, LenProperties DEF TextRight
    <2> QED
      BY <1>1, <2>1 DEF Reading, Follows
  <1> QED
    BY <1>2, <1>3, <1>4, <1>5, <1>6 DEF ReaderInv

(* Nothing of a text changes while it is read.                             *)
LEMMA TextKept ==
  ASSUME TextRight, text' = text, input' = input, lines' = lines
  PROVE  TextRight'
  <1>1. TokensIn(Len(text))' = TokensIn(Len(text)) /\ LinesOfText' = LinesOfText
    <2>1. \A n : TokensIn(n)' = TokensIn(n)
      BY TextStays
    <2> QED
      BY <2>1, TextStays
  <1> QED
    BY <1>1 DEF TextRight

(* What the lexer did stays while it does nothing.                         *)
LEMMA LexerRests ==
  ASSUME Place, Returned, ColumnsRight, UNCHANGED lexvars
  PROVE  Place' /\ Returned' /\ ColumnsRight'
  <1>1. /\ text' = text /\ at' = at /\ yylineno' = yylineno /\ current_column' = current_column
        /\ yylloc' = yylloc /\ tokens' = tokens
    BY DEF lexvars
  <1>2. /\ Lex!Before' = Lex!Before /\ \A m : Lex!AfterNewline(m)' = Lex!AfterNewline(m)
        /\ LineOf' = LineOf /\ \A m : TokensIn(m)' = TokensIn(m)
    BY <1>1, TextStays
  <1> QED
    BY <1>1, <1>2 DEF Place, Returned, ColumnsRight, Lex!ColumnsRight

(* No message is shown before the parser has ended.                        *)
LEMMA QuietWhileParsing ==
  ASSUME Row, Reading, Shown, pc = "parse", UNCHANGED messagevars
  PROVE  Row' /\ Reading' /\ Shown'
  <1>1. showing = "closed"
    BY DEF Row
  <1>2. /\ lines' = lines /\ frow' = frow /\ current_line' = current_line /\ position' = position
        /\ line' = line /\ showing' = showing
    BY DEF messagevars
  <1>3. Reading'
    BY <1>2 DEF Reading, Follows, Message!FitBefore
  <1> QED
    BY <1>1, <1>2, <1>3 DEF Row, Shown

(* The stack alone says what can be shifted.                               *)
LEMMA ShiftableStays ==
  ASSUME stack' = stack
  PROVE  Shiftable' = Shiftable
  BY DEF Shiftable, top, below, Sym

(* The lexer goes on only when the parser wants a token and has none.      *)
LEMMA LexKeeps ==
  ASSUME ReaderInv, LexStep
  PROVE  ReaderInv'
  <1> USE DEF ReaderInv
  <1>1. Called /\ Lex!Next /\ UNCHANGED vars /\ UNCHANGED messagevars
    BY DEF LexStep
  <1>2. pc = "parse" /\ look = NULL /\ Len(tokens) = read /\ Shiftable # {}
    BY <1>1 DEF Called
  <1>3. input' = input /\ read' = read /\ look' = look /\ pc' = pc /\ Shiftable' = Shiftable
    BY <1>1, ShiftableStays DEF vars
  <1>4. text' = text /\ lines' = lines
    <2>1. \E kinds : Lex!Match(kinds)
      BY <1>1 DEF Lex!Next, Lex!Skip, Lex!NewLine, Lex!Return
    <2> QED
      BY <1>1, <2>1, MatchMoves DEF messagevars
  <1>5. TextRight'
    BY <1>3, <1>4, TextKept
  <1>6. Place' /\ Returned' /\ ColumnsRight'
    BY <1>1, PlaceKept, ReturnedKept
  <1>7. Ahead'
    <2>1. /\ Len(tokens') \in {Len(tokens), Len(tokens) + 1}
          /\ Len(tokens') = Len(tokens) + 1 => yylloc'.line = tokens'[Len(tokens')].line
      BY <1>1, ReturnedKept
    <2> QED
      BY <1>2, <1>3, <2>1 DEF Ahead
  <1>8. Row' /\ Reading' /\ Shown'
    BY <1>1, <1>2, QuietWhileParsing
  <1> QED
    BY <1>5, <1>6, <1>7, <1>8

(* The parser takes the tokens that were returned, in turn, and the end of *)
(* the input when the lexer is at the end of the text.                     *)
LEMMA TokenKeeps ==
  ASSUME ReaderInv, TokenStep
  PROVE  ReaderInv'
  <1> USE DEF ReaderInv
  <1>1. /\ Len(tokens) > read \/ at = Len(text)
        /\ ReadToken /\ UNCHANGED lexvars /\ UNCHANGED messagevars
    BY DEF TokenStep
  <1>2. /\ pc = "parse" /\ pc' = pc /\ input' = input /\ look = NULL
        /\ Shiftable # {} /\ Shiftable' = Shiftable
        /\ look' = IF read < Len(input) THEN input[read + 1] ELSE EndOfInput
        /\ read' = IF read < Len(input) THEN read + 1 ELSE read
    BY <1>1, ShiftableStays DEF ReadToken
  <1>3. text' = text /\ lines' = lines /\ at' = at /\ tokens' = tokens /\ yylloc' = yylloc
    BY <1>1 DEF lexvars, messagevars
  <1>4. TextRight'
    BY <1>2, <1>3, TextKept
  <1>5. Place' /\ Returned' /\ ColumnsRight'
    BY <1>1, LexerRests
  <1>6. Ahead'
    <2>1. /\ read \in Nat /\ Len(tokens) \in Nat /\ Len(tokens) \in {read, read + 1}
          /\ Len(tokens) = read + 1 => yylloc.line = tokens[Len(tokens)].line
      <3>1. Len(tokens) \in Nat
        BY LenProperties DEF Returned
      <3> QED
        BY <3>1 DEF Ahead
    <2>2. /\ Len(tokens) = Cardinality(TokensIn(at)) /\ Len(input) = Cardinality(TokensIn(Len(text)))
          /\ Len(tokens) <= Len(input) /\ Len(input) \in Nat
      <3>1. Len(text) \in Nat /\ at \in 0..Len(text)
        BY PieceType DEF TextRight, Place
      <3> QED
        BY <3>1, TokenSteps DEF TextRight, Returned
    <2>3. CASE Len(tokens) = read + 1
      <3>1. read' = read + 1 /\ look' = input[read + 1] /\ read + 1 \in 1..Len(input)
        BY <1>2, <2>1, <2>2, <2>3
      <3>2. input \in Seq([kind : Terminals, str : STRING])
        BY InputsAssumption DEF TextRight
      <3>3. input[read + 1].kind \in Terminals
        <4>1. input[read + 1] \in [kind : Terminals, str : STRING]
          BY <3>1, <3>2, ElementOfSeq
        <4> QED
          BY <4>1
      <3>4. look' # EndOfInput
        <4>1. EndOfInput.kind \notin Terminals
          BY DEF Terminals, EndOfInput, Token
        <4> QED
          BY <3>1, <3>3, <4>1
      <3>5. look' # EndOfInput'
        BY <3>4 DEF EndOfInput, Token
      <3> QED
        BY <1>2, <1>3, <2>1, <2>3, <3>1, <3>5 DEF Ahead
    <2>4. CASE Len(tokens) = read
      <3>1. at = Len(text) /\ Len(tokens) = Len(input)
        <4>1. at = Len(text)
          BY <1>1, <2>1, <2>4
        <4> QED
          BY <2>2, <4>1, Zenon
      <3>2. read' = read /\ look' = EndOfInput
        BY <1>2, <2>1, <2>4, <3>1
      <3>3. look' = EndOfInput'
        BY <3>2 DEF EndOfInput, Token
      <3> QED
        BY <1>2, <1>3, <2>1, <2>4, <3>1, <3>2, <3>3 DEF Ahead
    <2> QED
      BY <2>1, <2>3, <2>4
  <1>7. Row' /\ Reading' /\ Shown'
    BY <1>1, <1>2, QuietWhileParsing
  <1> QED
    BY <1>4, <1>5, <1>6, <1>7

(* Shifting and reducing do not move the lexer.                            *)
LEMMA ParseFrame ==
  ASSUME Parse
  PROVE  /\ pc = "parse" /\ input' = input /\ read' = read
         /\ \/ look' = look /\ (look = NULL => Shiftable = {})
            \/ look' = NULL /\ look # NULL /\ look # EndOfInput
         /\ pc' = "error" => look' # NULL
  <1> USE DEF Push
  <1>1. CASE Shift
    BY <1>1 DEF Shift
  <1>2. CASE Accept
    BY <1>2 DEF Accept
  <1>3. CASE SyntaxError
    BY <1>3 DEF SyntaxError
  <1>4. CASE Lambda
    BY <1>4 DEF Lambda, Default
  <1>5. CASE \E n, sym, val : Reduce(n, sym, val)
    BY <1>5 DEF Reduce, Default
  <1> QED
    BY <1>1, <1>2, <1>3, <1>4, <1>5
    DEF Parse, LambdaToken, LambdaIdentifier, OneOfList, IdentifierList, SingletonIdent, SingletonParens,
        FirstOfApp, Application, ExprApp, Abstraction, LambdaStmt, LastStmt, AddStmt

(* What shifting and reducing keep.                                        *)
LEMMA ParseKeeps ==
  ASSUME ReaderInv, ParseStep
  PROVE  ReaderInv'
  <1> USE DEF ReaderInv
  <1>1. Parse /\ UNCHANGED lexvars /\ UNCHANGED messagevars
    BY DEF ParseStep
  <1>2. /\ pc = "parse" /\ input' = input /\ read' = read
        /\ \/ look' = look /\ (look = NULL => Shiftable = {})
           \/ look' = NULL /\ look # NULL /\ look # EndOfInput
        /\ pc' = "error" => look' # NULL
    BY <1>1, ParseFrame
  <1>3. text' = text /\ lines' = lines /\ at' = at /\ tokens' = tokens /\ yylloc' = yylloc
    BY <1>1 DEF lexvars, messagevars
  <1>4. TextRight'
    BY <1>2, <1>3, TextKept
  <1>5. Place' /\ Returned' /\ ColumnsRight'
    BY <1>1, LexerRests
  <1>6. Ahead'
    <2>1. EndOfInput' = EndOfInput
      BY DEF EndOfInput, Token
    <2>2. Len(tokens) \in Nat
      BY LenProperties DEF Returned
    <2>3. CASE look' = look /\ (look = NULL => Shiftable = {})
      BY <1>2, <1>3, <2>1, <2>3 DEF Ahead
    <2>4. CASE look' = NULL /\ look # NULL /\ look # EndOfInput
      <3>1. read > 0 /\ Len(tokens) = read /\ yylloc.line = tokens[read].line /\ read \in Nat
        BY <2>2, <2>4 DEF Ahead
      <3> QED
        BY <1>2, <1>3, <2>4, <3>1 DEF Ahead
    <2> QED
      BY <1>2, <2>3, <2>4
  <1>7. Row' /\ Reading' /\ Shown'
    BY <1>1, <1>2, QuietWhileParsing
  <1> QED
    BY <1>4, <1>5, <1>6, <1>7
-----------------------------------------------------------------------------
(* What a message does.                                                    *)

(* The row of a token is that of its line, which is one of the lines, and  *)
(* the last match is at most a line behind them.                           *)
LEMMA RowsOfTokens ==
  ASSUME TextRight, Place, Returned
  PROVE  /\ lines \in Seq(Nat) /\ Len(lines) \in Nat
         /\ \A t \in 1..Len(tokens) :
              /\ tokens[t].line = LineOf[tokens[t].piece]
              /\ tokens[t].line \in Nat /\ 1 <= tokens[t].line /\ tokens[t].line <= Len(lines)
         /\ yylloc.line \in Nat /\ 1 <= yylloc.line
         /\ at = Len(text) => Len(lines) <= yylloc.line
  <1>1. Len(text) \in Nat /\ at \in 0..Len(text)
    BY PieceType DEF TextRight, Place
  <1>2. /\ lines \in Seq(Nat) /\ Len(lines) <= LineOf[Len(text) + 1]
        /\ \A n \in 1..Len(text) : LineOf[n] <= Len(lines)
    BY LinesThere DEF TextRight
  <1>3. ASSUME NEW t \in 1..Len(tokens)
        PROVE  /\ tokens[t].line = LineOf[tokens[t].piece]
               /\ tokens[t].line \in Nat /\ 1 <= tokens[t].line /\ tokens[t].line <= Len(lines)
    <2>1. tokens[t].line = LineOf[tokens[t].piece] /\ tokens[t].piece \in TokensIn(at)
      BY DEF Returned
    <2>2. tokens[t].piece \in 1..Len(text) /\ tokens[t].piece \in 1..(Len(text) + 1)
      BY <1>1, <2>1 DEF TokensIn
    <2> QED
      BY <1>2, <2>1, <2>2, LineSteps DEF TextRight
  <1>4. yylloc.line = LineOf[at + 1]
    BY DEF Place
  <1>5. at + 1 \in 1..(Len(text) + 1)
    BY <1>1
  <1> QED
    BY <1>2, <1>3, <1>4, <1>5, LineSteps, LenProperties DEF TextRight

(* The row of a message is one of a line, or behind them.                  *)
LEMMA RowType ==
  ASSUME TextRight, Place, Returned, Row, showing # "closed"
  PROVE  frow \in Nat /\ 1 <= frow /\ pc \in {"error", "exhausted", "accept"}
  BY RowsOfTokens DEF Row

(* A message is opened at a row that there is, and starts at line 1.       *)
LEMMA ReportKeeps ==
  ASSUME ReaderInv, Report
  PROVE  ReaderInv'
  <1> USE DEF ReaderInv
  <1>1. /\ UNCHANGED vars /\ UNCHANGED lexvars
        /\ \/ pc \in {"error", "exhausted"} /\ Message!Open(yylloc.line)
           \/ pc = "accept" /\ \E t \in 1..Len(tokens) : Message!Open(tokens[t].line)
    BY DEF Report
  <1>2. /\ showing = "closed" /\ showing' \in {"read", "done"}
        /\ lines' = lines /\ current_line' = current_line /\ position' = position /\ line' = line
        /\ \/ pc \in {"error", "exhausted"} /\ frow' = yylloc.line
           \/ pc = "accept" /\ \E t \in 1..Len(tokens) : frow' = tokens[t].line
    BY <1>1 DEF Message!Open
  <1>3. /\ input' = input /\ read' = read /\ look' = look /\ pc' = pc /\ Shiftable' = Shiftable
        /\ text' = text /\ at' = at /\ tokens' = tokens /\ yylloc' = yylloc
    BY <1>1, ShiftableStays DEF vars, lexvars
  <1>4. TextRight'
    BY <1>2, <1>3, TextKept
  <1>5. Place' /\ Returned' /\ ColumnsRight'
    BY <1>1, LexerRests
  <1>6. Ahead'
    BY <1>3 DEF Ahead, EndOfInput, Token
  <1>7. Row' /\ Shown'
    BY <1>2, <1>3 DEF Row, Shown
  <1>8. Reading'
    <2>1. frow' \in Nat /\ 1 <= frow'
      BY <1>4, <1>5, <1>2, <1>3, RowsOfTokens
    <2>2. current_line = 1
      BY <1>2 DEF Reading
    <2> QED
      BY <1>2, <2>1, <2>2 DEF Reading, Follows, Message!FitBefore
  <1> QED
    BY <1>4, <1>5, <1>6, <1>7, <1>8

(* fgets goes over a line that fits in one step, and never over two.       *)
LEMMA ReadSteps ==
  ASSUME lines \in Seq(Nat), Reading, ~Message!AtEnd
  PROVE  /\ position.line \in 1..Len(lines)
         /\ Message!AfterRead \in [line : Nat, chars : Int]
         /\ Message!AfterRead.line \in {position.line, position.line + 1}
         /\ position.chars = 0 /\ lines[position.line] < SLine =>
              Message!AfterRead = [line |-> position.line + 1, chars |-> 0]
  <1>1. position \in [line : Nat, chars : Int] /\ position.line \in Nat /\ position.chars \in Int
    BY DEF Reading
  <1>2. position.line \in 1..Len(lines)
    <2>1. 1 <= position.line /\ ~(position.line > Len(lines)) /\ Len(lines) \in Nat
      BY LenProperties DEF Reading, Message!AtEnd
    <2> QED
      BY <1>1, <2>1
  <1>3. lines[position.line] \in Nat /\ SLine \in Nat
    BY <1>2, ElementOfSeq, TextsAssumption
  <1>4. CASE lines[position.line] - position.chars < SLine
    <2>1. Message!AfterRead = [line |-> position.line + 1, chars |-> 0]
      BY <1>4 DEF Message!AfterRead
    <2> QED
      BY <1>1, <1>2, <2>1
  <1>5. CASE ~(lines[position.line] - position.chars < SLine)
    <2>1. Message!AfterRead = [position EXCEPT !.chars = @ + SLine - 1]
      BY <1>5 DEF Message!AfterRead
    <2>2. ~(position.chars = 0 /\ lines[position.line] < SLine)
      BY <1>3, <1>5
    <2>3. Message!AfterRead.line = position.line /\ Message!AfterRead \in [line : Nat, chars : Int]
      BY <1>1, <1>3, <2>1
    <2> QED
      BY <1>2, <2>2, <2>3
  <1> QED
    BY <1>4, <1>5

(* A line is read: it is the next one, or the rest of one that did not     *)
(* fit.                                                                    *)
LEMMA ReadLineKeeps ==
  ASSUME ReaderInv, Message!ReadLine
  PROVE  Reading' /\ Shown' /\ lines' = lines /\ frow' = frow /\ showing # "closed"
  <1> USE DEF ReaderInv
  <1>1. /\ showing = "read" /\ ~Message!AtEnd
        /\ position' = Message!AfterRead /\ line' = position.line
        /\ IF current_line = frow THEN showing' = "show" /\ current_line' = current_line
                                  ELSE showing' = "read" /\ current_line' = current_line + 1
        /\ lines' = lines /\ frow' = frow
    BY DEF Message!ReadLine
  <1>2. lines \in Seq(Nat) /\ Len(lines) \in Nat
    BY RowsOfTokens
  <1>3. /\ position.line \in 1..Len(lines)
        /\ position' \in [line : Nat, chars : Int]
        /\ position'.line \in {position.line, position.line + 1}
        /\ position.chars = 0 /\ lines[position.line] < SLine => position' = [line |-> position.line + 1, chars |-> 0]
    BY <1>1, <1>2, ReadSteps
  <1>4. frow \in Nat /\ 1 <= frow
    BY <1>1, RowType
  <1>5. /\ current_line \in Nat /\ 1 <= current_line /\ current_line <= frow
        /\ line \in Nat /\ line <= position.line /\ position.line <= current_line
        /\ \A l \in 1..Len(lines) : Message!FitBefore(l) => Follows(l)
    BY <1>1 DEF Reading
  <1>6. \A l : Message!FitBefore(l)' = Message!FitBefore(l)
    BY <1>1 DEF Message!FitBefore
  <1>7. CASE current_line = frow
    <2>1. Reading'
      BY <1>1, <1>2, <1>3, <1>5, <1>7 DEF Reading
    <2>2. ASSUME NEW l \in 1..Len(lines), Message!FitBefore(l), l <= frow
          PROVE  l <= line'
      BY <1>1, <1>2, <1>3, <1>5, <1>7, <2>2 DEF Follows
    <2>3. Shown'
      BY <1>1, <1>2, <1>3, <1>5, <1>6, <1>7, <2>2 DEF Shown
    <2> QED
      BY <1>1, <2>1, <2>3
  <1>8. CASE current_line # frow
    <2>1. showing' = "read" /\ current_line' = current_line + 1 /\ current_line' <= frow
      BY <1>1, <1>4, <1>5, <1>8
    <2>2. ASSUME NEW l \in 1..Len(lines), Message!FitBefore(l)
          PROVE  Follows(l)'
      <3>1. Follows(l)
        BY <1>5, <2>2
      <3>2. CASE current_line < l
        <4>1. position = [line |-> current_line, chars |-> 0]
          BY <1>5, <3>1, <3>2 DEF Follows
        <4>2. current_line \in 1..(l - 1) /\ current_line <= Len(lines)
          BY <1>2, <1>5, <3>2
        <4>3. lines[current_line] < SLine
          BY <2>2, <4>2 DEF Message!FitBefore
        <4>4. position' = [line |-> current_line', chars |-> 0]
          BY <1>3, <2>1, <4>1, <4>3
        <4> QED
          BY <1>5, <2>1, <3>2, <4>4 DEF Follows
      <3>3. CASE ~(current_line < l)
        <4>1. l <= line'
          BY <1>1, <1>2, <1>3, <1>5, <3>1, <3>3 DEF Follows
        <4> QED
          BY <1>5, <2>1, <3>3, <4>1 DEF Follows
      <3> QED
        BY <3>2, <3>3
    <2>3. Reading'
      BY <1>1, <1>2, <1>3, <1>5, <1>6, <2>1, <2>2 DEF Reading
    <2>4. Shown'
      BY <2>1 DEF Shown
    <2> QED
      BY <1>1, <2>3, <2>4
  <1> QED
    BY <1>7, <1>8

(* There is no line left to read.                                          *)
LEMMA EndOfLinesKeeps ==
  ASSUME ReaderInv, Message!EndOfLines
  PROVE  Reading' /\ Shown' /\ lines' = lines /\ frow' = frow /\ showing # "closed"
  <1> USE DEF ReaderInv
  <1>1. /\ showing = "read" /\ position.line > Len(lines) /\ showing' = "show"
        /\ lines' = lines /\ frow' = frow /\ current_line' = current_line /\ position' = position /\ line' = line
    BY DEF Message!EndOfLines, Message!AtEnd
  <1>2. lines \in Seq(Nat) /\ Len(lines) \in Nat
    BY RowsOfTokens
  <1>3. frow \in Nat
    BY <1>1, RowType
  <1>4. /\ current_line \in Nat /\ current_line <= frow
        /\ line \in Nat /\ line <= position.line /\ position.line <= current_line /\ position.line \in Nat
        /\ line = 0 => position.line = 1
        /\ \A l \in 1..Len(lines) : Message!FitBefore(l) => Follows(l)
    BY <1>1 DEF Reading
  <1>5. Reading'
    BY <1>1 DEF Reading
  <1>6. ASSUME NEW l \in 1..Len(lines), Message!FitBefore(l)
        PROVE  l <= line
    BY <1>1, <1>2, <1>4, <1>6 DEF Follows
  <1>7. line = 0 => lines = <<>>
    <2>1. line = 0 => Len(lines) = 0
      BY <1>1, <1>2, <1>4
    <2> QED
      BY <1>2, <2>1, EmptySeq
  <1>8. Shown'
    BY <1>1, <1>3, <1>4, <1>6, <1>7 DEF Shown, Message!FitBefore
  <1> QED
    BY <1>1, <1>5, <1>8

(* Looking for the line of a message and showing it.                       *)
LEMMA MessageKeeps ==
  ASSUME ReaderInv, MessageStep
  PROVE  ReaderInv'
  <1> USE DEF ReaderInv
  <1>1. Message!Next /\ UNCHANGED vars /\ UNCHANGED lexvars
    BY DEF MessageStep
  <1>2. Reading' /\ Shown' /\ lines' = lines /\ frow' = frow /\ showing # "closed"
    <2>1. CASE Message!Show
      <3>1. /\ showing = "show" /\ showing' = "done" /\ lines' = lines /\ frow' = frow
            /\ current_line' = current_line /\ position' = position /\ line' = line
        BY <2>1 DEF Message!Show
      <3> QED
        BY <3>1 DEF Reading, Shown
    <2> QED
      BY <1>1, <2>1, ReadLineKeeps, EndOfLinesKeeps DEF Message!Next
  <1>3. /\ input' = input /\ read' = read /\ look' = look /\ pc' = pc /\ Shiftable' = Shiftable
        /\ text' = text /\ at' = at /\ tokens' = tokens /\ yylloc' = yylloc
    BY <1>1, ShiftableStays DEF vars, lexvars
  <1>4. TextRight'
    BY <1>2, <1>3, TextKept
  <1>5. Place' /\ Returned' /\ ColumnsRight'
    BY <1>1, LexerRests
  <1>6. Ahead'
    BY <1>3 DEF Ahead, EndOfInput, Token
  <1>7. Row'
    BY <1>2, <1>3 DEF Row
  <1> QED
    BY <1>2, <1>4, <1>5, <1>6, <1>7

(* Nothing happens.                                                        *)
LEMMA StutterKeeps ==
  ASSUME ReaderInv, UNCHANGED allvars
  PROVE  ReaderInv'
  <1> USE DEF ReaderInv
  <1>1. UNCHANGED vars /\ UNCHANGED lexvars /\ UNCHANGED messagevars
    BY DEF allvars
  <1>2. /\ input' = input /\ read' = read /\ look' = look /\ pc' = pc /\ Shiftable' = Shiftable
        /\ text' = text /\ at' = at /\ tokens' = tokens /\ yylloc' = yylloc
        /\ lines' = lines /\ frow' = frow /\ current_line' = current_line /\ position' = position
        /\ line' = line /\ showing' = showing
    BY <1>1, ShiftableStays DEF vars, lexvars, messagevars
  <1>3. TextRight'
    BY <1>2, TextKept
  <1>4. Place' /\ Returned' /\ ColumnsRight'
    BY <1>1, LexerRests
  <1>5. Ahead'
    BY <1>2 DEF Ahead, EndOfInput, Token
  <1>6. Row'
    BY <1>2 DEF Row
  <1>7. Reading' /\ Shown'
    BY <1>2 DEF Reading, Shown, Follows, Message!FitBefore
  <1> QED
    BY <1>3, <1>4, <1>5, <1>6, <1>7

-----------------------------------------------------------------------------
(* The invariant holds while a file is read and after it.                  *)
THEOREM Invariant == ReaderSpec => []ReaderInv
  <1>1. ReaderInit => ReaderInv
    BY InitReader
  <1>2. ReaderInv /\ [ReaderStep \/ ReaderOver]_allvars => ReaderInv'
    <2>1. SUFFICES ASSUME ReaderInv, [ReaderStep \/ ReaderOver]_allvars
                   PROVE  ReaderInv'
      OBVIOUS
    <2> QED
      BY <2>1, LexKeeps, TokenKeeps, ParseKeeps, ReportKeeps, MessageKeeps, StutterKeeps DEF ReaderStep, ReaderOver
  <1> QED
    BY <1>1, <1>2, PTL DEF ReaderSpec

(* The columns that tokens are returned with (YY_USER_ACTION in lexer.x)   *)
(* are those they have in their lines, in every text, up to the first      *)
(* comment that ends or breaks a line, and are never too small.            *)
THEOREM Columns == ReaderSpec => []ColumnsRight
  <1>1. ReaderInv => ColumnsRight
    BY DEF ReaderInv
  <1> QED
    BY <1>1, Invariant, PTL

(* What yyerror and _error_underline show is the line of the token that    *)
(* the message is about, in every text whose lines before it fit into the  *)
(* buffer, and is never a later one.                                       *)
THEOREM LinesShown == ReaderSpec => []RightLine
  <1>1. ASSUME ReaderInv, showing = "show"
        PROVE  /\ line = 0 => lines = <<>>
               /\ \A l \in Meant : line <= l /\ (Message!FitBefore(l) => line = l)
    <2> USE DEF ReaderInv
    <2>1. /\ line = 0 => lines = <<>>
          /\ line <= frow
          /\ \A l \in 1..Len(lines) : Message!FitBefore(l) /\ l <= frow => l <= line
      BY <1>1 DEF Shown
    <2>2. lines \in Seq(Nat) /\ Len(lines) \in Nat
      BY <1>1, RowsOfTokens
    <2>3. line \in Nat /\ line <= Len(lines)
      BY <1>1 DEF Reading
    <2>4. frow \in Nat
      BY <1>1, RowType
    <2>5. ASSUME NEW l \in Meant
          PROVE  line <= l /\ (Message!FitBefore(l) => line = l)
      <3>1. CASE pc # "accept" /\ look = EndOfInput
        <4>1. l = Len(lines)
          BY <2>5, <3>1 DEF Meant
        <4>2. l <= frow
          <5>1. at = Len(text) /\ frow = yylloc.line
            BY <1>1, <3>1, InputsAssumption DEF Ahead, Row
          <5> QED
            BY <1>1, <4>1, <5>1, RowsOfTokens
        <4>3. CASE l = 0
          BY <2>3, <4>1, <4>3
        <4>4. CASE l # 0
          <5>1. l \in 1..Len(lines)
            BY <2>2, <4>1, <4>4
          <5> QED
            BY <2>1, <2>3, <4>1, <4>2, <5>1
        <4> QED
          BY <4>3, <4>4
      <3>2. CASE ~(pc # "accept" /\ look = EndOfInput)
        <4>1. \E t \in 1..Len(tokens) : l = LineOf[tokens[t].piece] /\ tokens[t].line = frow
          <5>1. CASE pc # "accept"
            <6>1. pc \in {"error", "exhausted"} /\ look # EndOfInput /\ frow = yylloc.line
              BY <1>1, <3>2, <5>1 DEF Row
            <6>2. read \in 1..Len(tokens) /\ frow = tokens[read].line
              <7>1. read \in Nat /\ read > 0 /\ read <= Len(tokens) /\ yylloc.line = tokens[read].line
                BY <1>1, <6>1 DEF Ahead
              <7>2. Len(tokens) \in Nat
                BY <1>1, LenProperties DEF Returned
              <7> QED
                BY <6>1, <7>1, <7>2
            <6>3. l = LineOf[tokens[read].piece]
              BY <2>5, <5>1, <6>1 DEF Meant
            <6> QED
              BY <6>2, <6>3
          <5>2. CASE pc = "accept"
            <6>1. Meant = {LineOf[tokens[t].piece] : t \in {u \in 1..Len(tokens) : tokens[u].line = frow}}
              BY <5>2 DEF Meant
            <6>2. l \in Meant
              BY <2>5
            <6>3. PICK t \in {u \in 1..Len(tokens) : tokens[u].line = frow} : l = LineOf[tokens[t].piece]
              BY <6>1, <6>2, Zenon
            <6> QED
              BY <6>3
          <5> QED
            BY <5>1, <5>2
        <4>2. l = frow /\ l \in 1..Len(lines)
          BY <1>1, <2>2, <4>1, RowsOfTokens
        <4> QED
          BY <2>1, <2>3, <2>4, <4>2
      <3> QED
        BY <3>1, <3>2
    <2> QED
      BY <2>1, <2>5
  <1>2. ReaderInv => RightLine
    BY <1>1 DEF RightLine
  <1> QED
    BY <1>2, Invariant, PTL
=============================================================================

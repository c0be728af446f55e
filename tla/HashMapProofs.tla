--------------------------- MODULE HashMapProofs ---------------------------
(***************************************************************************)
(* What is true of the hash map for every hash, every number of buckets    *)
(* and every sequence of calls.                                            *)
(*                                                                         *)
(* The first lemmas are about what the operations do to the entries that   *)
(* the tables hold.  They go from one bucket to one table, and from there  *)
(* to Says, the relation of keys and values that the map holds: the effect *)
(* of an action is in the end a formula about Says, and the proofs about   *)
(* the map look at buckets no more.                                        *)
(***************************************************************************)
EXTENDS HashMap, ArithmeticLemmas, SequenceTheorems, FiniteSetTheorems

Has(c, e) == \E j \in 1..Len(c) : c[j] = e
In(t, e)  == \E b \in DOMAIN t : Has(t[b], e)

(* What a bucket of a table of n buckets is like.                          *)
Sorted(c, b, n) ==
  /\ c \in Seq(Entries)
  /\ \A j \in 1..Len(c) : Index(c[j].key, n) = b
  /\ \A j \in 1..Len(c) : \A l \in 1..(j - 1) : c[l].key # c[j].key

Table(t, n) ==
  /\ t \in [0..(n - 1) -> Seq(Entries)]
  /\ InBucket(t, n) /\ NoTwice(t, n)

(* hash: a bucket of the table, however many it has.                       *)
LEMMA IndexType ==
  ASSUME NEW k \in Keys, NEW n \in Nat \ {0}
  PROVE  Index(k, n) \in 0..(n - 1)
  <1>1. Hash[k] \in Nat
    BY HashMapAssumption
  <1> QED
    BY <1>1 DEF Index

(* An entry is its key and its value.                                      *)
LEMMA EntryType ==
  /\ \A k \in Keys : \A v \in Values : Entry(k, v) \in Entries /\ Entry(k, v).key = k /\ Entry(k, v).value = v
  /\ \A e \in Entries : e.key \in Keys /\ e.value \in Values /\ e = Entry(e.key, e.value)
  BY DEF Entry, Entries

(* The walk along a chain stops at the first position that fits.           *)
LEMMA FirstIs ==
  ASSUME NEW J \in SUBSET Nat, J # {}
  PROVE  First(J) \in J /\ \A j \in J : First(J) <= j
  <1>1. \E x \in J : \A y \in J : x <= y
    BY Smallest
  <1> QED
    BY <1>1 DEF First

-----------------------------------------------------------------------------
(* Tables.                                                                 *)

(* A table is well formed when each of its buckets is.                     *)
LEMMA TableSorted ==
  ASSUME NEW n \in Nat \ {0}, NEW t
  PROVE  Table(t, n) <=> t \in [0..(n - 1) -> Seq(Entries)] /\ \A b \in 0..(n - 1) : Sorted(t[b], b, n)
  BY DEF Table, Sorted, InBucket, NoTwice

(* An entry is in the bucket of its key or not in the table at all.        *)
LEMMA Where ==
  ASSUME NEW n \in Nat \ {0}, NEW t, Table(t, n), NEW e \in Entries
  PROVE  In(t, e) <=> Has(t[Index(e.key, n)], e)
  <1>1. DOMAIN t = 0..(n - 1)
    BY DEF Table
  <1>2. Index(e.key, n) \in 0..(n - 1)
    BY EntryType, IndexType
  <1>3. ASSUME NEW b \in 0..(n - 1), Has(t[b], e)
        PROVE  b = Index(e.key, n)
    BY <1>3 DEF Has, Table, InBucket
  <1> QED
    BY <1>1, <1>2, <1>3 DEF In

(* A bucket is replaced.                                                   *)
LEMMA Update ==
  ASSUME NEW n \in Nat \ {0}, NEW t, Table(t, n), NEW k \in Keys,
         NEW c, Sorted(c, Index(k, n), n)
  PROVE  LET u == [t EXCEPT ![Index(k, n)] = c]
         IN  /\ Table(u, n)
             /\ \A e \in Entries : In(u, e) <=> IF Index(e.key, n) = Index(k, n) THEN Has(c, e) ELSE In(t, e)
  <1> DEFINE u == [t EXCEPT ![Index(k, n)] = c]
  <1>1. Index(k, n) \in 0..(n - 1)
    BY IndexType
  <1>2. u \in [0..(n - 1) -> Seq(Entries)] /\ \A b \in 0..(n - 1) : u[b] = IF b = Index(k, n) THEN c ELSE t[b]
    BY <1>1 DEF Table, Sorted
  <1> HIDE DEF u
  <1>3. Table(u, n)
    BY <1>2, TableSorted
  <1>4. ASSUME NEW e \in Entries
        PROVE  In(u, e) <=> IF Index(e.key, n) = Index(k, n) THEN Has(c, e) ELSE In(t, e)
    <2>1. Index(e.key, n) \in 0..(n - 1)
      BY EntryType, IndexType
    <2>2. In(u, e) <=> Has(u[Index(e.key, n)], e)
      BY <1>3, Where
    <2>3. In(t, e) <=> Has(t[Index(e.key, n)], e)
      BY Where
    <2> QED
      BY <1>2, <2>1, <2>2, <2>3
  <1> QED
    BY <1>3, <1>4 DEF u

-----------------------------------------------------------------------------
(* Buckets.                                                                *)

(* An empty bucket holds nothing.                                          *)
LEMMA EmptySorted ==
  ASSUME NEW b, NEW n
  PROVE  Sorted(<<>>, b, n) /\ \A e : ~Has(<<>>, e)
  BY DEF Sorted, Has

(* An entry with a new key is put at the end of a chain.                   *)
LEMMA AppendSorted ==
  ASSUME NEW n \in Nat \ {0}, NEW b, NEW c, Sorted(c, b, n), NEW e \in Entries,
         Index(e.key, n) = b, \A j \in 1..Len(c) : c[j].key # e.key
  PROVE  /\ Sorted(Append(c, e), b, n)
         /\ \A x : Has(Append(c, e), x) <=> Has(c, x) \/ x = e
  <1>1. c \in Seq(Entries) /\ Len(c) \in Nat
    BY LenProperties DEF Sorted
  <1>2. /\ Append(c, e) \in Seq(Entries) /\ Len(Append(c, e)) = Len(c) + 1
        /\ \A j \in 1..(Len(c) + 1) : Append(c, e)[j] = IF j <= Len(c) THEN c[j] ELSE e
    BY <1>1
  <1> QED
    BY <1>1, <1>2 DEF Sorted, Has

(* An entry of a chain has its value overwritten.                          *)
LEMMA ReplaceSorted ==
  ASSUME NEW n \in Nat \ {0}, NEW b, NEW c, Sorted(c, b, n), NEW i \in 1..Len(c), NEW v \in Values
  PROVE  LET d == [c EXCEPT ![i].value = v]
         IN  /\ Sorted(d, b, n)
             /\ \A x \in Entries : Has(d, x) <=> IF x.key = c[i].key THEN x.value = v ELSE Has(c, x)
  <1> DEFINE d == [c EXCEPT ![i].value = v]
             e == Entry(c[i].key, v)
  <1>1. c \in Seq(Entries) /\ Len(c) \in Nat /\ DOMAIN c = 1..Len(c)
    BY LenProperties DEF Sorted
  <1>2. \A j \in 1..Len(c) : c[j] \in Entries
    BY <1>1, ElementOfSeq
  <1>3. e \in Entries /\ e.key = c[i].key /\ e.value = v
    BY <1>2, EntryType
  <1>4. [c[i] EXCEPT !.value = v] = e
    BY <1>2 DEF Entry, Entries
  <1>5. d = [c EXCEPT ![i] = e]
    BY <1>4
  <1> HIDE DEF e
  <1>6. d \in Seq(Entries) /\ Len(d) = Len(c) /\ \A j \in 1..Len(c) : d[j] = IF j = i THEN e ELSE c[j]
    BY <1>1, <1>3, <1>5, ExceptSeq
  <1> HIDE DEF d
  <1>7. \A j \in 1..Len(c) : d[j].key = c[j].key
    BY <1>3, <1>6
  <1>8. Sorted(d, b, n)
    BY <1>6, <1>7, <1>1 DEF Sorted
  <1>9. ASSUME NEW x \in Entries
        PROVE  Has(d, x) <=> IF x.key = c[i].key THEN x.value = v ELSE Has(c, x)
    <2>1. CASE x.key = c[i].key
      <3>1. \A j \in 1..Len(c) : j # i => c[j].key # c[i].key
        BY <1>1 DEF Sorted
      <3>2. x.value = v => x = e
        BY <2>1, EntryType DEF e
      <3> QED
        BY <2>1, <3>1, <3>2, <1>3, <1>6, <1>7 DEF Has
    <2>2. CASE x.key # c[i].key
      BY <2>2, <1>3, <1>6 DEF Has
    <2> QED
      BY <2>1, <2>2
  <1> QED
    BY <1>8, <1>9 DEF d

(* An entry is taken out of a chain: since no key is in it twice, none     *)
(* with its key is left.                                                   *)
LEMMA RemoveSorted ==
  ASSUME NEW n \in Nat \ {0}, NEW b, NEW c, Sorted(c, b, n), NEW i \in 1..Len(c)
  PROVE  /\ Sorted(RemovedAt(c, i), b, n)
         /\ \A x : Has(RemovedAt(c, i), x) <=> Has(c, x) /\ x.key # c[i].key
  <1> DEFINE d == RemovedAt(c, i)
  <1>1. c \in Seq(Entries) /\ Len(c) \in Nat /\ DOMAIN c = 1..Len(c)
    BY LenProperties DEF Sorted
  <1>2. \A j \in 1..Len(c) : c[j] \in Entries
    BY <1>1, ElementOfSeq
  <1>3. /\ d \in Seq(Entries) /\ Len(d) = Len(c) - 1
        /\ \A j \in 1..(Len(c) - 1) : d[j] = IF j < i THEN c[j] ELSE c[j + 1]
    BY <1>1, <1>2 DEF RemovedAt
  <1> HIDE DEF d
  <1>4. \A j \in 1..Len(c) : \A l \in 1..Len(c) : j # l => c[l].key # c[j].key
    BY <1>1 DEF Sorted
  <1>5. Sorted(d, b, n)
    BY <1>1, <1>3, <1>4 DEF Sorted
  <1>6. ASSUME NEW x, Has(d, x)
        PROVE  Has(c, x) /\ x.key # c[i].key
    BY <1>1, <1>3, <1>4, <1>6 DEF Has
  <1>7. ASSUME NEW x, Has(c, x), x.key # c[i].key
        PROVE  Has(d, x)
    <2>1. PICK j \in 1..Len(c) : c[j] = x
      BY <1>7 DEF Has
    <2>2. CASE j < i
      BY <1>1, <1>3, <2>1, <2>2 DEF Has
    <2>3. CASE j > i
      <3>1. j - 1 \in 1..(Len(c) - 1) /\ d[j - 1] = x
        BY <1>1, <1>3, <2>1, <2>3
      <3> QED
        BY <1>3, <3>1 DEF Has
    <2> QED
      BY <1>7, <2>1, <2>2, <2>3
  <1> QED
    BY <1>5, <1>6, <1>7 DEF d

(* The head of a bucket is taken out like any other entry.                 *)
LEMMA TailIsRemoved ==
  ASSUME NEW c \in Seq(Entries), c # <<>>
  PROVE  Tail(c) = RemovedAt(c, 1)
  <1>1. Len(c) \in Nat /\ Tail(c) \in Seq(Entries) /\ Len(Tail(c)) = Len(c) - 1
        /\ \A i \in 1..Len(Tail(c)) : Tail(c)[i] = c[i + 1]
    BY LenProperties, HeadTailProperties
  <1>2. \A j \in 1..Len(c) : c[j] \in Entries
    BY ElementOfSeq
  <1>3. RemovedAt(c, 1) \in Seq(Entries) /\ Len(RemovedAt(c, 1)) = Len(c) - 1
        /\ \A i \in 1..(Len(c) - 1) : RemovedAt(c, 1)[i] = c[i + 1]
    BY <1>1, <1>2, EmptySeq DEF RemovedAt
  <1> QED
    BY <1>1, <1>3, SeqEqual

-----------------------------------------------------------------------------
(* What the effects of the actions rest on.                                *)
Shape ==
  /\ s_buckets \in Nat \ {0}
  /\ Table(buckets, s_buckets)
  /\ pc = "grow" =>
       /\ Table(temp, 2 * s_buckets)
       /\ \A e, f \in Entries : In(buckets, e) /\ In(temp, f) => e.key # f.key

(* The keys of a table are those of its entries.                           *)
LEMMA KeysOfTable ==
  ASSUME NEW n \in Nat \ {0}, NEW t \in [0..(n - 1) -> Seq(Entries)], NEW k
  PROVE  k \in KeysOf(t) <=> \E e \in Entries : In(t, e) /\ e.key = k
  <1>1. DOMAIN t = 0..(n - 1)
    OBVIOUS
  <1>2. \A b \in 0..(n - 1) : \A j \in 1..Len(t[b]) : t[b][j] \in Entries
    BY ElementOfSeq
  <1> QED
    BY <1>1, <1>2, EntryType DEF KeysOf, In, Has

(* Two tables share no key when no entry of one has the key of an entry of *)
(* the other.                                                              *)
LEMMA DisjointTables ==
  ASSUME NEW n \in Nat \ {0}, NEW m \in Nat \ {0},
         NEW t \in [0..(n - 1) -> Seq(Entries)], NEW u \in [0..(m - 1) -> Seq(Entries)]
  PROVE  KeysOf(t) \cap KeysOf(u) = {} <=> \A e, f \in Entries : In(t, e) /\ In(u, f) => e.key # f.key
  <1>1. \A k : k \in KeysOf(t) <=> \E e \in Entries : In(t, e) /\ e.key = k
    BY KeysOfTable
  <1>2. \A k : k \in KeysOf(u) <=> \E e \in Entries : In(u, e) /\ e.key = k
    BY KeysOfTable
  <1>3. KeysOf(t) \cap KeysOf(u) = {} <=> \A k : ~(k \in KeysOf(t) /\ k \in KeysOf(u))
    OBVIOUS
  <1>4. (\A k : ~(k \in KeysOf(t) /\ k \in KeysOf(u)))
          <=> \A e, f \in Entries : In(t, e) /\ In(u, f) => e.key # f.key
    BY <1>1, <1>2, Zenon
  <1> QED
    BY <1>3, <1>4

(* TypeOK and Placed are of this shape, and back.                          *)
LEMMA ShapeNow == TypeOK /\ Placed => Shape
  <1> SUFFICES ASSUME TypeOK, Placed PROVE Shape
    OBVIOUS
  <1>1. s_buckets \in Nat \ {0} /\ 2 * s_buckets \in Nat \ {0} /\ Table(buckets, s_buckets)
    BY DEF TypeOK, Placed, Table
  <1>2. ASSUME pc = "grow"
        PROVE  /\ Table(temp, 2 * s_buckets)
               /\ \A e, f \in Entries : In(buckets, e) /\ In(temp, f) => e.key # f.key
    <2>1. Table(temp, 2 * s_buckets) /\ KeysOf(buckets) \cap KeysOf(temp) = {}
      BY <1>2 DEF TypeOK, Placed, Table
    <2> QED
      BY <1>1, <2>1, DisjointTables DEF Table
  <1> QED
    BY <1>1, <1>2 DEF Shape

(* The other direction.                                                    *)
LEMMA PlacedNow == Shape => Placed
  <1> SUFFICES ASSUME Shape PROVE Placed
    OBVIOUS
  <1>1. s_buckets \in Nat \ {0} /\ 2 * s_buckets \in Nat \ {0} /\ Table(buckets, s_buckets)
    BY DEF Shape
  <1>2. ASSUME pc = "grow"
        PROVE  KeysOf(buckets) \cap KeysOf(temp) = {}
    BY <1>1, <1>2, DisjointTables DEF Shape, Table
  <1> QED
    BY <1>1, <1>2 DEF Shape, Placed, Table

(* What the map says is what its table holds, or its two tables while it   *)
(* grows.                                                                  *)
LEMMA SaysNow ==
  /\ pc # "grow" => \A k, v : Says(k, v) <=> In(buckets, Entry(k, v))
  /\ pc = "grow" => \A k, v : Says(k, v) <=> In(buckets, Entry(k, v)) \/ In(temp, Entry(k, v))
  BY DEF Says, Tables, In, Has

(* The same, after a step.                                                 *)
LEMMA SaysNext ==
  /\ pc' # "grow" => \A k, v : Says(k, v)' <=> In(buckets', Entry(k, v))
  /\ pc' = "grow" => \A k, v : Says(k, v)' <=> In(buckets', Entry(k, v)) \/ In(temp', Entry(k, v))
  BY DEF Says, Tables, In, Has

(* Every change of one bucket while the map is not growing.                *)
LEMMA BucketSet ==
  ASSUME Shape, pc # "grow", NEW k \in Keys, NEW c, Sorted(c, Index(k, s_buckets), s_buckets),
         SetBucket(k, c), s_buckets' = s_buckets
  PROVE  /\ Table(buckets', s_buckets')
         /\ \A x \in Keys : \A w \in Values :
              In(buckets', Entry(x, w)) <=>
                IF Index(x, s_buckets) = Index(k, s_buckets) THEN Has(c, Entry(x, w)) ELSE Says(x, w)
  <1>1. s_buckets \in Nat \ {0} /\ Table(buckets, s_buckets)
    BY DEF Shape
  <1>2. /\ Table(buckets', s_buckets)
        /\ \A e \in Entries :
             In(buckets', e) <=> IF Index(e.key, s_buckets) = Index(k, s_buckets) THEN Has(c, e) ELSE In(buckets, e)
    BY <1>1, Update DEF SetBucket
  <1> QED
    BY <1>2, EntryType, SaysNow

(* The bucket of a key holds all that the map says of the keys with its    *)
(* index.                                                                  *)
LEMMA BucketNow ==
  ASSUME Shape, NEW k \in Keys
  PROVE  /\ Sorted(Bucket(k), Index(k, s_buckets), s_buckets)
         /\ pc # "grow" => \A x \in Keys : \A w \in Values :
              Index(x, s_buckets) = Index(k, s_buckets) => (Says(x, w) <=> Has(Bucket(k), Entry(x, w)))
  <1>1. s_buckets \in Nat \ {0} /\ Table(buckets, s_buckets) /\ Index(k, s_buckets) \in 0..(s_buckets - 1)
    BY IndexType DEF Shape
  <1>2. Sorted(Bucket(k), Index(k, s_buckets), s_buckets)
    BY <1>1, TableSorted DEF Bucket
  <1>3. \A x \in Keys : \A w \in Values :
          In(buckets, Entry(x, w)) <=> Has(buckets[Index(x, s_buckets)], Entry(x, w))
    BY <1>1, Where, EntryType
  <1> QED
    BY <1>2, <1>3, SaysNow DEF Bucket

(* The position the search of a chain finds.                               *)
LEMMA ChainedIs ==
  ASSUME Shape, NEW k \in Keys
  PROVE  /\ Chained(Bucket(k), k) # {} =>
              LET j == First(Chained(Bucket(k), k))
              IN  j \in 1..Len(Bucket(k)) /\ Bucket(k)[j].key = k
         /\ Chained(Bucket(k), k) = {} /\ ~HeadIs(k) => \A j \in 1..Len(Bucket(k)) : Bucket(k)[j].key # k
  <1>1. Bucket(k) \in Seq(Entries) /\ Len(Bucket(k)) \in Nat
    BY BucketNow, LenProperties DEF Sorted
  <1>2. Chained(Bucket(k), k) \in SUBSET Nat
    BY <1>1 DEF Chained
  <1>3. ASSUME Chained(Bucket(k), k) # {}
        PROVE  First(Chained(Bucket(k), k)) \in Chained(Bucket(k), k)
    BY <1>2, <1>3, FirstIs
  <1>4. Len(Bucket(k)) # 0 => Bucket(k) # <<>>
    BY <1>1
  <1> QED
    BY <1>1, <1>3, <1>4 DEF Chained, HeadIs

-----------------------------------------------------------------------------
(* The effect of each action on Shape and on what the map says.            *)

(* An insertion: the key has the new value, whether it was there or not,   *)
(* and nothing else changes.                                               *)
LEMMA InsertEffect ==
  ASSUME Shape, NEW k \in Keys, NEW v \in Values, NEW to_free, Insert(k, v, to_free)
  PROVE  /\ Shape'
         /\ \A x \in Keys : \A w \in Values : Says(x, w)' <=> IF x = k THEN w = v ELSE Says(x, w)
  <1> DEFINE c == Bucket(k)
             b == Index(k, s_buckets)
             n == s_buckets
  <1>1. pc = "idle" /\ n \in Nat \ {0} /\ s_buckets' = s_buckets
    BY DEF Insert, InsertFirst, OverwriteHead, OverwriteChained, InsertChained, Shape
  <1>2. Sorted(c, b, n) /\ c \in Seq(Entries) /\ Len(c) \in Nat
    BY BucketNow, LenProperties DEF Sorted
  <1>3. ASSUME NEW x \in Keys, NEW w \in Values, Index(x, n) = b
        PROVE  Says(x, w) <=> Has(c, Entry(x, w))
    BY <1>1, <1>3, BucketNow
  <1>4. \A x \in Keys : \A w \in Values : Entry(x, w) \in Entries /\ Entry(x, w).key = x /\ Entry(x, w).value = w
    BY EntryType
  <1>5. ASSUME NEW d, Sorted(d, b, n), SetBucket(k, d),
               \A x \in Keys : \A w \in Values :
                 Has(d, Entry(x, w)) <=> IF x = k THEN w = v ELSE Has(c, Entry(x, w))
        PROVE  /\ Table(buckets', s_buckets')
               /\ \A x \in Keys : \A w \in Values :
                    In(buckets', Entry(x, w)) <=> IF x = k THEN w = v ELSE Says(x, w)
    <2>1. /\ Table(buckets', s_buckets')
          /\ \A x \in Keys : \A w \in Values :
               In(buckets', Entry(x, w)) <=> IF Index(x, n) = b THEN Has(d, Entry(x, w)) ELSE Says(x, w)
      BY <1>1, <1>5, BucketSet
    <2> QED
      BY <2>1, <1>3, <1>5
  <1>6. /\ Table(buckets', s_buckets')
        /\ \A x \in Keys : \A w \in Values :
             In(buckets', Entry(x, w)) <=> IF x = k THEN w = v ELSE Says(x, w)
    <2>1. CASE InsertFirst(k, v)
      <3> DEFINE d == Append(c, Entry(k, v))
      <3>1. c = <<>> /\ SetBucket(k, d)
        BY <2>1 DEF InsertFirst
      <3>2. \A j \in 1..Len(c) : FALSE
        BY <3>1
      <3>3. Sorted(d, b, n) /\ \A x : Has(d, x) <=> Has(c, x) \/ x = Entry(k, v)
        BY <1>1, <1>2, <1>4, <3>2, AppendSorted
      <3> HIDE DEF d
      <3>4. \A x \in Keys : \A w \in Values :
              Has(d, Entry(x, w)) <=> IF x = k THEN w = v ELSE Has(c, Entry(x, w))
        BY <3>2, <3>3, <1>4 DEF Has
      <3> QED
        BY <3>1, <3>3, <3>4, <1>5
    <2>2. CASE OverwriteHead(k, v, to_free)
      <3> DEFINE d == [c EXCEPT ![1].value = v]
      <3>1. SetBucket(k, d) /\ 1 \in 1..Len(c) /\ c[1].key = k
        BY <2>2, <1>2 DEF OverwriteHead, HeadIs
      <3>2. Sorted(d, b, n) /\ \A x \in Entries : Has(d, x) <=> IF x.key = c[1].key THEN x.value = v ELSE Has(c, x)
        BY <1>1, <1>2, <3>1, ReplaceSorted
      <3> HIDE DEF d
      <3> QED
        BY <3>1, <3>2, <1>4, <1>5
    <2>3. CASE OverwriteChained(k, v)
      <3> DEFINE j == First(Chained(c, k))
                 d == [c EXCEPT ![j].value = v]
      <3>1. SetBucket(k, d) /\ Chained(c, k) # {}
        BY <2>3 DEF OverwriteChained, InChain
      <3>2. j \in 1..Len(c) /\ c[j].key = k
        BY <3>1, ChainedIs
      <3>3. Sorted(d, b, n) /\ \A x \in Entries : Has(d, x) <=> IF x.key = c[j].key THEN x.value = v ELSE Has(c, x)
        BY <1>1, <1>2, <3>2, ReplaceSorted
      <3> HIDE DEF d
      <3> QED
        BY <3>1, <3>2, <3>3, <1>4, <1>5
    <2>4. CASE InsertChained(k, v)
      <3> DEFINE d == Append(c, Entry(k, v))
      <3>1. SetBucket(k, d) /\ Chained(c, k) = {} /\ ~HeadIs(k)
        BY <2>4 DEF InsertChained, NotThere
      <3>2. \A j \in 1..Len(c) : c[j].key # k
        BY <3>1, ChainedIs
      <3>3. Sorted(d, b, n) /\ \A x : Has(d, x) <=> Has(c, x) \/ x = Entry(k, v)
        BY <1>1, <1>2, <1>4, <3>2, AppendSorted
      <3> HIDE DEF d
      <3>4. \A w \in Values : ~Has(c, Entry(k, w))
        BY <3>2, <1>4 DEF Has
      <3>5. \A x \in Keys : \A w \in Values :
              Has(d, Entry(x, w)) <=> IF x = k THEN w = v ELSE Has(c, Entry(x, w))
        BY <3>3, <3>4, <1>4
      <3> QED
        BY <3>1, <3>3, <3>5, <1>5
    <2> QED
      BY <2>1, <2>2, <2>3, <2>4 DEF Insert
  <1>7. pc' = "grow" => temp' = Empty(2 * n)
    BY <1>1 DEF Insert, InsertFirst, OverwriteHead, OverwriteChained, InsertChained
  <1>8. /\ Table(Empty(2 * n), 2 * n)
        /\ \A e : ~In(Empty(2 * n), e)
    <2>1. 2 * n \in Nat \ {0}
      BY <1>1
    <2>2. \A i \in 0..(2 * n - 1) : Sorted(<<>>, i, 2 * n)
      BY EmptySorted
    <2>3. Empty(2 * n) \in [0..(2 * n - 1) -> Seq(Entries)] /\ \A i \in 0..(2 * n - 1) : Empty(2 * n)[i] = <<>>
      BY DEF Empty
    <2>4. DOMAIN Empty(2 * n) = 0..(2 * n - 1)
      BY DEF Empty
    <2> QED
      BY <2>1, <2>2, <2>3, <2>4, TableSorted, EmptySorted DEF In
  <1>9. Shape'
    BY <1>1, <1>6, <1>7, <1>8 DEF Shape
  <1>10. \A x \in Keys : \A w \in Values : Says(x, w)' <=> In(buckets', Entry(x, w))
    BY <1>7, <1>8, SaysNext
  <1> QED
    BY <1>6, <1>9, <1>10

(* A removal of a key that is found: it had a value, which is dropped, and *)
(* has none any more.                                                      *)
LEMMA RemovalEffect ==
  ASSUME Shape, arg.key \in Keys, RemoveHead \/ RemoveChained
  PROVE  /\ Shape'
         /\ \A x \in Keys : \A w \in Values : Says(x, w)' <=> x # arg.key /\ Says(x, w)
         /\ \E w \in Values : Says(arg.key, w) /\ Dropped(w)
  <1> DEFINE k == arg.key
             c == Bucket(k)
             b == Index(k, s_buckets)
             n == s_buckets
  <1>1. k \in Keys /\ n \in Nat \ {0} /\ pc = "remove" /\ s_buckets' = n /\ pc' # "grow"
    BY DEF RemoveHead, RemoveChained, Shape
  <1>2. Sorted(c, b, n) /\ c \in Seq(Entries) /\ Len(c) \in Nat
    BY <1>1, BucketNow, LenProperties DEF Sorted
  <1>3. PICK i \in 1..Len(c) : c[i].key = k /\ SetBucket(k, RemovedAt(c, i)) /\ Dropped(c[i].value)
    <2>1. CASE RemoveHead
      <3>1. c # <<>> /\ c[1].key = k /\ SetBucket(k, Tail(c)) /\ Dropped(c[1].value)
        BY <2>1 DEF RemoveHead, HeadIs
      <3>2. Tail(c) = RemovedAt(c, 1)
        BY <1>2, <3>1, TailIsRemoved
      <3>3. 1 \in 1..Len(c)
        BY <1>2, <3>1
      <3>4. SetBucket(k, RemovedAt(c, 1))
        BY <3>1, <3>2
      <3> QED
        BY <3>1, <3>3, <3>4
    <2>2. CASE RemoveChained
      <3>1. Chained(c, k) # {}
        BY <2>2 DEF RemoveChained
      <3>2. LET j == First(Chained(c, k)) IN j \in 1..Len(c) /\ c[j].key = k
        BY <1>1, <3>1, ChainedIs
      <3>3. LET j == First(Chained(c, k)) IN SetBucket(k, RemovedAt(c, j)) /\ Dropped(c[j].value)
        BY <2>2 DEF RemoveChained
      <3> QED
        BY <3>2, <3>3
    <2> QED
      BY <2>1, <2>2
  <1>4. /\ Sorted(RemovedAt(c, i), b, n)
        /\ \A x : Has(RemovedAt(c, i), x) <=> Has(c, x) /\ x.key # c[i].key
    BY <1>1, <1>2, RemoveSorted
  <1>5. \A x \in Keys : \A w \in Values : Entry(x, w) \in Entries /\ Entry(x, w).key = x /\ Entry(x, w).value = w
    BY EntryType
  <1>6. \A x \in Keys : \A w \in Values : Index(x, n) = b => (Says(x, w) <=> Has(c, Entry(x, w)))
    BY <1>1, BucketNow
  <1>7. /\ Table(buckets', s_buckets')
        /\ \A x \in Keys : \A w \in Values :
             In(buckets', Entry(x, w)) <=> IF Index(x, n) = b THEN Has(RemovedAt(c, i), Entry(x, w)) ELSE Says(x, w)
    BY <1>1, <1>3, <1>4, BucketSet
  <1>8. \A x \in Keys : \A w \in Values : Says(x, w)' <=> In(buckets', Entry(x, w))
    BY <1>1, SaysNext
  <1>9. \A x \in Keys : \A w \in Values : Says(x, w)' <=> x # k /\ Says(x, w)
    BY <1>3, <1>4, <1>5, <1>6, <1>7, <1>8
  <1>10. c[i].value \in Values /\ Says(k, c[i].value)
    <2>1. c[i] \in Entries
      BY <1>2, ElementOfSeq
    <2>2. c[i].value \in Values /\ c[i] = Entry(k, c[i].value)
      BY <1>3, <2>1, EntryType
    <2>3. Has(c, Entry(k, c[i].value))
      BY <2>2 DEF Has
    <2> QED
      BY <1>1, <1>6, <2>2, <2>3
  <1> QED
    BY <1>1, <1>3, <1>7, <1>9, <1>10 DEF Shape

(* A removal that finds nothing: the map says nothing of the key.          *)
LEMMA MissedEffect ==
  ASSUME Shape, arg.key \in Keys, RemoveMissed
  PROVE  \A w \in Values : ~Says(arg.key, w)
  <1> DEFINE k == arg.key
             c == Bucket(k)
  <1>1. k \in Keys /\ pc = "remove" /\ Chained(c, k) = {} /\ ~HeadIs(k)
    BY DEF RemoveMissed
  <1>2. \A j \in 1..Len(c) : c[j].key # k
    BY <1>1, ChainedIs
  <1>3. \A w \in Values : Says(k, w) <=> Has(c, Entry(k, w))
    BY <1>1, BucketNow
  <1> QED
    BY <1>1, <1>2, <1>3, EntryType DEF Has

(* Growth: the entry that is moved keeps its key, and no other entry of    *)
(* either table has it.                                                    *)
LEMMA MoveEffect ==
  ASSUME Shape, MoveEntry
  PROVE  /\ Shape'
         /\ \A x \in Keys : \A w \in Values : Says(x, w)' <=> Says(x, w)
  <1> DEFINE n == s_buckets
             m == 2 * s_buckets
             i == First(NonEmpty)
             c == buckets[i]
             e == Head(c)
             k == e.key
  <1>1. /\ n \in Nat \ {0} /\ m \in Nat \ {0} /\ pc = "grow" /\ pc' = "grow" /\ s_buckets' = s_buckets
        /\ NonEmpty # {} /\ temp' = Moved(e) /\ buckets' = [buckets EXCEPT ![i] = Tail(@)]
        /\ Table(buckets, n) /\ Table(temp, m)
        /\ \A e1, e2 \in Entries : In(buckets, e1) /\ In(temp, e2) => e1.key # e2.key
    BY DEF MoveEntry, Shape
  <1>0. m = 2 * s_buckets /\ i = First(NonEmpty) /\ c = buckets[i] /\ e = Head(c) /\ k = e.key
    OBVIOUS
  <1> HIDE DEF m, i, c, e, k
  <1>2. i \in 0..(n - 1) /\ c # <<>>
    <2>1. NonEmpty \in SUBSET Nat
      BY <1>1 DEF NonEmpty, Table
    <2>2. i \in NonEmpty
      BY <1>0, <1>1, <2>1, FirstIs
    <2> QED
      BY <1>0, <1>1, <2>2 DEF NonEmpty, Table
  <1>3. Sorted(c, i, n) /\ c \in Seq(Entries) /\ Len(c) \in Nat \ {0}
    BY <1>0, <1>1, <1>2, TableSorted, EmptySeq DEF Sorted
  <1>4. e = c[1] /\ e \in Entries /\ k \in Keys /\ Index(k, n) = i /\ 1 \in 1..Len(c)
    <2>1. e = c[1] /\ 1 \in 1..Len(c)
      BY <1>0, <1>3
    <2>2. e \in Entries
      BY <1>3, <2>1, ElementOfSeq
    <2> QED
      BY <1>0, <1>3, <2>1, <2>2, EntryType DEF Sorted
  <1>5. In(buckets, e)
    BY <1>0, <1>1, <1>2, <1>4 DEF In, Has, Table
  <1>6. /\ Sorted(Tail(c), i, n)
        /\ \A x : Has(Tail(c), x) <=> Has(c, x) /\ x.key # k
    <2>1. Tail(c) = RemovedAt(c, 1)
      BY <1>2, <1>3, TailIsRemoved
    <2>2. /\ Sorted(RemovedAt(c, 1), i, n)
          /\ \A x : Has(RemovedAt(c, 1), x) <=> Has(c, x) /\ x.key # c[1].key
      BY <1>1, <1>3, <1>4, RemoveSorted
    <2> QED
      BY <1>0, <1>4, <2>1, <2>2
  <1>7. /\ Table(buckets', n)
        /\ \A x \in Entries : In(buckets', x) <=> In(buckets, x) /\ x.key # k
    <2>1. buckets' = [buckets EXCEPT ![Index(k, n)] = Tail(c)]
      BY <1>0, <1>1, <1>4
    <2>4. Table(buckets, n) /\ n \in Nat \ {0} /\ k \in Keys /\ Sorted(Tail(c), Index(k, n), n)
      BY <1>1, <1>4, <1>6
    <2>5. LET w == [buckets EXCEPT ![Index(k, n)] = Tail(c)]
          IN  /\ Table(w, n)
              /\ \A x \in Entries : In(w, x) <=> IF Index(x.key, n) = Index(k, n) THEN Has(Tail(c), x) ELSE In(buckets, x)
      BY <2>4, Update
    <2>2. /\ Table(buckets', n)
          /\ \A x \in Entries : In(buckets', x) <=> IF Index(x.key, n) = i THEN Has(Tail(c), x) ELSE In(buckets, x)
      BY <1>4, <2>1, <2>5
    <2>3. \A x \in Entries : Index(x.key, n) = i => (In(buckets, x) <=> Has(c, x))
      BY <1>0, <1>1, Where
    <2> QED
      BY <1>4, <1>6, <2>2, <2>3
  <1> DEFINE d == temp[Index(k, m)]
  <1>8. Index(k, m) \in 0..(m - 1) /\ Sorted(d, Index(k, m), m)
    BY <1>1, <1>4, IndexType, TableSorted
  <1>81. d = temp[Index(k, m)]
    OBVIOUS
  <1> HIDE DEF d
  <1>9. \A j \in 1..Len(d) : d[j].key # k
    <2> SUFFICES ASSUME NEW j \in 1..Len(d) PROVE d[j].key # k
      OBVIOUS
    <2>1. d[j] \in Entries
      BY <1>8, ElementOfSeq DEF Sorted
    <2>2. In(temp, d[j])
      BY <1>1, <1>8, <1>81 DEF In, Has, Table
    <2> QED
      BY <1>0, <1>1, <1>4, <1>5, <2>1, <2>2
  <1>10. /\ Sorted(Append(d, e), Index(k, m), m)
         /\ \A x : Has(Append(d, e), x) <=> Has(d, x) \/ x = e
    BY <1>0, <1>1, <1>4, <1>8, <1>9, AppendSorted
  <1>11. /\ Table(temp', m)
         /\ \A x \in Entries : In(temp', x) <=> In(temp, x) \/ x = e
    <2>1. temp' = [temp EXCEPT ![Index(k, m)] = Append(d, e)]
      BY <1>0, <1>1, <1>81 DEF Moved
    <2>2. /\ Table(temp', m)
          /\ \A x \in Entries : In(temp', x) <=> IF Index(x.key, m) = Index(k, m) THEN Has(Append(d, e), x) ELSE In(temp, x)
      <3>1. Table(temp, m) /\ m \in Nat \ {0} /\ k \in Keys /\ Sorted(Append(d, e), Index(k, m), m)
        BY <1>1, <1>4, <1>10
      <3>2. LET w == [temp EXCEPT ![Index(k, m)] = Append(d, e)]
            IN  /\ Table(w, m)
                /\ \A x \in Entries : In(w, x) <=> IF Index(x.key, m) = Index(k, m) THEN Has(Append(d, e), x) ELSE In(temp, x)
        BY <3>1, Update
      <3> QED
        BY <2>1, <3>2
    <2>3. \A x \in Entries : Index(x.key, m) = Index(k, m) => (In(temp, x) <=> Has(d, x))
      BY <1>1, <1>81, Where
    <2> QED
      BY <1>0, <1>4, <1>10, <2>2, <2>3
  <1>12. \A x \in Entries : In(buckets, x) /\ x.key = k => x = e
    <2> SUFFICES ASSUME NEW x \in Entries, In(buckets, x), x.key = k PROVE x = e
      OBVIOUS
    <2>1. Has(c, x)
      BY <1>0, <1>1, <1>4, Where
    <2> QED
      BY <2>1, <1>0, <1>3, <1>4 DEF Sorted, Has
  <1>13. \A e1, e2 \in Entries : In(buckets', e1) /\ In(temp', e2) => e1.key # e2.key
    BY <1>0, <1>1, <1>7, <1>11
  <1>14. \A x \in Entries : In(buckets', x) \/ In(temp', x) <=> In(buckets, x) \/ In(temp, x)
    BY <1>4, <1>5, <1>7, <1>11, <1>12
  <1>15. Shape'
    BY <1>0, <1>1, <1>7, <1>11, <1>13 DEF Shape
  <1> QED
    BY <1>1, <1>14, <1>15, SaysNow, SaysNext, EntryType

(* The end of growth: all entries have been moved.                         *)
LEMMA SwapEffect ==
  ASSUME Shape, SwapTables
  PROVE  /\ Shape'
         /\ \A x \in Keys : \A w \in Values : Says(x, w)' <=> Says(x, w)
  <1>1. /\ pc = "grow" /\ pc' = "idle" /\ buckets' = temp /\ s_buckets' = 2 * s_buckets /\ NonEmpty = {}
        /\ s_buckets \in Nat \ {0} /\ 2 * s_buckets \in Nat \ {0} /\ Table(temp, 2 * s_buckets)
    BY DEF SwapTables, Shape
  <1>2. \A e : ~In(buckets, e)
    BY <1>1, EmptySorted DEF NonEmpty, In
  <1> QED
    BY <1>1, <1>2, SaysNow, SaysNext DEF Shape

(* hashmap_free: the map says nothing any more.                            *)
LEMMA FreeEffect ==
  ASSUME Shape, NEW to_free, Free(to_free)
  PROVE  /\ Shape'
         /\ \A x \in Keys : \A w \in Values : ~Says(x, w)'
  <1>1. pc = "idle" /\ pc' = "freed" /\ buckets' = Empty(s_buckets) /\ s_buckets' = s_buckets
        /\ s_buckets \in Nat \ {0}
    BY DEF Free, Shape
  <1>2. \A i \in 0..(s_buckets - 1) : Sorted(<<>>, i, s_buckets)
    BY EmptySorted
  <1>3. /\ buckets' \in [0..(s_buckets - 1) -> Seq(Entries)] /\ DOMAIN buckets' = 0..(s_buckets - 1)
        /\ \A i \in 0..(s_buckets - 1) : buckets'[i] = <<>>
    BY <1>1 DEF Empty
  <1>4. Table(buckets', s_buckets) /\ \A e : ~In(buckets', e)
    BY <1>1, <1>2, <1>3, TableSorted, EmptySorted DEF In
  <1> QED
    BY <1>1, <1>4, SaysNext DEF Shape

(* The other steps leave the tables as they are.                           *)
LEMMA NoEffect ==
  ASSUME Shape, UNCHANGED <<s_buckets, buckets, temp>>, pc # "grow", pc' # "grow"
  PROVE  /\ Shape'
         /\ \A x \in Keys : \A w \in Values : Says(x, w)' <=> Says(x, w)
  BY SaysNow, SaysNext DEF Shape

-----------------------------------------------------------------------------
(* What the sets of HashMap are in terms of Says.                          *)

(* The keys and the values the map holds.                                  *)
LEMMA SetsNow ==
  Shape =>
    /\ KeysIn = {k \in Keys : \E v \in Values : Says(k, v)}
    /\ Reachable = {v \in Values : \E k \in Keys : Says(k, v)}
    /\ pc # "grow" => Stored = Reachable
    /\ \A k \in Keys : \A v, w \in Values : Says(k, v) /\ Says(k, w) => v = w
  <1> SUFFICES ASSUME Shape
               PROVE  /\ KeysIn = {k \in Keys : \E v \in Values : Says(k, v)}
                      /\ Reachable = {v \in Values : \E k \in Keys : Says(k, v)}
                      /\ pc # "grow" => Stored = Reachable
                      /\ \A k \in Keys : \A v, w \in Values : Says(k, v) /\ Says(k, w) => v = w
    OBVIOUS
  <1>1. /\ s_buckets \in Nat \ {0} /\ Table(buckets, s_buckets)
        /\ pc = "grow" =>
             /\ Table(temp, 2 * s_buckets) /\ 2 * s_buckets \in Nat \ {0}
             /\ \A e, f \in Entries : In(buckets, e) /\ In(temp, f) => e.key # f.key
    BY DEF Shape
  <1>2. ASSUME NEW t, NEW n \in Nat \ {0}, Table(t, n), NEW b \in DOMAIN t, NEW j \in 1..Len(t[b])
        PROVE  t[b][j] \in Entries /\ In(t, t[b][j])
    BY <1>2, ElementOfSeq DEF Table, In, Has
  <1>3. KeysIn = {k \in Keys : \E v \in Values : Says(k, v)}
    <2>1. ASSUME NEW t \in Tables, NEW k PROVE k \in KeysOf(t) <=> \E e \in Entries : In(t, e) /\ e.key = k
      <3>1. PICK n \in Nat \ {0} : Table(t, n)
        BY <1>1 DEF Tables
      <3>2. t \in [0..(n - 1) -> Seq(Entries)]
        BY <3>1 DEF Table
      <3> QED
        BY <3>2, KeysOfTable
    <2>2. \A k : k \in KeysIn <=> \E t \in Tables : \E e \in Entries : In(t, e) /\ e.key = k
      BY <2>1 DEF KeysIn
    <2>3. \A k, v : Says(k, v) <=> \E t \in Tables : In(t, Entry(k, v))
      BY DEF Says, In, Has
    <2> QED
      BY <2>2, <2>3, EntryType
  <1>4. ASSUME NEW t \in Tables, NEW v
        PROVE  (\E b \in DOMAIN t : \E j \in 1..Len(t[b]) : t[b][j].value = v)
                 <=> \E k \in Keys : v \in Values /\ In(t, Entry(k, v))
    <2>1. PICK n \in Nat \ {0} : Table(t, n)
      BY <1>1 DEF Tables
    <2>2. ASSUME NEW b \in DOMAIN t, NEW j \in 1..Len(t[b]), t[b][j].value = v
          PROVE  \E k \in Keys : v \in Values /\ In(t, Entry(k, v))
      <3>1. t[b][j] \in Entries /\ In(t, t[b][j])
        BY <1>2, <2>1
      <3> QED
        BY <3>1, <2>2, EntryType
    <2>3. ASSUME NEW k \in Keys, v \in Values, In(t, Entry(k, v))
          PROVE  \E b \in DOMAIN t : \E j \in 1..Len(t[b]) : t[b][j].value = v
      BY <2>3, EntryType DEF In, Has
    <2> QED
      BY <2>2, <2>3
  <1>5. \A k, v : Says(k, v) <=> \E t \in Tables : In(t, Entry(k, v))
    BY DEF Says, In, Has
  <1>6. Reachable = {v \in Values : \E k \in Keys : Says(k, v)}
    BY <1>4, <1>5 DEF Reachable
  <1>7. pc # "grow" => Stored = Reachable
    <2>1. pc # "grow" => Tables = {buckets}
      BY DEF Tables
    <2>2. \A b \in DOMAIN buckets : DOMAIN buckets[b] = 1..Len(buckets[b])
      BY <1>1, LenProperties DEF Table
    <2> QED
      BY <2>1, <2>2 DEF Stored, Reachable
  <1>8. ASSUME NEW t \in Tables, NEW k \in Keys, NEW v \in Values, NEW w \in Values,
               In(t, Entry(k, v)), In(t, Entry(k, w))
        PROVE  v = w
    <2>1. PICK n \in Nat \ {0} : Table(t, n)
      BY <1>1 DEF Tables
    <2>2. Has(t[Index(k, n)], Entry(k, v)) /\ Has(t[Index(k, n)], Entry(k, w)) /\ Index(k, n) \in 0..(n - 1)
      BY <1>8, <2>1, Where, EntryType, IndexType
    <2>3. Sorted(t[Index(k, n)], Index(k, n), n)
      BY <2>1, <2>2, TableSorted
    <2>4. Entry(k, v).key = k /\ Entry(k, v).value = v /\ Entry(k, w).key = k /\ Entry(k, w).value = w
      BY EntryType
    <2>5. PICK j \in 1..Len(t[Index(k, n)]), l \in 1..Len(t[Index(k, n)]) :
            t[Index(k, n)][j] = Entry(k, v) /\ t[Index(k, n)][l] = Entry(k, w)
      BY <2>2 DEF Has
    <2>6. Len(t[Index(k, n)]) \in Nat
      BY <2>3, LenProperties DEF Sorted
    <2>7. j = l
      BY <2>3, <2>4, <2>5, <2>6 DEF Sorted
    <2> QED
      BY <2>4, <2>5, <2>7
  <1>9. \A k \in Keys : \A v, w \in Values : Says(k, v) /\ Says(k, w) => v = w
    <2> SUFFICES ASSUME NEW k \in Keys, NEW v \in Values, NEW w \in Values, Says(k, v), Says(k, w)
                 PROVE  v = w
      OBVIOUS
    <2>1. PICK t \in Tables, u \in Tables : In(t, Entry(k, v)) /\ In(u, Entry(k, w))
      BY <1>5
    <2>2. CASE t = u
      BY <2>1, <2>2, <1>8
    <2>3. CASE t # u
      BY <2>1, <2>3, <1>1, EntryType DEF Tables
    <2> QED
      BY <2>2, <2>3
  <1> QED
    BY <1>3, <1>6, <1>7, <1>9

(* The same, after a step.                                                 *)
LEMMA SetsNext ==
  Shape' =>
    /\ KeysIn' = {k \in Keys : \E v \in Values : Says(k, v)'}
    /\ Reachable' = {v \in Values : \E k \in Keys : Says(k, v)'}
    /\ \A k \in Keys : \A v, w \in Values : Says(k, v)' /\ Says(k, w)' => v = w
  <1>1. (Shape =>
           /\ KeysIn = {k \in Keys : \E v \in Values : Says(k, v)}
           /\ Reachable = {v \in Values : \E k \in Keys : Says(k, v)}
           /\ pc # "grow" => Stored = Reachable
           /\ \A k \in Keys : \A v, w \in Values : Says(k, v) /\ Says(k, w) => v = w)'
    BY SetsNow, PTL
  <1> QED
    BY <1>1

(* The dictionary the map stands for.                                      *)
LEMMA ContentsNow ==
  Shape =>
    /\ Contents \in [Keys -> Values \cup {NULL}]
    /\ \A k \in Keys : \A v \in Values : Contents[k] = v <=> Says(k, v)
    /\ \A k \in Keys : Contents[k] = NULL <=> \A v \in Values : ~Says(k, v)
  <1> SUFFICES ASSUME Shape, NEW k \in Keys
               PROVE  /\ Contents[k] \in Values \cup {NULL}
                      /\ \A v \in Values : Contents[k] = v <=> Says(k, v)
                      /\ Contents[k] = NULL <=> \A v \in Values : ~Says(k, v)
    BY DEF Contents
  <1>1. Contents[k] = IF \E v \in Values : Says(k, v) THEN CHOOSE v \in Values : Says(k, v) ELSE NULL
    BY DEF Contents
  <1>2. NULL \notin Values
    BY HashMapAssumption
  <1>3. CASE \E v \in Values : Says(k, v)
    <2>1. Contents[k] \in Values /\ Says(k, Contents[k])
      BY <1>1, <1>3
    <2>2. \A v, w \in Values : Says(k, v) /\ Says(k, w) => v = w
      BY SetsNow
    <2> QED
      BY <1>2, <1>3, <2>1, <2>2
  <1>4. CASE ~\E v \in Values : Says(k, v)
    BY <1>1, <1>2, <1>4
  <1> QED
    BY <1>3, <1>4

(* The same, after a step.                                                 *)
LEMMA ContentsNext ==
  Shape' =>
    /\ Contents' \in [Keys -> Values \cup {NULL}]
    /\ \A k \in Keys : \A v \in Values : Contents'[k] = v <=> Says(k, v)'
    /\ \A k \in Keys : Contents'[k] = NULL <=> \A v \in Values : ~Says(k, v)'
  <1>1. (Shape =>
           /\ Contents \in [Keys -> Values \cup {NULL}]
           /\ \A k \in Keys : \A v \in Values : Contents[k] = v <=> Says(k, v)
           /\ \A k \in Keys : Contents[k] = NULL <=> \A v \in Values : ~Says(k, v))'
    BY ContentsNow, PTL
  <1> QED
    BY <1>1

(* Dictionaries that agree on every key are equal, with one key changed or *)
(* none.                                                                   *)
LEMMA ContentsChange ==
  ASSUME Shape, Shape', NEW k \in Keys, NEW d \in Values \cup {NULL},
         \A x \in Keys : \A w \in Values : Says(x, w)' <=> IF x = k THEN w = d ELSE Says(x, w)
  PROVE  Contents' = [Contents EXCEPT ![k] = d]
  <1>1. NULL \notin Values
    BY HashMapAssumption
  <1>2. ASSUME NEW x \in Keys, x # k
        PROVE  Contents'[x] = Contents[x]
    BY <1>1, <1>2, ContentsNow, ContentsNext
  <1>3. Contents'[k] = d
    BY <1>1, ContentsNow, ContentsNext
  <1>4. Contents \in [Keys -> Values \cup {NULL}] /\ Contents' \in [Keys -> Values \cup {NULL}]
    BY ContentsNow, ContentsNext
  <1> QED
    BY <1>2, <1>3, <1>4

(* A step that leaves what the map says leaves the dictionary.             *)
LEMMA ContentsSame ==
  ASSUME Shape, Shape', \A x \in Keys : \A w \in Values : Says(x, w)' <=> Says(x, w)
  PROVE  Contents' = Contents
  <1>1. NULL \notin Values
    BY HashMapAssumption
  <1>2. ASSUME NEW x \in Keys
        PROVE  Contents'[x] = Contents[x]
    BY <1>1, <1>2, ContentsNow, ContentsNext
  <1>4. Contents \in [Keys -> Values \cup {NULL}] /\ Contents' \in [Keys -> Values \cup {NULL}]
    BY ContentsNow, ContentsNext
  <1> QED
    BY <1>2, <1>4

-----------------------------------------------------------------------------
(* Keys and where they belong.                                             *)
Image(S, n) == {Index(k, n) : k \in S}

(* Finitely many keys, and how many of them share a bucket with another.   *)
LEMMA FiniteImage ==
  ASSUME NEW n \in Nat \ {0}, NEW S \in SUBSET Keys, IsFiniteSet(S)
  PROVE  /\ IsFiniteSet(Image(S, n)) /\ Cardinality(Image(S, n)) \in Nat /\ Cardinality(Image(S, n)) <= n
         /\ Cardinality(S) \in Nat
         /\ S # {} => Cardinality(Image(S, n)) >= 1
         /\ Crowd(S, n) = Cardinality(S) - Cardinality(Image(S, n))
         /\ Crowd(S, n) \in Int /\ Cardinality(S) <= Crowd(S, n) + n
  <1>1. Image(S, n) \subseteq 0..(n - 1)
    BY IndexType DEF Image
  <1>2. IsFiniteSet(0..(n - 1)) /\ Cardinality(0..(n - 1)) = n
    BY FS_Interval
  <1>3. IsFiniteSet(Image(S, n)) /\ Cardinality(Image(S, n)) <= n
    BY <1>1, <1>2, FS_Subset
  <1>4. Cardinality(Image(S, n)) \in Nat /\ Cardinality(S) \in Nat
    BY <1>3, FS_CardinalityType
  <1>5. ASSUME S # {}
        PROVE  Cardinality(Image(S, n)) >= 1
    <2>1. Image(S, n) # {}
      BY <1>5 DEF Image
    <2>2. Cardinality(Image(S, n)) # 0
      BY <1>3, <2>1, FS_EmptySet
    <2> QED
      BY <1>4, <2>2
  <1>6. Crowd(S, n) = Cardinality(S) - Cardinality(Image(S, n))
    BY DEF Crowd, Image
  <1> QED
    BY <1>3, <1>4, <1>5, <1>6

(* A key is added: to a bucket that is empty, or behind others.            *)
LEMMA CrowdAdd ==
  ASSUME NEW n \in Nat \ {0}, NEW S \in SUBSET Keys, IsFiniteSet(S), NEW k \in Keys, k \notin S
  PROVE  /\ IsFiniteSet(S \cup {k}) /\ Cardinality(S \cup {k}) = Cardinality(S) + 1
         /\ Index(k, n) \notin Image(S, n) => Crowd(S \cup {k}, n) = Crowd(S, n)
         /\ Index(k, n) \in Image(S, n) => Crowd(S \cup {k}, n) = Crowd(S, n) + 1
  <1>1. IsFiniteSet(S \cup {k}) /\ Cardinality(S \cup {k}) = Cardinality(S) + 1
    BY FS_AddElement
  <1>2. Image(S \cup {k}, n) = Image(S, n) \cup {Index(k, n)}
    BY DEF Image
  <1>3. IsFiniteSet(Image(S, n)) /\ Cardinality(Image(S, n)) \in Nat /\ Cardinality(S) \in Nat
        /\ Crowd(S, n) = Cardinality(S) - Cardinality(Image(S, n))
    BY FiniteImage
  <1>4. Crowd(S \cup {k}, n) = Cardinality(S \cup {k}) - Cardinality(Image(S \cup {k}, n))
    BY <1>1, FiniteImage
  <1>5. ASSUME Index(k, n) \notin Image(S, n)
        PROVE  Cardinality(Image(S \cup {k}, n)) = Cardinality(Image(S, n)) + 1
    BY <1>2, <1>3, <1>5, FS_AddElement
  <1>6. ASSUME Index(k, n) \in Image(S, n)
        PROVE  Image(S \cup {k}, n) = Image(S, n)
    BY <1>2, <1>6
  <1> QED
    BY <1>1, <1>3, <1>4, <1>5, <1>6

(* A key is removed.                                                       *)
LEMMA CrowdRemove ==
  ASSUME NEW n \in Nat \ {0}, NEW S \in SUBSET Keys, IsFiniteSet(S), NEW k \in S
  PROVE  /\ IsFiniteSet(S \ {k}) /\ Cardinality(S \ {k}) = Cardinality(S) - 1
         /\ Crowd(S \ {k}, n) <= Crowd(S, n)
  <1> DEFINE T == S \ {k}
  <1>1. IsFiniteSet(T) /\ Cardinality(T) = Cardinality(S) - 1
    BY FS_RemoveElement
  <1>2. T \in SUBSET Keys /\ k \in Keys /\ k \notin T /\ T \cup {k} = S
    OBVIOUS
  <1> HIDE DEF T
  <1>3. Crowd(S, n) = Crowd(T, n) \/ Crowd(S, n) = Crowd(T, n) + 1
    BY <1>1, <1>2, CrowdAdd
  <1>4. Crowd(T, n) \in Int
    BY <1>1, <1>2, FiniteImage
  <1> QED
    BY <1>1, <1>3, <1>4 DEF T

(* Twice as many buckets: keys of different buckets stay apart.            *)
LEMMA CrowdDouble ==
  ASSUME NEW n \in Nat \ {0}, NEW S \in SUBSET Keys, IsFiniteSet(S)
  PROVE  Crowd(S, 2 * n) <= Crowd(S, n)
  <1> DEFINE m == 2 * n
             f == [i \in Image(S, m) |-> i % n]
  <1>1. m \in Nat \ {0}
    OBVIOUS
  <1>2. \A k \in S : Index(k, n) = Index(k, m) % n
    BY HashMapAssumption, Halving DEF Index
  <1> HIDE DEF m
  <1>3. f \in Surjection(Image(S, m), Image(S, n))
    <2>1. \A i \in Image(S, m) : i % n \in Image(S, n)
      BY <1>2 DEF Image
    <2>2. \A j \in Image(S, n) : \E i \in Image(S, m) : f[i] = j
      BY <1>2 DEF Image
    <2> QED
      BY <2>1, <2>2 DEF Surjection
  <1>4. IsFiniteSet(Image(S, m)) /\ Cardinality(Image(S, m)) \in Nat /\ Cardinality(Image(S, n)) \in Nat
        /\ Cardinality(S) \in Nat
        /\ Crowd(S, m) = Cardinality(S) - Cardinality(Image(S, m))
        /\ Crowd(S, n) = Cardinality(S) - Cardinality(Image(S, n))
    BY <1>1, FiniteImage
  <1>5. Cardinality(Image(S, n)) <= Cardinality(Image(S, m))
    BY <1>3, <1>4, FS_Surjection DEF ExistsSurjection
  <1> QED
    BY <1>4, <1>5 DEF m

-----------------------------------------------------------------------------
(* The steps of the map.                                                   *)

(* An entry of the bucket that a key belongs to is an entry of the map.    *)
LEMMA BucketEntry ==
  ASSUME Shape, pc # "grow", NEW k \in Keys, NEW j \in 1..Len(Bucket(k))
  PROVE  /\ Bucket(k)[j].key \in Keys /\ Bucket(k)[j].value \in Values
         /\ Says(Bucket(k)[j].key, Bucket(k)[j].value)
         /\ Index(Bucket(k)[j].key, s_buckets) = Index(k, s_buckets)
  <1> DEFINE e == Bucket(k)[j]
  <1>1. Sorted(Bucket(k), Index(k, s_buckets), s_buckets)
    BY BucketNow
  <1>2. e \in Entries /\ Index(e.key, s_buckets) = Index(k, s_buckets)
    BY <1>1, ElementOfSeq DEF Sorted
  <1>3. e.key \in Keys /\ e.value \in Values /\ e = Entry(e.key, e.value)
    BY <1>2, EntryType
  <1>4. Has(Bucket(k), e)
    BY DEF Has
  <1> HIDE DEF e
  <1>5. Has(Bucket(k), Entry(e.key, e.value))
    BY <1>3, <1>4
  <1>6. Says(e.key, e.value)
    BY <1>2, <1>3, <1>5, BucketNow
  <1> QED
    BY <1>2, <1>3, <1>6 DEF e

(* A bucket is empty when no key of the map belongs there.                 *)
LEMMA BucketFull ==
  ASSUME Shape, pc # "grow", NEW k \in Keys
  PROVE  Bucket(k) # <<>> <=> Index(k, s_buckets) \in Image(KeysIn, s_buckets)
  <1>1. Bucket(k) \in Seq(Entries) /\ Len(Bucket(k)) \in Nat
    BY BucketNow, LenProperties DEF Sorted
  <1>2. KeysIn = {x \in Keys : \E v \in Values : Says(x, v)}
    BY SetsNow
  <1>3. ASSUME Bucket(k) # <<>>
        PROVE  Index(k, s_buckets) \in Image(KeysIn, s_buckets)
    <2>1. 1 \in 1..Len(Bucket(k))
      BY <1>1, <1>3, EmptySeq
    <2> DEFINE x == Bucket(k)[1].key
    <2>2. x \in Keys /\ Index(x, s_buckets) = Index(k, s_buckets) /\ \E w \in Values : Says(x, w)
      BY <2>1, BucketEntry
    <2> HIDE DEF x
    <2> QED
      BY <2>2, <1>2 DEF Image
  <1>4. ASSUME Index(k, s_buckets) \in Image(KeysIn, s_buckets)
        PROVE  Bucket(k) # <<>>
    <2>1. PICK x \in Keys : Index(x, s_buckets) = Index(k, s_buckets) /\ \E v \in Values : Says(x, v)
      BY <1>2, <1>4 DEF Image
    <2>2. PICK v \in Values : Has(Bucket(k), Entry(x, v))
      BY <2>1, BucketNow
    <2> QED
      BY <2>2, EmptySorted
  <1> QED
    BY <1>3, <1>4

(* What a look-up finds.                                                   *)
LEMMA LookUpFinds ==
  ASSUME Shape, pc # "grow", NEW k \in Keys
  PROVE  /\ Found(Bucket(k), k) = {} <=> \A w \in Values : ~Says(k, w)
         /\ Found(Bucket(k), k) # {} =>
              LET v == Bucket(k)[First(Found(Bucket(k), k))].value
              IN  v \in Values /\ Says(k, v)
  <1>1. Bucket(k) \in Seq(Entries) /\ Len(Bucket(k)) \in Nat
    BY BucketNow, LenProperties DEF Sorted
  <1>2. ASSUME Found(Bucket(k), k) # {}
        PROVE  LET v == Bucket(k)[First(Found(Bucket(k), k))].value
               IN  v \in Values /\ Says(k, v)
    <2> DEFINE j == First(Found(Bucket(k), k))
    <2>1. Found(Bucket(k), k) \in SUBSET Nat
      BY <1>1 DEF Found
    <2>2. j \in Found(Bucket(k), k)
      BY <1>2, <2>1, FirstIs
    <2> HIDE DEF j
    <2>3. j \in 1..Len(Bucket(k)) /\ Bucket(k)[j].key = k
      BY <2>2 DEF Found
    <2>4. Bucket(k)[j].value \in Values /\ Says(k, Bucket(k)[j].value)
      BY <2>3, BucketEntry
    <2> QED
      BY <2>4 DEF j
  <1>3. ASSUME NEW w \in Values, Says(k, w)
        PROVE  Found(Bucket(k), k) # {}
    <2>1. Has(Bucket(k), Entry(k, w))
      BY <1>3, BucketNow
    <2> QED
      BY <2>1, EntryType DEF Has, Found
  <1> QED
    BY <1>2, <1>3

-----------------------------------------------------------------------------
(* What an insertion does to the counters and to what was freed: the key   *)
(* is there already, or it gets an empty bucket, or it goes behind others. *)
LEMMA InsertCases ==
  ASSUME Shape, NEW k \in Keys, NEW v \in Values, NEW to_free, Insert(k, v, to_free)
  PROVE  /\ pc = "idle" /\ s_buckets' = s_buckets /\ factor' = factor /\ arg' = arg /\ answer' = NULL
         /\ v \notin Reachable \cup freed
         /\ \/ /\ k \in KeysIn /\ s_elements' = s_elements /\ pc' = "idle" /\ temp' = temp
               /\ freed \subseteq freed' /\ \A y \in freed' : y \in freed \/ (y \in Values /\ Says(k, y))
            \/ /\ k \notin KeysIn /\ Index(k, s_buckets) \notin Image(KeysIn, s_buckets)
               /\ s_elements < MaxElements /\ s_elements' = s_elements + 1
               /\ pc' = "idle" /\ temp' = temp /\ freed' = freed
            \/ /\ k \notin KeysIn /\ Index(k, s_buckets) \in Image(KeysIn, s_buckets)
               /\ s_elements < MaxElements /\ s_elements' = s_elements + 1 /\ freed' = freed
               /\ \/ pc' = "idle" /\ temp' = temp /\ ~NearCapacity(s_elements + 1)
                  \/ pc' = "assert" /\ temp' = temp
                  \/ pc' = "grow" /\ temp' = Empty(2 * s_buckets)
  <1>1. /\ pc = "idle" /\ s_buckets' = s_buckets /\ factor' = factor /\ arg' = arg /\ answer' = NULL
        /\ Fresh(v)
    BY DEF Insert, InsertFirst, OverwriteHead, OverwriteChained, InsertChained
  <1>2. v \notin Reachable \cup freed
    BY <1>1, SetsNow DEF Fresh
  <1>3. Bucket(k) \in Seq(Entries) /\ Len(Bucket(k)) \in Nat
    BY BucketNow, LenProperties DEF Sorted
  <1>4. KeysIn = {x \in Keys : \E w \in Values : Says(x, w)}
    BY SetsNow
  <1>5. ASSUME NEW j \in 1..Len(Bucket(k)), Bucket(k)[j].key = k
        PROVE  k \in KeysIn /\ Bucket(k)[j].value \in Values /\ Says(k, Bucket(k)[j].value)
    BY <1>1, <1>4, <1>5, BucketEntry
  <1>6. (\A j \in 1..Len(Bucket(k)) : Bucket(k)[j].key # k) => k \notin KeysIn
    <2> SUFFICES ASSUME \A j \in 1..Len(Bucket(k)) : Bucket(k)[j].key # k, NEW w \in Values, Says(k, w)
                 PROVE  FALSE
      BY <1>4
    <2>1. Has(Bucket(k), Entry(k, w))
      BY <1>1, BucketNow
    <2> QED
      BY <2>1, EntryType DEF Has
  <1>7. Bucket(k) # <<>> <=> Index(k, s_buckets) \in Image(KeysIn, s_buckets)
    BY <1>1, BucketFull
  <1>8. CASE InsertFirst(k, v)
    <2>1. Bucket(k) = <<>>
      BY <1>8 DEF InsertFirst
    <2>2. k \notin KeysIn
      BY <2>1, <1>6
    <2> QED
      BY <1>1, <1>2, <1>7, <1>8, <2>1, <2>2 DEF InsertFirst
  <1>9. CASE OverwriteHead(k, v, to_free)
    <2>1. 1 \in 1..Len(Bucket(k)) /\ Bucket(k)[1].key = k
      BY <1>3, <1>9, EmptySeq DEF OverwriteHead, HeadIs
    <2>2. k \in KeysIn /\ Bucket(k)[1].value \in Values /\ Says(k, Bucket(k)[1].value)
      BY <2>1, <1>5
    <2>3. s_elements' = s_elements /\ pc' = pc /\ temp' = temp
          /\ freed' = IF to_free THEN freed \cup {Bucket(k)[1].value} ELSE freed
      BY <1>9 DEF OverwriteHead
    <2> QED
      BY <1>1, <1>2, <2>2, <2>3
  <1>10. CASE OverwriteChained(k, v)
    <2> DEFINE j == First(Chained(Bucket(k), k))
    <2>1. j \in 1..Len(Bucket(k)) /\ Bucket(k)[j].key = k
      BY <1>10, ChainedIs DEF OverwriteChained, InChain
    <2>2. s_elements' = s_elements /\ pc' = pc /\ temp' = temp /\ freed' = freed \cup {Bucket(k)[j].value}
      BY <1>10 DEF OverwriteChained
    <2> HIDE DEF j
    <2>3. k \in KeysIn /\ Bucket(k)[j].value \in Values /\ Says(k, Bucket(k)[j].value)
      BY <2>1, <1>5
    <2> QED
      BY <1>1, <1>2, <2>2, <2>3
  <1>11. CASE InsertChained(k, v)
    <2>1. Bucket(k) # <<>> /\ \A j \in 1..Len(Bucket(k)) : Bucket(k)[j].key # k
      BY <1>11, ChainedIs DEF InsertChained, NotThere
    <2>2. /\ s_elements < MaxElements /\ s_elements' = s_elements + 1 /\ freed' = freed
          /\ \/ pc' = pc /\ temp' = temp /\ ~NearCapacity(s_elements + 1)
             \/ pc' = "assert" /\ temp' = temp
             \/ pc' = "grow" /\ temp' = Empty(2 * s_buckets)
      BY <1>11 DEF InsertChained
    <2> QED
      BY <1>1, <1>2, <1>6, <1>7, <2>1, <2>2
  <1> QED
    BY <1>8, <1>9, <1>10, <1>11 DEF Insert

(* What the steps have in common that leave the map as it is.              *)
Quiet ==
  \/ \E k \in Keys : Get(k) \/ Exists(k) \/ \E to_free \in BOOLEAN : Remove(k, to_free)
  \/ RemoveMissed \/ UNCHANGED vars

(* A step of the map is of one of these kinds.                             *)
LEMMA Steps ==
  ASSUME [Next]_vars
  PROVE  \/ \E k \in Keys : \E v \in Values : \E to_free \in BOOLEAN : Insert(k, v, to_free)
         \/ RemoveHead \/ RemoveChained \/ MoveEntry \/ SwapTables
         \/ \E to_free \in BOOLEAN : Free(to_free)
         \/ Quiet
  BY DEF Next, Call, Continue, Quiet

(* Calls that only look at the map, and steps that do nothing.             *)
LEMMA QuietEffect ==
  ASSUME Shape, Quiet
  PROVE  /\ Shape' /\ \A x \in Keys : \A w \in Values : Says(x, w)' <=> Says(x, w)
         /\ UNCHANGED <<s_buckets, s_elements, factor, buckets, temp, freed>>
  <1>1. UNCHANGED <<s_buckets, s_elements, factor, buckets, temp, freed>>
    BY DEF Quiet, Get, Exists, Remove, RemoveMissed, vars
  <1>2. CASE pc # "grow" /\ pc' # "grow"
    BY <1>1, <1>2, NoEffect
  <1>3. CASE UNCHANGED vars
    BY <1>1, <1>3, SaysNow, SaysNext DEF vars, Shape
  <1>4. ~UNCHANGED vars => pc # "grow" /\ pc' # "grow"
    BY DEF Quiet, Get, Exists, Remove, RemoveMissed
  <1> QED
    BY <1>1, <1>2, <1>3, <1>4

-----------------------------------------------------------------------------
(* What every step does to what the map says, in one place: one key gets a *)
(* value that nothing had, one key goes, all go, or none is touched.       *)
LEMMA StepEffect ==
  ASSUME TypeOK, Placed, [Next]_vars
  PROVE  /\ Shape /\ Shape'
         /\ \A k \in Keys : \A v \in Values : \A to_free :
              Insert(k, v, to_free) =>
                \A x \in Keys : \A w \in Values : Says(x, w)' <=> IF x = k THEN w = v ELSE Says(x, w)
         /\ RemoveHead \/ RemoveChained =>
              /\ \A x \in Keys : \A w \in Values : Says(x, w)' <=> x # arg.key /\ Says(x, w)
              /\ \E w \in Values : Says(arg.key, w) /\ Dropped(w)
         /\ \A to_free : Free(to_free) => \A x \in Keys : \A w \in Values : ~Says(x, w)'
         /\ MoveEntry \/ SwapTables \/ Quiet =>
              \A x \in Keys : \A w \in Values : Says(x, w)' <=> Says(x, w)
  <1>1. Shape
    BY ShapeNow
  <1>2. pc = "remove" => arg.key \in Keys
    BY DEF TypeOK
  <1>3. ASSUME NEW k \in Keys, NEW v \in Values, NEW to_free, Insert(k, v, to_free)
        PROVE  /\ Shape'
               /\ \A x \in Keys : \A w \in Values : Says(x, w)' <=> IF x = k THEN w = v ELSE Says(x, w)
    BY <1>1, <1>3, InsertEffect
  <1>4. ASSUME RemoveHead \/ RemoveChained
        PROVE  /\ Shape'
               /\ \A x \in Keys : \A w \in Values : Says(x, w)' <=> x # arg.key /\ Says(x, w)
               /\ \E w \in Values : Says(arg.key, w) /\ Dropped(w)
    <2>1. arg.key \in Keys
      BY <1>2, <1>4 DEF RemoveHead, RemoveChained
    <2> QED
      BY <1>1, <1>4, <2>1, RemovalEffect
  <1>5. ASSUME NEW to_free, Free(to_free)
        PROVE  Shape' /\ \A x \in Keys : \A w \in Values : ~Says(x, w)'
    BY <1>1, <1>5, FreeEffect
  <1>6. MoveEntry => Shape' /\ \A x \in Keys : \A w \in Values : Says(x, w)' <=> Says(x, w)
    BY <1>1, MoveEffect
  <1>7. SwapTables => Shape' /\ \A x \in Keys : \A w \in Values : Says(x, w)' <=> Says(x, w)
    BY <1>1, SwapEffect
  <1>8. Quiet => Shape' /\ \A x \in Keys : \A w \in Values : Says(x, w)' <=> Says(x, w)
    BY <1>1, QuietEffect
  <1>9. Shape'
    BY <1>3, <1>4, <1>5, <1>6, <1>7, <1>8, Steps
  <1> QED
    BY <1>1, <1>3, <1>4, <1>5, <1>6, <1>7, <1>8, <1>9

(* Types.                                                                  *)
LEMMA TypeInit == Init => TypeOK
  <1>1. Init => buckets \in [0..(s_buckets - 1) -> Seq(Entries)]
    BY HashMapAssumption DEF Init, Empty
  <1> QED
    BY <1>1, HashMapAssumption DEF Init, TypeOK, Empty

(* Every step keeps the types: the counter of elements stays within        *)
(* MaxElements.                                                            *)
LEMMA TypeNext ==
  ASSUME TypeOK, Placed, Uncrowded, [Next]_vars
  PROVE  TypeOK'
  <1>1. /\ Shape /\ Shape'
        /\ s_elements \in 0..MaxElements /\ MaxElements \in Nat /\ factor \in {0, 3} /\ freed \in SUBSET Values
        /\ answer \in [key : Keys, found : Values \cup {NULL} \cup BOOLEAN] \cup Removals \cup {NULL}
    BY StepEffect, HashMapAssumption DEF TypeOK
  <1>2. /\ s_buckets' \in Nat \ {0} /\ buckets' \in [0..(s_buckets' - 1) -> Seq(Entries)]
        /\ pc' = "grow" => temp' \in [0..(2 * s_buckets' - 1) -> Seq(Entries)]
    BY <1>1 DEF Shape, Table
  <1>3. ASSUME NEW k \in Keys, NEW v \in Values, NEW to_free \in BOOLEAN, Insert(k, v, to_free)
        PROVE  TypeOK'
    <2>1. /\ pc = "idle" /\ factor' = factor /\ arg' = arg /\ answer' = NULL
          /\ s_elements' \in 0..MaxElements /\ freed' \in SUBSET Values
          /\ \/ pc' \in {"idle", "assert"} /\ temp' = temp
             \/ pc' = "grow"
      BY <1>1, <1>3, InsertCases
    <2>2. temp = NULL /\ arg = NULL
      BY <2>1 DEF TypeOK
    <2> QED
      BY <1>1, <1>2, <2>1, <2>2 DEF TypeOK
  <1>4. CASE RemoveHead \/ RemoveChained
    <2>1. PICK w \in Values : Says(arg.key, w) /\ Dropped(w)
      BY <1>4, StepEffect
    <2>2. pc = "remove" /\ arg \in [key : Keys, to_free : BOOLEAN] /\ temp = NULL
      BY <1>4 DEF RemoveHead, RemoveChained, TypeOK
    <2>3. freed' \in SUBSET Values
      BY <1>1, <2>1 DEF Dropped
    <2>4. s_elements >= 1
      <3>1. arg.key \in KeysIn /\ KeysIn \in SUBSET Keys
        BY <1>1, <2>1, <2>2, SetsNow
      <3>2. IsFiniteSet(KeysIn) /\ Cardinality(KeysIn) <= s_elements
        BY DEF Uncrowded
      <3>3. Cardinality(KeysIn) \in Nat /\ Cardinality(KeysIn) # 0
        BY <3>1, <3>2, FS_EmptySet, FS_CardinalityType
      <3> QED
        BY <1>1, <3>2, <3>3
    <2>5. /\ factor' = factor /\ temp' = temp /\ s_elements' \in {s_elements, s_elements - 1}
          /\ \/ answer' = [removed |-> TRUE] /\ pc' = "idle" /\ arg' = NULL
             \/ answer' = answer /\ pc' = pc /\ arg' = arg
      BY <1>4 DEF RemoveHead, RemoveChained
    <2>6. [removed |-> TRUE] \in Removals
      BY DEF Removals
    <2>7. s_elements' \in 0..MaxElements
      BY <1>1, <2>4, <2>5
    <2>8. CASE answer' = [removed |-> TRUE] /\ pc' = "idle" /\ arg' = NULL
      <3>1. answer' \in Removals
        BY <2>6, <2>8
      <3> QED
        BY <1>1, <1>2, <2>2, <2>3, <2>5, <2>7, <2>8, <3>1 DEF TypeOK
    <2>9. CASE answer' = answer /\ pc' = pc /\ arg' = arg
      BY <1>1, <1>2, <2>2, <2>3, <2>5, <2>7, <2>9 DEF TypeOK
    <2> QED
      BY <2>5, <2>8, <2>9
  <1>5. CASE MoveEntry
    <2>1. /\ pc = "grow" /\ UNCHANGED <<s_buckets, s_elements, factor, pc, arg, answer, freed>>
      BY <1>5 DEF MoveEntry
    <2>2. arg = NULL
      BY <2>1 DEF TypeOK
    <2> QED
      BY <1>1, <1>2, <2>1, <2>2 DEF TypeOK
  <1>6. CASE SwapTables
    <2>1. /\ pc = "grow" /\ factor' = 0 /\ temp' = NULL /\ pc' = "idle" /\ UNCHANGED <<s_elements, arg, answer, freed>>
      BY <1>6 DEF SwapTables
    <2>2. arg = NULL
      BY <2>1 DEF TypeOK
    <2> QED
      BY <1>1, <1>2, <2>1, <2>2 DEF TypeOK
  <1>7. ASSUME NEW to_free \in BOOLEAN, Free(to_free)
        PROVE  TypeOK'
    <2>1. /\ pc = "idle" /\ freed' \subseteq freed \cup Stored /\ pc' = "freed" /\ answer' = NULL
          /\ UNCHANGED <<s_elements, factor, temp, arg>>
      BY <1>7 DEF Free
    <2>2. temp = NULL /\ arg = NULL /\ Stored \subseteq Values
      BY <2>1 DEF TypeOK, Stored
    <2> QED
      BY <1>1, <1>2, <2>1, <2>2 DEF TypeOK
  <1>8. CASE Quiet
    <2>1. UNCHANGED <<s_buckets, s_elements, factor, buckets, temp, freed>>
      BY <1>1, <1>8, QuietEffect
    <2>2. ASSUME NEW k \in Keys, Get(k)
          PROVE  TypeOK'
      <3>1. pc = "idle" /\ UNCHANGED <<pc, arg>>
            /\ answer' = [key |-> k, found |-> IF Found(Bucket(k), k) = {} THEN NULL
                                               ELSE Bucket(k)[First(Found(Bucket(k), k))].value]
        BY <2>2 DEF Get
      <3>2. answer' \in [key : Keys, found : Values \cup {NULL} \cup BOOLEAN]
        BY <1>1, <3>1, LookUpFinds
      <3> QED
        BY <1>1, <1>2, <2>1, <3>1, <3>2 DEF TypeOK
    <2>3. ASSUME NEW k \in Keys, Exists(k)
          PROVE  TypeOK'
      <3>1. pc = "idle" /\ UNCHANGED <<pc, arg>>
            /\ answer' = [key |-> k, found |-> Found(Bucket(k), k) # {}]
        BY <2>3 DEF Exists
      <3>2. answer' \in [key : Keys, found : Values \cup {NULL} \cup BOOLEAN]
        BY <3>1
      <3> QED
        BY <1>1, <1>2, <2>1, <3>1, <3>2 DEF TypeOK
    <2>4. ASSUME NEW k \in Keys, NEW to_free \in BOOLEAN, Remove(k, to_free)
          PROVE  TypeOK'
      <3>1. pc = "idle" /\ pc' = "remove" /\ arg' = [key |-> k, to_free |-> to_free] /\ answer' = NULL
        BY <2>4 DEF Remove
      <3>2. arg' \in [key : Keys, to_free : BOOLEAN] /\ temp = NULL
        BY <3>1 DEF TypeOK
      <3> QED
        BY <1>1, <1>2, <2>1, <3>1, <3>2 DEF TypeOK
    <2>5. CASE RemoveMissed
      <3>1. pc = "remove" /\ answer' = [removed |-> FALSE] /\ pc' = "idle" /\ arg' = NULL
        BY <2>5 DEF RemoveMissed
      <3>2. [removed |-> FALSE] \in Removals /\ temp = NULL
        BY <3>1 DEF TypeOK, Removals
      <3> QED
        BY <1>1, <1>2, <2>1, <3>1, <3>2 DEF TypeOK
    <2>6. CASE UNCHANGED vars
      BY <2>6 DEF TypeOK, vars
    <2> QED
      BY <1>8, <2>2, <2>3, <2>4, <2>5, <2>6 DEF Quiet
  <1> QED
    BY <1>3, <1>4, <1>5, <1>6, <1>7, <1>8, Steps

-----------------------------------------------------------------------------
(* A value keeps one key.                                                  *)
LEMMA OneOwnerNext ==
  ASSUME TypeOK, Placed, OneOwner, [Next]_vars
  PROVE  OneOwner'
  <1> SUFFICES ASSUME NEW k1 \in Keys, NEW k2 \in Keys, NEW w \in Values, Says(k1, w)', Says(k2, w)'
               PROVE  k1 = k2
    BY DEF OneOwner
  <1>1. Shape /\ \A x, y \in Keys : Says(x, w) /\ Says(y, w) => x = y
    BY StepEffect DEF OneOwner
  <1>2. ASSUME NEW k \in Keys, NEW v \in Values, NEW to_free, Insert(k, v, to_free)
        PROVE  k1 = k2
    <2>1. \A x \in Keys : Says(x, w)' <=> IF x = k THEN w = v ELSE Says(x, w)
      BY <1>2, StepEffect
    <2>2. \A x \in Keys : ~Says(x, v)
      BY <1>1, <1>2, InsertCases, SetsNow
    <2> QED
      BY <1>1, <2>1, <2>2
  <1>3. CASE RemoveHead \/ RemoveChained
    BY <1>1, <1>3, StepEffect
  <1>4. ASSUME NEW to_free, Free(to_free)
        PROVE  k1 = k2
    BY <1>4, StepEffect
  <1>5. CASE MoveEntry \/ SwapTables \/ Quiet
    BY <1>1, <1>5, StepEffect
  <1> QED
    BY <1>2, <1>3, <1>4, <1>5, Steps

(* No value of the map is one that was given to free.                      *)
LEMMA NoDanglingNext ==
  ASSUME TypeOK, Placed, OneOwner, NoDangling, [Next]_vars
  PROVE  NoDangling'
  <1>1. /\ Shape /\ Shape' /\ \A x, y \in Keys : \A w \in Values : Says(x, w) /\ Says(y, w) => x = y
        /\ \A x \in Keys : \A w \in Values : Says(x, w) => w \notin freed
    BY StepEffect, SetsNow DEF OneOwner, NoDangling
  <1> SUFFICES ASSUME NEW x \in Keys, NEW w \in Values, Says(x, w)', w \in freed'
               PROVE  FALSE
    BY <1>1, SetsNext DEF NoDangling
  <1>2. ASSUME NEW k \in Keys, NEW v \in Values, NEW to_free, Insert(k, v, to_free)
        PROVE  FALSE
    <2>1. IF x = k THEN w = v ELSE Says(x, w)
      BY <1>2, StepEffect
    <2>2. v \notin freed /\ \A y \in Keys : ~Says(y, v)
      BY <1>1, <1>2, InsertCases, SetsNow
    <2>3. w \in freed \/ Says(k, w)
      BY <1>1, <1>2, InsertCases
    <2> QED
      BY <1>1, <2>1, <2>2, <2>3
  <1>3. CASE RemoveHead \/ RemoveChained
    <2>1. arg.key \in Keys
      BY <1>3 DEF RemoveHead, RemoveChained, TypeOK
    <2>2. PICK d \in Values : Says(arg.key, d) /\ Dropped(d)
      BY <1>3, StepEffect
    <2>3. x # arg.key /\ Says(x, w)
      BY <1>3, StepEffect
    <2>4. w \in freed \/ w = d
      BY <2>2 DEF Dropped
    <2> QED
      BY <1>1, <2>1, <2>2, <2>3, <2>4
  <1>4. ASSUME NEW to_free, Free(to_free)
        PROVE  FALSE
    BY <1>4, StepEffect
  <1>5. CASE MoveEntry \/ SwapTables \/ Quiet
    <2>1. Says(x, w)
      BY <1>5, StepEffect
    <2>2. freed' = freed
      BY <1>1, <1>5, QuietEffect DEF MoveEntry, SwapTables
    <2> QED
      BY <1>1, <2>1, <2>2
  <1> QED
    BY <1>2, <1>3, <1>4, <1>5, Steps

(* What the map says decides which keys it has.                            *)
LEMMA KeysNext ==
  ASSUME TypeOK, Placed, [Next]_vars
  PROVE  /\ KeysIn \in SUBSET Keys
         /\ \A k \in Keys : \A v \in Values : \A to_free : Insert(k, v, to_free) => KeysIn' = KeysIn \cup {k}
         /\ RemoveHead \/ RemoveChained => arg.key \in KeysIn /\ KeysIn' = KeysIn \ {arg.key}
         /\ \A to_free : Free(to_free) => KeysIn' = {}
         /\ MoveEntry \/ SwapTables \/ Quiet => KeysIn' = KeysIn
  <1>1. /\ KeysIn  = {k \in Keys : \E v \in Values : Says(k, v)}
        /\ KeysIn' = {k \in Keys : \E v \in Values : Says(k, v)'}
    BY StepEffect, SetsNow, SetsNext
  <1>2. ASSUME NEW k \in Keys, NEW v \in Values, NEW to_free, Insert(k, v, to_free)
        PROVE  KeysIn' = KeysIn \cup {k}
    <2>1. \A x \in Keys : \A w \in Values : Says(x, w)' <=> IF x = k THEN w = v ELSE Says(x, w)
      BY <1>2, StepEffect
    <2> QED
      BY <1>1, <2>1
  <1>3. ASSUME RemoveHead \/ RemoveChained
        PROVE  arg.key \in KeysIn /\ KeysIn' = KeysIn \ {arg.key}
    <2>1. arg.key \in Keys
      BY <1>3 DEF RemoveHead, RemoveChained, TypeOK
    <2> QED
      BY <1>1, <1>3, <2>1, StepEffect
  <1>4. ASSUME NEW to_free, Free(to_free)
        PROVE  KeysIn' = {}
    BY <1>1, <1>4, StepEffect
  <1>5. ASSUME MoveEntry \/ SwapTables \/ Quiet
        PROVE  KeysIn' = KeysIn
    BY <1>1, <1>5, StepEffect
  <1> QED
    BY <1>1, <1>2, <1>3, <1>4, <1>5

(* There is room for the keys: an insertion behind others that finds none  *)
(* starts growth, and growth makes it.                                     *)
LEMMA UncrowdedNext ==
  ASSUME TypeOK, Placed, Uncrowded, [Next]_vars
  PROVE  Uncrowded'
  <1>1. /\ Shape /\ s_buckets \in Nat \ {0} /\ s_elements \in Nat /\ factor \in {0, 3}
        /\ KeysIn \in SUBSET Keys /\ IsFiniteSet(KeysIn)
        /\ Cardinality(KeysIn) \in Nat /\ Cardinality(KeysIn) <= s_elements
        /\ pc \in {"idle", "remove"} => 4 * Crowd(KeysIn, s_buckets) < 3 * s_buckets
        /\ pc = "grow" => 4 * Crowd(KeysIn, s_buckets) < 3 * s_buckets + 4
    BY StepEffect, KeysNext, FS_CardinalityType DEF TypeOK, Uncrowded
  <1>2. ASSUME NEW S \in SUBSET Keys, IsFiniteSet(S)
        PROVE  /\ Crowd(S, s_buckets) \in Int /\ Cardinality(S) \in Nat /\ Crowd(S, 2 * s_buckets) \in Int
               /\ Crowd(S, s_buckets) = Cardinality(S) - Cardinality(Image(S, s_buckets))
               /\ Cardinality(Image(S, s_buckets)) \in Nat
    BY <1>1, <1>2, FiniteImage
  <1>3. ASSUME NEW k \in Keys, NEW v \in Values, NEW to_free, Insert(k, v, to_free)
        PROVE  Uncrowded'
    <2>1. KeysIn' = KeysIn \cup {k} /\ pc = "idle" /\ s_buckets' = s_buckets
      BY <1>1, <1>3, KeysNext, InsertCases
    <2>2. CASE k \in KeysIn /\ s_elements' = s_elements /\ pc' = "idle"
      <3>1. KeysIn' = KeysIn
        BY <2>1, <2>2
      <3> QED
        BY <1>1, <2>1, <2>2, <3>1 DEF Uncrowded
    <2>3. CASE /\ k \notin KeysIn /\ Index(k, s_buckets) \notin Image(KeysIn, s_buckets)
               /\ s_elements' = s_elements + 1 /\ pc' = "idle"
      <3>1. /\ IsFiniteSet(KeysIn') /\ Cardinality(KeysIn') = Cardinality(KeysIn) + 1
            /\ Crowd(KeysIn', s_buckets) = Crowd(KeysIn, s_buckets)
        BY <1>1, <2>1, <2>3, CrowdAdd
      <3> QED
        BY <1>1, <2>1, <2>3, <3>1 DEF Uncrowded
    <2>4. CASE /\ k \notin KeysIn /\ Index(k, s_buckets) \in Image(KeysIn, s_buckets)
               /\ s_elements' = s_elements + 1
               /\ pc' \in {"idle", "assert", "grow"} /\ (pc' = "idle" => ~NearCapacity(s_elements + 1))
      <3>1. /\ IsFiniteSet(KeysIn') /\ Cardinality(KeysIn') = Cardinality(KeysIn) + 1
            /\ Crowd(KeysIn', s_buckets) = Crowd(KeysIn, s_buckets) + 1
        BY <1>1, <2>1, <2>4, CrowdAdd
      <3>2. KeysIn' \in SUBSET Keys
        BY <1>1, <2>1
      <3>3. pc' = "idle" => 4 * Crowd(KeysIn', s_buckets) < 3 * s_buckets
        <4>1. Crowd(KeysIn', s_buckets) <= s_elements + 1
          BY <1>1, <1>2, <3>1, <3>2
        <4>2. pc' = "idle" => 4 * (s_elements + 1) < factor * s_buckets
          BY <1>1, <2>4 DEF NearCapacity
        <4>3. Crowd(KeysIn', s_buckets) \in Int
          BY <1>2, <3>1, <3>2
        <4>4. factor * s_buckets <= 3 * s_buckets /\ factor * s_buckets \in Nat
          BY <1>1
        <4> QED
          BY <1>1, <4>1, <4>2, <4>3, <4>4
      <3>4. pc' = "grow" => 4 * Crowd(KeysIn', s_buckets) < 3 * s_buckets + 4
        BY <1>1, <1>2, <2>1, <3>1
      <3> QED
        BY <1>1, <2>1, <2>4, <3>1, <3>3, <3>4 DEF Uncrowded
    <2> QED
      BY <1>1, <1>3, <2>2, <2>3, <2>4, InsertCases
  <1>4. CASE RemoveHead \/ RemoveChained
    <2>1. arg.key \in KeysIn /\ KeysIn' = KeysIn \ {arg.key}
      BY <1>4, KeysNext
    <2>2. /\ pc = "remove" /\ pc' \in {"remove", "idle"} /\ s_buckets' = s_buckets
          /\ s_elements' \in {s_elements, s_elements - 1}
      BY <1>4 DEF RemoveHead, RemoveChained
    <2>3. /\ IsFiniteSet(KeysIn') /\ Cardinality(KeysIn') = Cardinality(KeysIn) - 1
          /\ Crowd(KeysIn', s_buckets) <= Crowd(KeysIn, s_buckets)
      BY <1>1, <2>1, CrowdRemove
    <2>4. Crowd(KeysIn', s_buckets) \in Int /\ Crowd(KeysIn, s_buckets) \in Int
      <3>1. KeysIn' \in SUBSET Keys
        BY <1>1, <2>1
      <3> QED
        BY <1>1, <1>2, <2>3, <3>1
    <2> QED
      BY <1>1, <2>2, <2>3, <2>4 DEF Uncrowded
  <1>5. ASSUME NEW to_free, Free(to_free)
        PROVE  Uncrowded'
    <2>1. KeysIn' = {} /\ pc' = "freed" /\ s_elements' = s_elements
      BY <1>5, KeysNext DEF Free
    <2> QED
      BY <1>1, <2>1, FS_EmptySet DEF Uncrowded
  <1>6. CASE MoveEntry
    <2>1. KeysIn' = KeysIn /\ pc = "grow" /\ pc' = "grow" /\ s_elements' = s_elements /\ s_buckets' = s_buckets
      BY <1>6, KeysNext DEF MoveEntry
    <2> QED
      BY <1>1, <2>1 DEF Uncrowded
  <1>7. CASE SwapTables
    <2>1. KeysIn' = KeysIn /\ pc = "grow" /\ pc' = "idle" /\ s_elements' = s_elements /\ s_buckets' = 2 * s_buckets
      BY <1>7, KeysNext DEF SwapTables
    <2>2. Crowd(KeysIn, 2 * s_buckets) <= Crowd(KeysIn, s_buckets)
      BY <1>1, CrowdDouble
    <2>3. 4 * Crowd(KeysIn, 2 * s_buckets) < 3 * (2 * s_buckets)
      BY <1>1, <1>2, <2>1, <2>2
    <2> QED
      BY <1>1, <2>1, <2>3 DEF Uncrowded
  <1>8. CASE Quiet
    <2>1. KeysIn' = KeysIn /\ s_elements' = s_elements /\ s_buckets' = s_buckets
      BY <1>1, <1>8, KeysNext, QuietEffect
    <2>2. pc' = pc \/ (pc \in {"idle", "remove"} /\ pc' \in {"idle", "remove"})
      BY <1>8 DEF Quiet, Get, Exists, Remove, RemoveMissed, vars
    <2> QED
      BY <1>1, <2>1, <2>2 DEF Uncrowded
  <1> QED
    BY <1>3, <1>4, <1>5, <1>6, <1>7, <1>8, Steps

(* While hashmap_remove is under way it has not answered.                  *)
LEMMA UnansweredNext ==
  ASSUME pc = "remove" => answer = NULL, [Next]_vars, pc' = "remove"
  PROVE  answer' = NULL
  BY DEF Next, Call, Continue, Insert, InsertFirst, OverwriteHead, OverwriteChained, InsertChained,
         Get, Exists, Remove, RemoveHead, RemoveChained, RemoveMissed, MoveEntry, SwapTables, Free, vars

-----------------------------------------------------------------------------
(* The invariant, and what follows from it for every behaviour of the map. *)
LEMMA InitInv == Init => IInv
  <1> SUFFICES ASSUME Init PROVE IInv
    OBVIOUS
  <1>1. TypeOK /\ s_buckets \in Nat \ {0} /\ pc = "idle" /\ buckets = Empty(s_buckets) /\ freed = {} /\ s_elements = 0
    BY TypeInit, HashMapAssumption DEF Init
  <1>2. /\ buckets \in [0..(s_buckets - 1) -> Seq(Entries)]
        /\ \A b \in 0..(s_buckets - 1) : Sorted(buckets[b], b, s_buckets) /\ \A e : ~Has(buckets[b], e)
    <2>1. \A b \in 0..(s_buckets - 1) : buckets[b] = <<>>
      BY <1>1 DEF Empty
    <2> QED
      BY <1>1, <2>1, EmptySorted DEF TypeOK
  <1>3. Shape
    BY <1>1, <1>2, TableSorted DEF Shape
  <1>4. \A k, v : ~Says(k, v)
    BY <1>1, <1>2, SaysNow DEF In
  <1>5. Placed /\ KeysIn = {} /\ Reachable = {}
    BY <1>3, <1>4, PlacedNow, SetsNow
  <1>6. OneOwner /\ NoDangling
    BY <1>1, <1>4, <1>5 DEF OneOwner, NoDangling
  <1>7. Uncrowded
    <2>1. IsFiniteSet({}) /\ Cardinality({}) = 0 /\ {} \in SUBSET Keys
      BY FS_EmptySet
    <2>2. Crowd({}, s_buckets) = 0
      <3>1. Image({}, s_buckets) = {}
        BY DEF Image
      <3>2. Crowd({}, s_buckets) = Cardinality({}) - Cardinality(Image({}, s_buckets))
        BY <1>1, <2>1, FiniteImage
      <3> QED
        BY <2>1, <3>1, <3>2
    <2> QED
      BY <1>1, <1>5, <2>1, <2>2 DEF Uncrowded
  <1> QED
    BY <1>1, <1>5, <1>6, <1>7 DEF IInv

(* Every step of every call keeps the invariant.                           *)
LEMMA NextInv == IInv /\ [Next]_vars => IInv'
  <1> SUFFICES ASSUME IInv, [Next]_vars PROVE IInv'
    OBVIOUS
  <1>1. TypeOK /\ Placed /\ OneOwner /\ NoDangling /\ Uncrowded /\ (pc = "remove" => answer = NULL)
    BY DEF IInv
  <1>2. TypeOK'
    BY <1>1, TypeNext
  <1>3. Placed'
    <2>1. Shape'
      BY <1>1, StepEffect
    <2>2. (Shape => Placed)'
      BY PlacedNow, PTL
    <2> QED
      BY <2>1, <2>2
  <1>4. OneOwner'
    BY <1>1, OneOwnerNext
  <1>5. NoDangling'
    BY <1>1, NoDanglingNext
  <1>6. Uncrowded'
    BY <1>1, UncrowdedNext
  <1>7. pc' = "remove" => answer' = NULL
    BY <1>1, UnansweredNext
  <1> QED
    BY <1>2, <1>3, <1>4, <1>5, <1>6, <1>7 DEF IInv

(* Every behaviour of the hash map, whatever the hashes of the keys and    *)
(* however many buckets it is created with, keeps the inductive invariant. *)
THEOREM Invariant == Spec => []IInv
  BY InitInv, NextInv, PTL DEF Spec

(* Every variable keeps its type: the count of elements, which removals    *)
(* count down, never gets below 0, and an insertion or a removal under way *)
(* has the arguments it needs.                                             *)
THEOREM TypesRight == Spec => []TypeOK
  <1>1. IInv => TypeOK
    BY DEF IInv
  <1> QED
    BY <1>1, Invariant, PTL

(* Every entry is in the bucket of its hash and is the only one of its     *)
(* key, before, while and after the table grows.                           *)
THEOREM EntriesPlaced == Spec => []Placed
  <1>1. IInv => Placed
    BY DEF IInv
  <1> QED
    BY <1>1, Invariant, PTL

(* A value that was given to free is nowhere in the map any more.          *)
THEOREM NothingDangles == Spec => []NoDangling
  <1>1. IInv => NoDangling
    BY DEF IInv
  <1> QED
    BY <1>1, Invariant, PTL

(* There are never twice as many keys as buckets, and the count of         *)
(* elements is never too low.                                              *)
THEOREM ChainsShort == Spec => []ShortChains
  <1>1. IInv => ShortChains
    <2> SUFFICES ASSUME IInv PROVE ShortChains
      OBVIOUS
    <2>1. /\ TypeOK /\ Shape /\ s_buckets \in Nat \ {0}
          /\ IsFiniteSet(KeysIn) /\ Cardinality(KeysIn) <= s_elements
          /\ pc = "idle" => 4 * Crowd(KeysIn, s_buckets) < 3 * s_buckets
      BY ShapeNow DEF IInv, Uncrowded, Shape
    <2>2. KeysIn \in SUBSET Keys
      BY <2>1, SetsNow
    <2>3. Crowd(KeysIn, s_buckets) \in Int /\ Cardinality(KeysIn) \in Nat
          /\ Cardinality(KeysIn) <= Crowd(KeysIn, s_buckets) + s_buckets
      BY <2>1, <2>2, FiniteImage
    <2> QED
      BY <2>1, <2>3 DEF ShortChains
  <1> QED
    BY <1>1, Invariant, PTL

-----------------------------------------------------------------------------
(* When hashmap_remove returns, the key has no entry: not the one it found *)
(* and not another one.                                                    *)
THEOREM RemovalRemoves == Spec => Removes
  <1>1. ASSUME IInv, [Next]_vars, pc = "remove", pc' = "idle"
        PROVE  Contents'[arg.key] = NULL
    <2>1. TypeOK /\ Placed /\ Shape /\ Shape' /\ arg.key \in Keys
      BY <1>1, StepEffect DEF IInv, TypeOK
    <2>2. RemoveHead \/ RemoveChained \/ RemoveMissed
      BY <1>1 DEF Next, Call, Continue, Insert, InsertFirst, OverwriteHead, OverwriteChained, InsertChained,
                  Get, Exists, Remove, MoveEntry, SwapTables, Free, vars
    <2>3. PICK k \in Keys : k = arg.key
      BY <2>1
    <2>4. \A w \in Values : ~Says(k, w)'
      <3>1. CASE RemoveHead \/ RemoveChained
        BY <1>1, <2>1, <2>3, <3>1, StepEffect
      <3>2. CASE RemoveMissed
        <4>1. \A w \in Values : ~Says(k, w)
          BY <2>1, <2>3, <3>2, MissedEffect
        <4>2. Quiet
          BY <3>2 DEF Quiet
        <4> QED
          BY <1>1, <2>1, <4>1, <4>2, StepEffect
      <3> QED
        BY <2>2, <3>1, <3>2
    <2> QED
      BY <2>1, <2>3, <2>4, ContentsNext
  <1>2. IInv /\ [Next]_vars => [pc = "remove" /\ pc' = "idle" => Contents'[arg.key] = NULL]_vars
    BY <1>1
  <1> QED
    BY <1>2, Invariant, PTL DEF Spec, Removes

(* The map starts as the empty dictionary.                                 *)
LEMMA DictionaryInit == Init => D!Init
  <1> SUFFICES ASSUME Init PROVE D!Init
    OBVIOUS
  <1>1. Shape /\ Reachable = {} /\ KeysIn = {}
    <2>1. IInv
      BY InitInv
    <2>2. Shape
      BY <2>1, ShapeNow DEF IInv
    <2>3. KeysIn = {}
      <3>1. \A k, v : ~Says(k, v)
        <4>1. pc = "idle" /\ \A b \in DOMAIN buckets : buckets[b] = <<>>
          BY DEF Init, Empty
        <4> QED
          BY <4>1, SaysNow, EmptySorted DEF In
      <3> QED
        BY <2>2, <3>1, SetsNow
    <2>4. KeysIn = {} => Reachable = {}
      BY <2>2, SetsNow
    <2> QED
      BY <2>2, <2>3, <2>4
  <1>2. \A k \in Keys : Contents[k] = NULL
    BY <1>1, ContentsNow, SetsNow
  <1>3. Contents \in [Keys -> Values \cup {NULL}]
    BY <1>1, ContentsNow
  <1>4. Told = NULL
    BY DEF Told, Init
  <1> QED
    BY <1>2, <1>3, <1>4 DEF D!Init

(* Every step of the map is a step of the dictionary, or changes nothing   *)
(* that the dictionary shows.                                              *)
LEMMA DictionaryNext == IInv /\ [Next]_vars => [D!Next]_(D!vars)
  <1> SUFFICES ASSUME IInv, [Next]_vars PROVE [D!Next]_(D!vars)
    OBVIOUS
  <1>1. TypeOK /\ Placed /\ (pc = "remove" => answer = NULL) /\ Shape /\ Shape'
    BY StepEffect DEF IInv
  <1>3. (answer' = NULL => Told' = NULL) /\ (answer' \in Removals => Told' = NULL)
    BY DEF Told
  <1>4. answer' = answer => Told' = Told
    BY DEF Told
  <1>5. \A k, f : [key |-> k, found |-> f] \notin Removals
    BY DEF Removals
  <1>6. ASSUME NEW k \in Keys, NEW v \in Values, NEW to_free, Insert(k, v, to_free)
        PROVE  D!Put(k, v)
    <2>1. \A x \in Keys : \A w \in Values : Says(x, w)' <=> IF x = k THEN w = v ELSE Says(x, w)
      BY <1>1, <1>6, StepEffect
    <2>2. Contents' = [Contents EXCEPT ![k] = v]
      BY <1>1, <2>1, ContentsChange
    <2>3. Told' = NULL
      BY <1>1, <1>3, <1>6, InsertCases
    <2> QED
      BY <2>2, <2>3 DEF D!Put
  <1>7. CASE RemoveHead \/ RemoveChained
    <2>1. arg.key \in Keys /\ answer = NULL
      BY <1>1, <1>7 DEF RemoveHead, RemoveChained, TypeOK
    <2>2. \A x \in Keys : \A w \in Values : Says(x, w)' <=> IF x = arg.key THEN w = NULL ELSE Says(x, w)
      BY <1>1, <1>7, StepEffect, HashMapAssumption
    <2>3. Contents' = [Contents EXCEPT ![arg.key] = NULL]
      BY <1>1, <2>1, <2>2, ContentsChange
    <2>4. answer' = [removed |-> TRUE] \/ answer' = NULL
      BY <1>7, <2>1 DEF RemoveHead, RemoveChained
    <2>5. Told' = NULL
      BY <1>3, <2>4 DEF Removals
    <2> QED
      BY <2>1, <2>3, <2>5 DEF D!Next, D!Delete
  <1>8. CASE MoveEntry \/ SwapTables
    <2>1. Contents' = Contents
      BY <1>1, <1>8, StepEffect, ContentsSame
    <2>2. Told' = Told
      BY <1>4, <1>8 DEF MoveEntry, SwapTables
    <2> QED
      BY <2>1, <2>2 DEF D!vars
  <1>9. ASSUME NEW to_free, Free(to_free)
        PROVE  D!Clear
    <2>1. \A k \in Keys : Contents'[k] = NULL
      BY <1>1, <1>9, StepEffect, ContentsNext
    <2>2. Contents' \in [Keys -> Values \cup {NULL}]
      BY <1>1, ContentsNext
    <2>3. Told' = NULL
      BY <1>3, <1>9 DEF Free
    <2> QED
      BY <2>1, <2>2, <2>3 DEF D!Clear
  <1>10. CASE Quiet
    <2>1. Contents' = Contents
      BY <1>1, <1>10, StepEffect, ContentsSame
    <2>2. ASSUME NEW k \in Keys, Get(k)
          PROVE  D!Get(k)
      <3>1. /\ pc = "idle"
            /\ answer' = [key |-> k, found |-> IF Found(Bucket(k), k) = {} THEN NULL
                                               ELSE Bucket(k)[First(Found(Bucket(k), k))].value]
        BY <2>2 DEF Get
      <3>2. answer' = [key |-> k, found |-> Contents[k]]
        <4>1. CASE Found(Bucket(k), k) = {}
          BY <1>1, <3>1, <4>1, LookUpFinds, ContentsNow
        <4>2. CASE Found(Bucket(k), k) # {}
          BY <1>1, <3>1, <4>2, LookUpFinds, ContentsNow
        <4> QED
          BY <4>1, <4>2
      <3>3. Told' = answer'
        BY <1>5, <3>1 DEF Told
      <3> QED
        BY <2>1, <3>2, <3>3 DEF D!Get
    <2>3. ASSUME NEW k \in Keys, Exists(k)
          PROVE  D!Exists(k)
      <3>1. pc = "idle" /\ answer' = [key |-> k, found |-> Found(Bucket(k), k) # {}]
        BY <2>3 DEF Exists
      <3>2. Found(Bucket(k), k) # {} <=> Contents[k] # NULL
        BY <1>1, <3>1, LookUpFinds, ContentsNow
      <3>3. answer' = [key |-> k, found |-> Contents[k] # NULL]
        BY <3>1, <3>2
      <3>4. Told' = answer'
        BY <1>5, <3>1 DEF Told
      <3> QED
        BY <2>1, <3>3, <3>4 DEF D!Exists
    <2>4. ASSUME NEW k \in Keys, NEW to_free \in BOOLEAN, Remove(k, to_free)
          PROVE  D!Begin
      BY <1>3, <2>1, <2>4 DEF Remove, D!Begin
    <2>5. CASE RemoveMissed
      <3>1. answer' \in Removals
        BY <2>5 DEF RemoveMissed, Removals
      <3>2. D!Begin
        BY <1>3, <2>1, <3>1 DEF D!Begin
      <3> QED
        BY <3>2 DEF D!Next
    <2>6. CASE UNCHANGED vars
      BY <1>4, <2>1, <2>6 DEF vars, D!vars
    <2> QED
      BY <1>10, <2>2, <2>3, <2>4, <2>5, <2>6 DEF Quiet, D!Next
  <1> QED
    BY <1>6, <1>7, <1>8, <1>9, <1>10, Steps DEF D!Next

(* The hash map is a dictionary to its callers: through collisions,        *)
(* overwriting, removals and growth, a look-up is told what was inserted   *)
(* last and not removed since.                                             *)
THEOREM DictionaryImplemented == Spec => ImplementsDictionary
  BY DictionaryInit, DictionaryNext, Invariant, PTL DEF Spec, ImplementsDictionary, D!Spec
=============================================================================

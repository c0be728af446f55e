------------------------------ MODULE HashMap -------------------------------
(***************************************************************************)
(* The hash map (hashmap.c), which the table of statements is.  A bucket   *)
(* is the sequence of its entries: the first is the one inside the array   *)
(* of buckets, the others are its chain of nodes, and a bucket without a   *)
(* key is the empty sequence.  Keys are compared as strings and are the    *)
(* map's own copies; the hash of a key, before it is cut to the number of  *)
(* buckets, is a constant.  Calls with NULL for an argument return at once *)
(* and are left out.                                                       *)
(***************************************************************************)
EXTENDS Integers, Sequences, FiniteSets

CONSTANTS
  Keys, Values, NULL,
  Hash,          \* Hash[k], what hash computes before the last &
  SBuckets,      \* s_buckets of hashmap_create
  HeapBuckets,   \* the largest array of buckets calloc has memory for
  MaxElements    \* bounds s_elements, which removals at a head leave alone

(* hashmap_create rounds the number of buckets up to a power of two only   *)
(* after it has allocated them: callers have to pass a power of two, as    *)
(* this program does.                                                      *)
ASSUME HashMapAssumption ==
  /\ NULL \notin Keys \cup Values
  /\ Hash \in [Keys -> Nat]
  /\ \E n \in 0..SBuckets : SBuckets = 2^n
  /\ SBuckets \in Nat \ {0} /\ HeapBuckets \in Nat /\ MaxElements \in Nat

VARIABLES
  s_buckets, s_elements,
  factor,    \* load_threshold_factor, in quarters
  buckets,   \* the buckets from 0 to s_buckets - 1
  temp,      \* the table that hashmap_insert grows into, NULL otherwise
  pc,        \* "idle", inside "remove" or "grow", or over: "assert", "freed"
  arg,       \* key and to_free of the hashmap_remove under way
  answer,    \* what the last call returned, if it was a look-up or a removal
  freed      \* the values that were given to free or free_value

vars == <<s_buckets, s_elements, factor, buckets, temp, pc, arg, answer, freed>>

Entry(k, v) == [key |-> k, value |-> v]
Entries     == [key : Keys, value : Values]
Empty(n)    == [b \in 0..(n - 1) |-> <<>>]

-----------------------------------------------------------------------------
Init ==
  /\ s_buckets = SBuckets /\ s_elements = 0 /\ factor = 3
  /\ buckets = Empty(SBuckets) /\ temp = NULL
  /\ pc = "idle" /\ arg = NULL /\ answer = NULL /\ freed = {}

(* Some definitions are not used by the others: each is the one after it   *)
(* as a likely mistake would have left it.                                 *)

(* The index into n buckets: n is a power of two.                          *)
Index(k, n) == Hash[k] % n

Bucket(k) == buckets[Index(k, s_buckets)]
SetBucket(k, c) == buckets' = [buckets EXCEPT ![Index(k, s_buckets)] = c]

(* The search of a chain, behind the head: where the key is, or 0.         *)
SecondSkipped(c, k) == {j \in 3..Len(c) : c[j].key = k}
Chained(c, k) == {j \in 2..Len(c) : c[j].key = k}
First(J)      == CHOOSE j \in J : \A l \in J : j <= l

HeadIs(k)   == Bucket(k) # <<>> /\ Bucket(k)[1].key = k
InChain(k)  == Bucket(k) # <<>> /\ ~HeadIs(k) /\ Chained(Bucket(k), k) # {}
NotThere(k) == Bucket(k) # <<>> /\ ~HeadIs(k) /\ Chained(Bucket(k), k) = {}

(* hashmap_near_capacity, once there are n elements.                       *)
Inverted(n)     == 4 * s_buckets >= factor * n
NearCapacity(n) == 4 * n >= factor * s_buckets

-----------------------------------------------------------------------------
(* The value is one that is not in use: not in the map, nor given back.    *)
Stored == {v \in Values : \E b \in DOMAIN buckets : \E j \in DOMAIN buckets[b] : buckets[b][j].value = v}
Fresh(v) == v \notin Stored \cup freed

InsertFirst(k, v) ==
  /\ pc = "idle" /\ Bucket(k) = <<>> /\ s_elements < MaxElements
  /\ SetBucket(k, <<Entry(k, v)>>)
  /\ s_elements' = s_elements + 1
  /\ answer' = NULL
  /\ UNCHANGED <<s_buckets, factor, temp, pc, arg, freed>>

FreedAlways(k, v, to_free) ==
  /\ pc = "idle" /\ HeadIs(k)
  /\ SetBucket(k, [Bucket(k) EXCEPT ![1].value = v])
  /\ freed' = freed \cup {Bucket(k)[1].value}
  /\ answer' = NULL
  /\ UNCHANGED <<s_buckets, s_elements, factor, temp, pc, arg>>

OverwriteHead(k, v, to_free) ==
  /\ pc = "idle" /\ HeadIs(k)
  /\ SetBucket(k, [Bucket(k) EXCEPT ![1].value = v])
  /\ freed' = IF to_free THEN freed \cup {Bucket(k)[1].value} ELSE freed
  /\ answer' = NULL
  /\ UNCHANGED <<s_buckets, s_elements, factor, temp, pc, arg>>

(* The old value is freed whatever to_free says.                           *)
FreesTheNew(k, v) ==
  /\ pc = "idle" /\ InChain(k)
  /\ SetBucket(k, [Bucket(k) EXCEPT ![First(Chained(Bucket(k), k))].value = v])
  /\ freed' = freed \cup {v}
  /\ answer' = NULL
  /\ UNCHANGED <<s_buckets, s_elements, factor, temp, pc, arg>>

OverwriteChained(k, v) ==
  /\ pc = "idle" /\ InChain(k)
  /\ LET j == First(Chained(Bucket(k), k))
     IN  /\ SetBucket(k, [Bucket(k) EXCEPT ![j].value = v])
         /\ freed' = freed \cup {Bucket(k)[j].value}
  /\ answer' = NULL
  /\ UNCHANGED <<s_buckets, s_elements, factor, temp, pc, arg>>

(* Only here the load is looked at.                                        *)
InsertChained(k, v) ==
  /\ pc = "idle" /\ NotThere(k) /\ s_elements < MaxElements
  /\ SetBucket(k, Append(Bucket(k), Entry(k, v)))
  /\ s_elements' = s_elements + 1
  /\ IF ~NearCapacity(s_elements + 1) THEN pc' = pc /\ temp' = temp
     ELSE IF 2 * s_buckets > HeapBuckets THEN pc' = "assert" /\ temp' = temp
     ELSE pc' = "grow" /\ temp' = Empty(2 * s_buckets)
  /\ answer' = NULL
  /\ UNCHANGED <<s_buckets, factor, arg, freed>>

Insert(k, v, to_free) ==
  Fresh(v) /\ (InsertFirst(k, v) \/ OverwriteHead(k, v, to_free)
               \/ OverwriteChained(k, v) \/ InsertChained(k, v))

(* One entry, of the first bucket that still has any, goes to the end of   *)
(* its bucket in temp.                                                     *)
OldIndex(e) ==
  [temp EXCEPT ![Index(e.key, s_buckets)] = Append(@, e)]
Moved(e) ==
  [temp EXCEPT ![Index(e.key, 2 * s_buckets)] = Append(@, e)]

NonEmpty == {b \in DOMAIN buckets : buckets[b] # <<>>}

MoveEntry ==
  /\ pc = "grow" /\ NonEmpty # {}
  /\ LET n == First(NonEmpty)
     IN  /\ temp' = Moved(Head(buckets[n]))
         /\ buckets' = [buckets EXCEPT ![n] = Tail(@)]
  /\ UNCHANGED <<s_buckets, s_elements, factor, pc, arg, answer, freed>>

(* The old table is freed and temp takes its place, with the factor that   *)
(* calloc gave it.                                                         *)
SwapTables ==
  /\ pc = "grow" /\ NonEmpty = {}
  /\ buckets' = temp /\ s_buckets' = 2 * s_buckets /\ factor' = 0
  /\ temp' = NULL /\ pc' = "idle"
  /\ UNCHANGED <<s_elements, arg, answer, freed>>

-----------------------------------------------------------------------------
Found(c, k) == {j \in 1..Len(c) : c[j].key = k}

Get(k) ==
  /\ pc = "idle"
  /\ LET J == Found(Bucket(k), k)
     IN  answer' = [key |-> k, found |-> IF J = {} THEN NULL ELSE Bucket(k)[First(J)].value]
  /\ UNCHANGED <<s_buckets, s_elements, factor, buckets, temp, pc, arg, freed>>

Exists(k) ==
  /\ pc = "idle"
  /\ answer' = [key |-> k, found |-> Found(Bucket(k), k) # {}]
  /\ UNCHANGED <<s_buckets, s_elements, factor, buckets, temp, pc, arg, freed>>

Remove(k, to_free) ==
  /\ pc = "idle"
  /\ pc' = "remove" /\ arg' = [key |-> k, to_free |-> to_free]
  /\ answer' = NULL
  /\ UNCHANGED <<s_buckets, s_elements, factor, buckets, temp, freed>>

Dropped(v) == freed' = IF arg.to_free THEN freed \cup {v} ELSE freed

(* The loop on the head: the next node, if there is one, moves into it and *)
(* the search goes on.  The count stays.                                   *)
HeadStays ==
  /\ pc = "remove" /\ HeadIs(arg.key)
  /\ Dropped(Bucket(arg.key)[1].value)
  /\ IF Len(Bucket(arg.key)) = 1
     THEN SetBucket(arg.key, <<>>) /\ answer' = [removed |-> TRUE] /\ pc' = "idle" /\ arg' = NULL
     ELSE UNCHANGED <<buckets, answer, pc, arg>>
  /\ UNCHANGED <<s_buckets, s_elements, factor, temp>>

RemoveHead ==
  /\ pc = "remove" /\ HeadIs(arg.key)
  /\ SetBucket(arg.key, Tail(Bucket(arg.key)))
  /\ Dropped(Bucket(arg.key)[1].value)
  /\ IF Len(Bucket(arg.key)) = 1
     THEN answer' = [removed |-> TRUE] /\ pc' = "idle" /\ arg' = NULL
     ELSE UNCHANGED <<answer, pc, arg>>
  /\ UNCHANGED <<s_buckets, s_elements, factor, temp>>

RestLost(c, j)  == SubSeq(c, 1, j - 1)
RemovedAt(c, j) == [l \in 1..(Len(c) - 1) |-> IF l < j THEN c[l] ELSE c[l + 1]]

RemoveChained ==
  /\ pc = "remove" /\ ~HeadIs(arg.key) /\ Chained(Bucket(arg.key), arg.key) # {}
  /\ LET j == First(Chained(Bucket(arg.key), arg.key))
     IN  /\ SetBucket(arg.key, RemovedAt(Bucket(arg.key), j))
         /\ Dropped(Bucket(arg.key)[j].value)
  /\ s_elements' = s_elements - 1
  /\ answer' = [removed |-> TRUE] /\ pc' = "idle" /\ arg' = NULL
  /\ UNCHANGED <<s_buckets, factor, temp>>

RemoveMissed ==
  /\ pc = "remove" /\ ~HeadIs(arg.key) /\ Chained(Bucket(arg.key), arg.key) = {}
  /\ answer' = [removed |-> FALSE] /\ pc' = "idle" /\ arg' = NULL
  /\ UNCHANGED <<s_buckets, s_elements, factor, buckets, temp, freed>>

(* hashmap_free.                                                           *)
Free(to_free) ==
  /\ pc = "idle"
  /\ freed' = IF to_free THEN freed \cup Stored ELSE freed
  /\ buckets' = Empty(s_buckets) /\ pc' = "freed"
  /\ answer' = NULL
  /\ UNCHANGED <<s_buckets, s_elements, factor, temp, arg>>

-----------------------------------------------------------------------------
(* A call under way goes on; no call waits for another.                    *)
Continue == MoveEntry \/ SwapTables \/ RemoveHead \/ RemoveChained \/ RemoveMissed

Call ==
  \/ \E k \in Keys : Get(k) \/ Exists(k)
  \/ \E to_free \in BOOLEAN :
       \/ Free(to_free)
       \/ \E k \in Keys : Remove(k, to_free) \/ \E v \in Values : Insert(k, v, to_free)

Next == Call \/ Continue

(* The calls hashtable.c makes for this program.                           *)
ProgramNext ==
  \/ Continue
  \/ Free(FALSE)
  \/ \E k \in Keys : Get(k) \/ Exists(k) \/ \E v \in Values : Insert(k, v, FALSE)

Spec        == Init /\ [][Next]_vars
FairSpec    == Spec /\ WF_vars(Continue)
ProgramSpec == Init /\ [][ProgramNext]_vars

-----------------------------------------------------------------------------
Removals == {[removed |-> TRUE], [removed |-> FALSE]}

(* Every variable holds a value of its type.                               *)
TypeOK ==
  /\ s_buckets \in Nat \ {0} /\ s_elements \in 0..MaxElements /\ factor \in {0, 3}
  /\ buckets \in [0..(s_buckets - 1) -> Seq(Entries)]
  /\ IF pc = "grow" THEN temp \in [0..(2 * s_buckets - 1) -> Seq(Entries)] ELSE temp = NULL
  /\ pc \in {"idle", "remove", "grow", "assert", "freed"}
  /\ IF pc = "remove" THEN arg \in [key : Keys, to_free : BOOLEAN] ELSE arg = NULL
  /\ answer \in [key : Keys, found : Values \cup {NULL} \cup BOOLEAN] \cup Removals \cup {NULL}
  /\ freed \in SUBSET Values

(* A table of n buckets has every entry in the bucket of its hash, and no  *)
(* key twice.                                                              *)
InBucket(t, n) == \A b \in 0..(n - 1) : \A j \in 1..Len(t[b]) : Index(t[b][j].key, n) = b
NoTwice(t, n)  == \A b \in 0..(n - 1) : \A j \in 1..Len(t[b]) : \A l \in 1..(j - 1) : t[b][l].key # t[b][j].key

KeysOf(t) == {k \in Keys : \E b \in DOMAIN t : \E j \in 1..Len(t[b]) : t[b][j].key = k}

(* The searches look into one bucket and stop at the first hit.  They may: *)
(* whatever collides, whatever was moved by the removal of a head or by    *)
(* growth to another bucket of another table, every entry is in the bucket *)
(* of its hash and is the only one of its key, in the table that grows and *)
(* in the one it grows into.                                               *)
Placed ==
  /\ InBucket(buckets, s_buckets) /\ NoTwice(buckets, s_buckets)
  /\ pc = "grow" => /\ InBucket(temp, 2 * s_buckets) /\ NoTwice(temp, 2 * s_buckets)
                    /\ KeysOf(buckets) \cap KeysOf(temp) = {}

Tables == IF pc = "grow" THEN {buckets, temp} ELSE {buckets}
KeysIn == UNION {KeysOf(t) : t \in Tables}

(* Growth is looked for only when a chain gets longer, and after the first *)
(* time with a factor of 0; heads are filled without a look, and removing  *)
(* a head leaves the count of elements as it is.  Still the count is never *)
(* too low, and chains stay short on average: there are never twice as     *)
(* many keys as buckets.                                                   *)
ShortChains ==
  /\ Cardinality(KeysIn) <= s_elements
  /\ pc = "idle" => 4 * Cardinality(KeysIn) < 7 * s_buckets

(* A value that was given to free cannot be looked up any more.            *)
Reachable == {v \in Values : \E t \in Tables : \E b \in DOMAIN t : \E j \in 1..Len(t[b]) : t[b][j].value = v}
NoDangling == Reachable \cap freed = {}

(* Every call comes back, or ends the process: the loops of growth and of  *)
(* removal end.                                                            *)
CallsReturn == (pc \in {"remove", "grow"}) ~> (pc = "idle")

-----------------------------------------------------------------------------
(* The map of the specification: what the entries of the table, and of the *)
(* one it is growing into, say, wherever they are.                         *)
Says(k, v) == \E t \in Tables : \E b \in DOMAIN t : \E j \in 1..Len(t[b]) : t[b][j] = Entry(k, v)
Contents   == [k \in Keys |-> IF \E v \in Values : Says(k, v) THEN CHOOSE v \in Values : Says(k, v) ELSE NULL]

(* A value has one key, so that an insertion or a removal, which frees the *)
(* value of one, frees nothing that another key still has.                 *)
OneOwner ==
  \A k1, k2 \in Keys : \A v \in Values : Says(k1, v) /\ Says(k2, v) => k1 = k2

(* How many of the keys in S are behind the head of their bucket.          *)
Crowd(S, n) == Cardinality(S) - Cardinality({Index(k, n) : k \in S})

(* An insertion that finds its bucket full, and no room, starts growth.    *)
(* Growth moves entries from bucket to bucket but changes neither the keys *)
(* nor, in terms of the old number of buckets, where they belong.          *)
Uncrowded ==
  /\ IsFiniteSet(KeysIn) /\ Cardinality(KeysIn) <= s_elements
  /\ pc \in {"idle", "remove"} => 4 * Crowd(KeysIn, s_buckets) < 3 * s_buckets
  /\ pc = "grow" => 4 * Crowd(KeysIn, s_buckets) < 3 * s_buckets + 4

(* What every step keeps.                                                  *)
IInv ==
  /\ TypeOK /\ Placed /\ OneOwner /\ NoDangling /\ Uncrowded
  /\ pc = "remove" => answer = NULL

(* What removals return is not part of the specification: a head that is   *)
(* removed and had successors is reported as not found.                    *)
Told == IF answer \in Removals THEN NULL ELSE answer

(* When hashmap_remove returns, the key is not in the map any more, at its *)
(* old place or at another, whatever it returns.                           *)
Removes == [][pc = "remove" /\ pc' = "idle" => Contents'[arg.key] = NULL]_vars

D == INSTANCE Dictionary WITH dict <- Contents, answer <- Told

(* Look-ups find what was inserted last, through collisions, overwriting,  *)
(* removals and growth, whose intermediate steps change nothing.           *)
ImplementsDictionary == D!Spec
=============================================================================

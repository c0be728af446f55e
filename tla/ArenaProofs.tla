---------------------------- MODULE ArenaProofs -----------------------------
(***************************************************************************)
(* What is true of the allocator for every size of arena, of block and of  *)
(* request: allocations are disjoint and inside the arena, their bits are  *)
(* inside the bitmap and show what is in use, the next header is inside    *)
(* the memory.                                                             *)
(***************************************************************************)
EXTENDS Arena, ArithmeticLemmas, SequenceTheorems

-----------------------------------------------------------------------------
(* Division as the allocator uses it: rounding up to blocks and counting   *)
(* blocks from an offset.                                                  *)
(* Dividing a multiple gives back the factor.                              *)
LEMMA Multiple ==
  ASSUME NEW m \in Nat, NEW y \in Nat \ {0}
  PROVE  (y * m) \div y = m
  <1>1. y * m \in Nat
    OBVIOUS
  <1>2. /\ (y * m) \div y \in Nat
        /\ y * ((y * m) \div y) <= y * m /\ y * m < y * ((y * m) \div y) + y
    BY <1>1, Division
  <1> QED
    BY <1>1, <1>2, Quotient

(* _arena_utils_ceil rounds up, and to the nearest.                        *)
LEMMA CeilBounds ==
  ASSUME NEW x \in Nat, NEW y \in Nat \ {0}
  PROVE  /\ Ceil(x, y) \in Nat
         /\ x <= y * Ceil(x, y)
         /\ \A c \in Nat : x <= y * c => Ceil(x, y) <= c
  <1> DEFINE z == x + y - 1
             q == z \div y
  <1>1. z \in Nat
    OBVIOUS
  <1>2. q \in Nat /\ y * q <= z /\ z < y * q + y
    BY <1>1, Division
  <1>3. ASSUME NEW c \in Nat, x <= y * c  PROVE q <= c
    <2>1. SUFFICES ASSUME q >= c + 1 PROVE FALSE
      BY <1>2
    <2>2. y * (c + 1) <= y * q
      BY <1>2, <2>1
    <2> QED
      BY <1>2, <1>3, <2>2
  <1> QED
    BY <1>2, <1>3 DEF Ceil

-----------------------------------------------------------------------------
(* What the geometry of an arena comes to.                                 *)
LEMMA Geometry ==
  /\ SBlock \in Nat \ {0} /\ Word \in Nat \ {0} /\ Stride \in Nat \ {0} /\ SArena \in Nat
  /\ SBitmap \in Nat /\ SArena = SBlock * SBitmap
  /\ MemorySize \in Nat /\ MemorySize = SArena + Word * SBitmap
  /\ Word <= MemorySize
  <1>0. SBlock \in Nat \ {0} /\ Word \in Nat \ {0} /\ SArena \in Nat
    BY ArenaAssumption
  <1>1. Stride \in Nat \ {0}
    BY ArenaAssumption DEF Stride
  <1>2. PICK k \in 1..SArena : SArena = k * (8 * SBlock)
    BY ArenaAssumption
  <1>3. k \in Nat /\ 8 * SBlock \in Nat \ {0} /\ SArena = (8 * SBlock) * k
    BY <1>0, <1>2
  <1>4. SArena \div (8 * SBlock) = k
    BY <1>3, Multiple
  <1>5. SBitmap = 8 * k
    BY <1>4 DEF SBitmap
  <1>6. SArena = SBlock * SBitmap
    BY <1>3, <1>5, <1>0
  <1>7. Word * SArena = SBlock * (Word * SBitmap) /\ Word * SBitmap \in Nat
    BY <1>0, <1>3, <1>5, <1>6
  <1>8. (Word * SArena) \div SBlock = Word * SBitmap
    BY <1>0, <1>7, Multiple
  <1>9. Word <= Word * SBitmap
    BY <1>0, <1>2, <1>5
  <1> QED
    BY <1>0, <1>1, <1>3, <1>5, <1>6, <1>7, <1>8, <1>9 DEF MemorySize

(* The blocks of a request hold its bytes and its header.                  *)
LEMMA Blocked ==
  ASSUME NEW s \in Nat
  PROVE  /\ BytesToBlocks(s) \in Nat /\ Advance(s) \in Nat
         /\ s + Word <= Advance(s)
         /\ Advance(s) = Stride * BytesToBlocks(s)
  <1>1. CASE Aligned
    <2>1. s + Word \in Nat /\ SBlock \in Nat \ {0} /\ Word \in Nat
      BY Geometry
    <2>2. BytesToBlocks(s) = Ceil(s + Word, SBlock) /\ Stride = SBlock + Word
      BY <1>1 DEF BytesToBlocks, Stride
    <2>3. BytesToBlocks(s) \in Nat /\ s + Word <= SBlock * BytesToBlocks(s)
      BY <2>1, <2>2, CeilBounds
    <2>4. SBlock * BytesToBlocks(s) <= Stride * BytesToBlocks(s) /\ Stride * BytesToBlocks(s) \in Nat
      BY <2>1, <2>2, <2>3
    <2> QED
      BY <2>1, <2>3, <2>4 DEF Advance, BlocksToOffset
  <1>2. CASE ~Aligned
    BY <1>2, Geometry DEF BytesToBlocks, Stride, Advance, BlocksToOffset
  <1> QED
    BY <1>1, <1>2

(* An allocation that fits gets bits inside the bitmap, although its       *)
(* blocks may go beyond SArena.                                            *)
LEMMA BitsFit ==
  ASSUME NEW m \in Nat, NEW s \in Nat, PtrInArena(Stride * m, s)
  PROVE  m + BytesToBlocks(s) <= SBitmap
  <1>1. CASE Aligned
    <2>1. Stride = SBlock + Word /\ BytesToBlocks(s) = Ceil(s + Word, SBlock)
      BY <1>1 DEF Stride, BytesToBlocks
    <2>2. (SBlock + Word) * m + Word + s < SBlock * SBitmap
      BY <2>1, Geometry DEF PtrInArena
    <2>3. SBlock * m + (s + Word) < SBlock * SBitmap
      <3>1. SBlock * m <= (SBlock + Word) * m
        BY Geometry
      <3> QED
        BY <2>2, <3>1, Geometry
    <2>4. m <= SBitmap
      <3>1. SUFFICES ASSUME m >= SBitmap PROVE FALSE
        BY Geometry
      <3>2. SBlock * SBitmap <= SBlock * m
        BY <3>1, Geometry
      <3> QED
        BY <2>3, <3>2, Geometry
    <2>5. SBitmap - m \in Nat /\ s + Word <= SBlock * (SBitmap - m)
      BY <2>3, <2>4, Geometry
    <2>6. Ceil(s + Word, SBlock) \in Nat /\ Ceil(s + Word, SBlock) <= SBitmap - m
      <3>1. s + Word \in Nat /\ SBlock \in Nat \ {0}
        BY Geometry
      <3>2. /\ Ceil(s + Word, SBlock) \in Nat
            /\ \A c \in Nat : s + Word <= SBlock * c => Ceil(s + Word, SBlock) <= c
        BY <3>1, CeilBounds
      <3> QED
        BY <2>5, <3>2
    <2> QED
      BY <2>1, <2>6, Geometry
  <1>2. CASE ~Aligned
    <2>1. SBlock = 1 /\ Stride = 1 /\ BytesToBlocks(s) = s + Word
      BY <1>2, ArenaAssumption DEF Stride, BytesToBlocks
    <2> QED
      BY <2>1, Geometry DEF PtrInArena
  <1> QED
    BY <1>1, <1>2
-----------------------------------------------------------------------------
(* The operations on a heap, one after the other.                          *)
LEMMA FreshSound == SoundNode(FreshNode) /\ FreshNode \in Node
  <1>1. Index(0) = 0
    <2>1. Stride \in Nat \ {0} /\ 0 = Stride * 0
      BY Geometry
    <2> QED
      BY <2>1, Multiple DEF Index
  <1> QED
    BY <1>1, Geometry DEF SoundNode, FreshNode, Node

(* Arenas added to the chain are sound and hold no allocation.             *)
LEMMA GrowSound ==
  ASSUME NEW h, Sound(h), h.status = "running", Len(h.nodes) < HeapNodes
  PROVE  Sound(Grow(h)) /\ Grow(h).allocs = h.allocs /\ Grow(h).status = "running"
  <1> DEFINE n    == Len(h.nodes)
             x(m) == IF m <= n THEN h.nodes[m] ELSE FreshNode
             y(m) == IF m = 1 \/ (m > n /\ m < HeapNodes)
                     THEN [x(m) EXCEPT !.snodes = @ + 1] ELSE x(m)
             g    == Grow(h)
             ns   == [m \in 1..HeapNodes |-> y(m)]
  <1>1. g = [h EXCEPT !.nodes = ns] /\ h \in Heap
    BY DEF Grow, Sound
  <1>2. g.nodes = ns /\ g.allocs = h.allocs /\ g.status = h.status
    BY <1>1 DEF Heap
  <1>3. n \in Nat /\ HeapNodes \in Nat
    BY ArenaAssumption, <1>1, LenProperties DEF Heap
  <1>4. ASSUME NEW m \in 1..HeapNodes
        PROVE  y(m) \in Node /\ SoundNode(y(m)) /\ (m <= n => y(m).ptr = h.nodes[m].ptr)
    <2>1. x(m) \in Node /\ SoundNode(x(m))
      <3>1. CASE m <= n
        BY <1>1, <1>3, <3>1, LenProperties DEF Sound, Heap
      <3>2. CASE ~(m <= n)
        BY <3>2, FreshSound
      <3> QED
        BY <3>1, <3>2
    <2>2. /\ y(m) \in Node /\ y(m).ptr = x(m).ptr /\ y(m).bits = x(m).bits
      BY <2>1 DEF Node
    <2> QED
      BY <2>1, <2>2 DEF SoundNode
  <1>5. ns \in Seq(Node) /\ Len(ns) = HeapNodes
    <2> HIDE DEF y
    <2>1. ns \in [1..HeapNodes -> Node]
      BY <1>4
    <2> HIDE DEF ns
    <2>2. ns \in Seq(Node)
      BY <2>1, <1>3, SeqDef
    <2>3. DOMAIN ns = 1..HeapNodes
      BY <2>1
    <2> QED
      BY <2>2, <2>3, <1>3, LenProperties
  <1>6. g \in Heap
    BY <1>1, <1>5 DEF Heap
  <1>7. ASSUME NEW m \in 1..Len(g.nodes) PROVE SoundNode(g.nodes[m])
    <2> HIDE DEF y
    <2>1. m \in 1..HeapNodes /\ g.nodes[m] = y(m)
      BY <1>2, <1>5, <1>7
    <2> QED
      BY <2>1, <1>4
  <1>8. ASSUME NEW a \in 1..Len(g.allocs) PROVE SoundAllocation(g, a)
    <2>1. SoundAllocation(h, a) /\ h.allocs[a] \in Allocation
      BY <1>1, <1>2 DEF Sound, Heap
    <2>2. h.allocs[a].node \in 1..n
      BY <2>1 DEF SoundAllocation, Allocation
    <2>3. g.nodes[h.allocs[a].node].ptr = h.nodes[h.allocs[a].node].ptr
      BY <1>2, <1>3, <1>4, <2>2
    <2> QED
      BY <1>2, <1>3, <1>5, <2>1, <2>2, <2>3 DEF SoundAllocation
  <1>9. ASSUME NEW a \in 1..Len(g.allocs), NEW b \in 1..(a - 1) PROVE Apart(g, a, b)
    BY <1>2 DEF Sound, Apart
  <1> QED
    BY <1>2, <1>3, <1>5, <1>6, <1>7, <1>8, <1>9 DEF Sound

(* An allocation placed at the pointer of the last arena is apart from all *)
(* those before it.                                                        *)
LEMMA PlaceSound ==
  ASSUME NEW h, Sound(h), h.status = "running", NEW s \in Sizes
  PROVE  /\ Sound(Place(h, s))
         /\ Place(h, s).allocs = h.allocs \/ Len(Place(h, s).allocs) = Len(h.allocs) + 1
         /\ \A a \in 1..Len(h.allocs) : Place(h, s).allocs[a] = h.allocs[a]
  <1> DEFINE n  == Len(h.nodes)
             x  == h.nodes[n]
             at == x.ptr
             bb == BytesToBlocks(s)
             y  == Taken(x, s)
             e  == [node |-> n, at |-> at, size |-> s, live |-> TRUE, held |-> TRUE]
             g  == Place(h, s)
  <1>1. h \in Heap /\ h.nodes \in Seq(Node) /\ h.allocs \in Seq(Allocation)
    BY DEF Sound, Heap
  <1>2. n \in Nat /\ n >= 1 /\ n <= HeapNodes /\ HeapNodes \in Nat /\ s \in Nat
    BY ArenaAssumption, <1>1, LenProperties DEF Sound
  <1>3. n \in 1..Len(h.nodes)
    BY <1>2
  <1>4. x \in Node /\ SoundNode(x)
    BY <1>1, <1>3, ElementOfSeq DEF Sound
  <1>41. \A m \in 1..n : h.nodes[m] \in Node /\ h.nodes[m].ptr \in Nat
    <2>1. ASSUME NEW m \in 1..n PROVE h.nodes[m] \in Node
      BY <1>1, ElementOfSeq
    <2> QED
      BY <2>1 DEF Node
  <1>42. ASSUME NEW a \in 1..Len(h.allocs)
         PROVE  /\ h.allocs[a] \in Allocation
                /\ h.allocs[a].node \in 1..n /\ h.allocs[a].at \in Nat /\ h.allocs[a].size \in Nat
    <2>1. h.allocs[a] \in Allocation
      BY <1>1, ElementOfSeq
    <2>2. SoundAllocation(h, a)
      BY DEF Sound
    <2> QED
      BY <1>2, <2>1, <2>2 DEF Allocation, SoundAllocation
  <1>5. CASE ~PtrInArena(at, s)
    <2>1. g = [h EXCEPT !.status = "aborted"]
      BY <1>5 DEF Place
    <2>2. g \in Heap /\ g.nodes = h.nodes /\ g.allocs = h.allocs /\ g.status = "aborted"
      BY <1>1, <2>1 DEF Heap
    <2> QED
      BY <2>2 DEF Sound, SoundAllocation, Apart
  <1>6. CASE PtrInArena(at, s)
    <2>1. g.nodes = [h.nodes EXCEPT ![n] = y] /\ g.allocs = Append(h.allocs, e) /\ g.status = h.status
      BY <1>6 DEF Place
    <2>2. /\ at \in Nat /\ Index(at) \in Nat /\ at = Stride * Index(at) /\ Stride \in Nat \ {0}
          /\ bb \in Nat /\ Advance(s) = Stride * bb /\ Advance(s) \in Nat /\ s + Word <= Advance(s)
          /\ Word \in Nat /\ SArena \in Nat /\ SBitmap \in Nat
      <3>1. at \in Nat /\ at = Stride * Index(at)
        BY <1>4 DEF Node, SoundNode
      <3>2. Index(at) \in Nat
        BY <3>1, Geometry, Division DEF Index
      <3> QED
        BY <1>2, <3>1, <3>2, Blocked, Geometry
    <2>21. y.ptr = at + Advance(s) /\ y.bits = x.bits \cup Blocks(at, bb) /\ y.snodes = x.snodes
      BY <1>4 DEF Taken, Node
    <2>3. SoundNode(y)
      <3>1. y.ptr = Stride * (Index(at) + bb) /\ Index(at) + bb \in Nat
        BY <2>2, <2>21
      <3>2. y.ptr = Stride * Index(y.ptr)
        BY <2>2, <3>1, Multiple DEF Index
      <3>3. Index(at) + bb <= SBitmap
        BY <1>2, <1>6, <2>2, BitsFit
      <3>4. Blocks(at, bb) \subseteq 0..(SBitmap - 1)
        BY <2>2, <3>3 DEF Blocks
      <3>5. ASSUME SmallRequests PROVE y.ptr + Word <= MemorySize
        <4>1. at + Word + s < SArena
          BY <1>6 DEF PtrInArena
        <4>2. Advance(s) + Word <= (Word * SArena) \div SBlock
          <5>1. at \in Nat /\ Word \in Nat /\ s \in Nat /\ SArena \in Nat
            BY <1>2, <2>2
          <5>2. Word + s < SArena
            <6> HIDE DEF at
            <6> QED
              BY <4>1, <5>1
          <5> QED
            BY <3>5, <5>2 DEF SmallRequests
        <4>3. MemorySize = SArena + (Word * SArena) \div SBlock /\ (Word * SArena) \div SBlock \in Int
          BY <2>2, Geometry, ArenaAssumption DEF MemorySize
        <4> DEFINE r == (Word * SArena) \div SBlock
        <4>4. r \in Int /\ MemorySize = SArena + r /\ Advance(s) + Word <= r
          BY <4>2, <4>3
        <4>5. y.ptr = at + Advance(s)
          BY <2>21
        <4>6. at \in Nat /\ Advance(s) \in Nat /\ Word \in Nat /\ s \in Nat /\ SArena \in Nat
          BY <1>2, <2>2
        <4> HIDE DEF y, at, r
        <4> QED
          BY <4>1, <4>4, <4>5, <4>6
      <3> QED
        BY <1>4, <2>21, <3>2, <3>4, <3>5 DEF SoundNode
    <2>4. y \in Node
      <3>1. Blocks(at, bb) \in SUBSET Nat
        BY <2>2 DEF Blocks
      <3>2. y = [x EXCEPT !.ptr = x.ptr + Advance(s), !.bits = @ \cup Blocks(x.ptr, BytesToBlocks(s))]
        BY DEF Taken
      <3>3. x.bits \cup Blocks(at, bb) \in SUBSET Nat /\ x.ptr + Advance(s) \in Nat
        BY <1>4, <2>2, <3>1 DEF Node
      <3> QED
        BY <1>4, <3>2, <3>3 DEF Node
    <2>5. e \in Allocation
      BY <1>2, <2>2 DEF Allocation
    <2> HIDE DEF y, e
    <2>6. /\ g.nodes \in Seq(Node) /\ Len(g.nodes) = n /\ g.nodes[n] = y
          /\ \A m \in 1..n : m # n => g.nodes[m] = h.nodes[m]
      BY <1>1, <1>3, <2>1, <2>4, ExceptSeq
    <2>7. /\ g.allocs \in Seq(Allocation) /\ Len(g.allocs) = Len(h.allocs) + 1
          /\ g.allocs[Len(h.allocs) + 1] = e
          /\ \A a \in 1..Len(h.allocs) : g.allocs[a] = h.allocs[a]
      BY <1>1, <2>1, <2>5
    <2>8. g \in Heap
      <3>1. g = [nodes |-> g.nodes, allocs |-> g.allocs, status |-> g.status]
        BY <1>6 DEF Place
      <3> QED
        BY <1>1, <2>1, <2>6, <2>7, <3>1 DEF Heap
    <2>9. ASSUME NEW m \in 1..Len(g.nodes) PROVE SoundNode(g.nodes[m])
      BY <2>3, <2>6 DEF Sound
    <2>10. \A m \in 1..n : g.nodes[m].ptr \in Nat /\ h.nodes[m].ptr <= g.nodes[m].ptr
      <3>1. ASSUME NEW m \in 1..n, m # n
            PROVE  g.nodes[m].ptr \in Nat /\ h.nodes[m].ptr <= g.nodes[m].ptr
        BY <1>41, <2>6, <3>1
      <3>2. y.ptr \in Nat /\ at <= y.ptr
        BY <2>2, <2>21
      <3>3. g.nodes[n].ptr \in Nat /\ h.nodes[n].ptr <= g.nodes[n].ptr
        BY <2>6, <3>2
      <3> QED
        BY <3>1, <3>3
    <2>11. ASSUME NEW a \in 1..Len(h.allocs) PROVE SoundAllocation(g, a)
      <3>1. SoundAllocation(h, a)
        BY DEF Sound
      <3>2. /\ h.allocs[a].node \in 1..n /\ h.allocs[a].at \in Nat /\ h.allocs[a].size \in Nat
            /\ g.allocs[a] = h.allocs[a]
        BY <1>42, <2>7
      <3>3. /\ h.nodes[h.allocs[a].node].ptr <= g.nodes[h.allocs[a].node].ptr
            /\ h.nodes[h.allocs[a].node].ptr \in Nat /\ g.nodes[h.allocs[a].node].ptr \in Nat
        BY <1>41, <2>10, <3>2
      <3> QED
        <4> DEFINE z == h.allocs[a]
        <4>1. /\ z.at + Word + z.size < SArena
              /\ z.at + Word + z.size <= h.nodes[z.node].ptr
          BY <3>1 DEF SoundAllocation
        <4>0. Word \in Nat /\ z.at \in Nat /\ z.size \in Nat
          BY <2>2, <3>2
        <4>2. z.at + Word + z.size \in Nat
          <5> HIDE DEF z
          <5> QED
            BY <4>0
        <4>3. z.at + Word + z.size <= g.nodes[z.node].ptr
          BY <3>3, <4>1, <4>2
        <4>4. z.node <= Len(g.nodes)
          BY <2>6, <3>2, <1>2
        <4> QED
          BY <3>2, <4>1, <4>3, <4>4 DEF SoundAllocation
    <2>12. SoundAllocation(g, Len(h.allocs) + 1)
      <3>1. e.node = n /\ e.at = at /\ e.size = s
        BY DEF e
      <3>2. at + Word + s < SArena /\ at + Word + s <= y.ptr
        BY <1>2, <1>6, <2>2, <2>21 DEF PtrInArena
      <3> HIDE DEF g, at
      <3> QED
        BY <1>2, <2>6, <2>7, <3>1, <3>2 DEF SoundAllocation
    <2>13. ASSUME NEW a \in 1..Len(g.allocs), NEW b \in 1..(a - 1) PROVE Apart(g, a, b)
      <3>1. Len(h.allocs) \in Nat
        BY <1>1, LenProperties
      <3>2. CASE a <= Len(h.allocs)
        <4>1. a \in 1..Len(h.allocs) /\ b \in 1..Len(h.allocs)
          BY <2>7, <3>1, <3>2
        <4>2. g.allocs[a] = h.allocs[a] /\ g.allocs[b] = h.allocs[b]
          BY <2>7, <4>1
        <4>3. Apart(h, a, b)
          BY <4>1 DEF Sound
        <4> QED
          BY <4>2, <4>3 DEF Apart
      <3>3. CASE a = Len(h.allocs) + 1
        <4>1. b \in 1..Len(h.allocs) /\ g.allocs[b] = h.allocs[b] /\ g.allocs[a] = e
          BY <2>7, <3>1, <3>3
        <4>2. SoundAllocation(h, b)
          BY <4>1 DEF Sound
        <4>3. e.node = n /\ e.at = at
          BY DEF e
        <4>4. ASSUME h.allocs[b].node = n
              PROVE  h.allocs[b].at + Word + h.allocs[b].size <= at
          BY <4>2, <4>4 DEF SoundAllocation
        <4>5. g.allocs[a].node = n /\ g.allocs[a].at = at
          BY <4>1, <4>3
        <4> HIDE DEF g, at, n
        <4> QED
          BY <4>1, <4>4, <4>5 DEF Apart
      <3> QED
        BY <2>7, <3>1, <3>2, <3>3
    <2> HIDE DEF g
    <2>14. \A a \in 1..Len(g.allocs) : SoundAllocation(g, a)
      BY <1>1, LenProperties, <2>7, <2>11, <2>12
    <2>15. Sound(g)
      BY <1>2, <2>6, <2>8, <2>9, <2>13, <2>14 DEF Sound
    <2> QED
      BY <2>7, <2>15 DEF g
  <1> QED
    BY <1>5, <1>6

(* arena_alloc, whichever way it goes, adds one allocation at most.        *)
LEMMA AllocSound ==
  ASSUME NEW h, Sound(h), h.status = "running", NEW s \in Sizes
  PROVE  /\ Sound(AfterAlloc(h, s))
         /\ Len(AfterAlloc(h, s).allocs) \in {Len(h.allocs), Len(h.allocs) + 1}
         /\ \A a \in 1..Len(h.allocs) : AfterAlloc(h, s).allocs[a] = h.allocs[a]
  <1>1. CASE s = 0
    BY <1>1 DEF AfterAlloc
  <1>2. CASE s # 0 /\ ~IsFull(s)
    <2>1. AfterAlloc(h, s) = Place(h, s)
      BY <1>2 DEF AfterAlloc
    <2> QED
      BY <2>1, PlaceSound
  <1>3. CASE s # 0 /\ IsFull(s) /\ (h.nodes[1].snodes >= MaxNodes \/ Len(h.nodes) >= HeapNodes)
    BY <1>3 DEF AfterAlloc
  <1>4. CASE s # 0 /\ IsFull(s) /\ ~(h.nodes[1].snodes >= MaxNodes \/ Len(h.nodes) >= HeapNodes)
    <2>1. AfterAlloc(h, s) = Grow(h)
      BY <1>4 DEF AfterAlloc
    <2>2. Len(h.nodes) < HeapNodes
      <3>1. h.nodes \in Seq(Node) /\ Len(h.nodes) \in Nat
        BY LenProperties DEF Sound, Heap
      <3> QED
        BY <1>4, <3>1, ArenaAssumption
    <2> QED
      BY <2>1, <2>2, GrowSound
  <1> QED
    BY <1>1, <1>2, <1>3, <1>4

(* An operation that leaves the pointers and the extents of allocations as *)
(* they are, and adds no bits, leaves a sound heap.                        *)
LEMMA ShrinkSound ==
  ASSUME NEW h, Sound(h), NEW g, g \in Heap,
         Len(g.nodes) = Len(h.nodes), Len(g.allocs) = Len(h.allocs),
         g.status = "running" => h.status = "running",
         \A n \in 1..Len(h.nodes) : /\ g.nodes[n].ptr = h.nodes[n].ptr
                                    /\ g.nodes[n].bits \subseteq h.nodes[n].bits,
         \A a \in 1..Len(h.allocs) : /\ g.allocs[a].node = h.allocs[a].node
                                     /\ g.allocs[a].at = h.allocs[a].at
                                     /\ g.allocs[a].size = h.allocs[a].size
  PROVE  Sound(g)
  <1>1. ASSUME NEW n \in 1..Len(g.nodes) PROVE SoundNode(g.nodes[n])
    BY DEF Sound, SoundNode
  <1>2. ASSUME NEW a \in 1..Len(g.allocs) PROVE SoundAllocation(g, a)
    <2>1. SoundAllocation(h, a) /\ h.allocs[a] \in Allocation
      BY ElementOfSeq DEF Sound, Heap
    <2>2. h.allocs[a].node \in 1..Len(h.nodes)
      <3>1. Len(h.nodes) \in Nat
        BY LenProperties DEF Sound, Heap
      <3> QED
        BY <2>1, <3>1 DEF SoundAllocation, Allocation
    <2> QED
      BY <2>1, <2>2 DEF SoundAllocation
  <1>3. ASSUME NEW a \in 1..Len(g.allocs), NEW b \in 1..(a - 1) PROVE Apart(g, a, b)
    <2>1. a \in 1..Len(h.allocs) /\ b \in 1..Len(h.allocs)
      <3>1. Len(h.allocs) \in Nat
        BY LenProperties DEF Sound, Heap
      <3> QED
        BY <3>1
    <2>2. Apart(h, a, b)
      BY <2>1 DEF Sound
    <2> QED
      BY <2>1, <2>2 DEF Apart
  <1> QED
    BY <1>1, <1>2, <1>3 DEF Sound

(* arena_free moves no pointer and sets no bit.                            *)
LEMMA FreeSound ==
  ASSUME NEW h, Sound(h), NEW a \in 1..Len(h.allocs)
  PROVE  /\ Sound(AfterFree(h, a))
         /\ Len(AfterFree(h, a).allocs) = Len(h.allocs)
  <1>1. CASE ~Freeable(h, a)
    BY <1>1 DEF AfterFree
  <1>2. CASE Freeable(h, a)
    <2> DEFINE x       == h.allocs[a]
               cleared == Blocks(x.at, Advance(x.size))
               g       == AfterFree(h, a)
               y       == [h.nodes[1] EXCEPT !.bits = @ \ cleared]
               z       == [x EXCEPT !.live = FALSE]
    <2>1. /\ g.nodes = [h.nodes EXCEPT ![1] = y]
          /\ g.allocs = [h.allocs EXCEPT ![a] = z]
          /\ g.status = IF cleared \subseteq 0..(SBitmap - 1) THEN h.status ELSE "corrupt"
          /\ g = [nodes |-> g.nodes, allocs |-> g.allocs, status |-> g.status]
      BY <1>2 DEF AfterFree
    <2>2. h \in Heap /\ h.nodes \in Seq(Node) /\ h.allocs \in Seq(Allocation)
      BY DEF Sound, Heap
    <2>3. /\ x \in Allocation /\ z \in Allocation
          /\ z.node = x.node /\ z.at = x.at /\ z.size = x.size
      <3>1. x \in Allocation
        BY <2>2, ElementOfSeq
      <3> QED
        BY <3>1 DEF Allocation
    <2>4. 1 \in 1..Len(h.nodes)
      <3>1. x.node = 1 /\ x.node <= Len(h.nodes)
        BY <1>2 DEF Freeable, Sound, SoundAllocation
      <3>2. Len(h.nodes) \in Nat
        BY <2>2, LenProperties
      <3> QED
        BY <3>1, <3>2
    <2>5. y \in Node /\ y.ptr = h.nodes[1].ptr /\ y.bits \subseteq h.nodes[1].bits
      <3>1. h.nodes[1] \in Node
        BY <2>2, <2>4, ElementOfSeq
      <3> HIDE DEF cleared
      <3> QED
        BY <3>1 DEF Node
    <2> HIDE DEF y, z
    <2>6. /\ g.nodes \in Seq(Node) /\ Len(g.nodes) = Len(h.nodes) /\ g.nodes[1] = y
          /\ \A n \in 1..Len(h.nodes) : n # 1 => g.nodes[n] = h.nodes[n]
      BY <2>1, <2>2, <2>4, <2>5, ExceptSeq
    <2>7. /\ g.allocs \in Seq(Allocation) /\ Len(g.allocs) = Len(h.allocs) /\ g.allocs[a] = z
          /\ \A b \in 1..Len(h.allocs) : b # a => g.allocs[b] = h.allocs[b]
      BY <2>1, <2>2, <2>3, ExceptSeq
    <2>8. g \in Heap /\ (g.status = "running" => h.status = "running")
      <3>1. g.status \in {h.status, "corrupt"} /\ h.status \in {"running", "aborted", "corrupt", "destroyed"}
        BY <2>1, <2>2 DEF Heap
      <3> HIDE DEF g
      <3> QED
        BY <2>1, <2>6, <2>7, <3>1 DEF Heap
    <2>9. \A n \in 1..Len(h.nodes) : /\ g.nodes[n].ptr = h.nodes[n].ptr
                                     /\ g.nodes[n].bits \subseteq h.nodes[n].bits
      <3> HIDE DEF g
      <3> QED
        BY <2>5, <2>6
    <2>10. \A b \in 1..Len(h.allocs) : /\ g.allocs[b].node = h.allocs[b].node
                                       /\ g.allocs[b].at = h.allocs[b].at
                                       /\ g.allocs[b].size = h.allocs[b].size
      <3> HIDE DEF g
      <3> QED
        BY <2>3, <2>7
    <2>11. Sound(g)
      <3> HIDE DEF g
      <3> QED
        BY <2>6, <2>7, <2>8, <2>9, <2>10, ShrinkSound
    <2> QED
      BY <2>7, <2>11
  <1> QED
    BY <1>1, <1>2

(* An allocation nobody holds still has its bytes.                         *)
LEMMA DropSound ==
  ASSUME NEW h, Sound(h), NEW a \in 1..Len(h.allocs)
  PROVE  Sound(Dropped(h, a))
  <1> DEFINE z == [h.allocs[a] EXCEPT !.held = FALSE]
             g == Dropped(h, a)
  <1>1. h \in Heap /\ h.allocs \in Seq(Allocation)
    BY DEF Sound, Heap
  <1>2. /\ g.nodes = h.nodes /\ g.status = h.status /\ g.allocs = [h.allocs EXCEPT ![a] = z]
        /\ g = [nodes |-> g.nodes, allocs |-> g.allocs, status |-> g.status]
    BY DEF Dropped
  <1>3. /\ z \in Allocation /\ z.node = h.allocs[a].node
        /\ z.at = h.allocs[a].at /\ z.size = h.allocs[a].size
    <2>1. h.allocs[a] \in Allocation
      BY <1>1, ElementOfSeq
    <2> QED
      BY <2>1 DEF Allocation
  <1> HIDE DEF z
  <1>4. /\ g.allocs \in Seq(Allocation) /\ Len(g.allocs) = Len(h.allocs) /\ g.allocs[a] = z
        /\ \A b \in 1..Len(h.allocs) : b # a => g.allocs[b] = h.allocs[b]
    BY <1>1, <1>2, <1>3, ExceptSeq
  <1> HIDE DEF g
  <1>5. g \in Heap
    BY <1>1, <1>2, <1>4 DEF Heap
  <1>6. \A b \in 1..Len(h.allocs) : /\ g.allocs[b].node = h.allocs[b].node
                                    /\ g.allocs[b].at = h.allocs[b].at
                                    /\ g.allocs[b].size = h.allocs[b].size
    BY <1>3, <1>4
  <1>7. Sound(g)
    BY <1>2, <1>4, <1>5, <1>6, ShrinkSound
  <1> QED
    BY <1>7 DEF g

(* arena_realloc is an allocation and, at most, one free.                  *)
LEMMA ReallocSound ==
  ASSUME NEW h, Sound(h), h.status = "running", NEW a \in 1..Len(h.allocs), NEW s \in Sizes
  PROVE  Sound(AfterRealloc(h, a, s))
  <1> DEFINE new == AfterAlloc(h, s)
             b   == Len(new.allocs)
             old == IF h.allocs[a].live THEN h.allocs[a].size ELSE 0
             r   == AfterRealloc(h, a, s)
  <1>1. /\ Sound(new) /\ b \in {Len(h.allocs), Len(h.allocs) + 1}
        /\ \A c \in 1..Len(h.allocs) : new.allocs[c] = h.allocs[c]
    BY AllocSound
  <1>2. Len(h.allocs) \in Nat
    BY LenProperties DEF Sound, Heap
  <1>3. a \in 1..b /\ (b # Len(h.allocs) => b \in 1..b)
    BY <1>1, <1>2
  <1>4. \/ r = h
        \/ r = new
        \/ b # Len(h.allocs) /\ r = Dropped(new, b)
        \/ r = AfterFree(new, a)
        \/ b # Len(h.allocs) /\ r = Dropped(AfterFree(new, b), b)
    BY DEF AfterRealloc
  <1> HIDE DEF new, r
  <1>5. ASSUME r = h \/ r = new PROVE Sound(r)
    BY <1>1, <1>5
  <1>6. ASSUME b # Len(h.allocs) /\ r = Dropped(new, b) PROVE Sound(r)
    BY <1>1, <1>3, <1>6, DropSound
  <1>7. ASSUME r = AfterFree(new, a) PROVE Sound(r)
    BY <1>1, <1>3, <1>7, FreeSound
  <1>8. ASSUME b # Len(h.allocs) /\ r = Dropped(AfterFree(new, b), b) PROVE Sound(r)
    <2>1. Sound(AfterFree(new, b)) /\ b \in 1..Len(AfterFree(new, b).allocs)
      BY <1>1, <1>3, <1>8, FreeSound
    <2> QED
      BY <1>8, <2>1, DropSound
  <1> QED
    BY <1>4, <1>5, <1>6, <1>7, <1>8 DEF r

(* arena_reset empties the bitmap of the first arena.                      *)
LEMMA ResetSound ==
  ASSUME NEW h, Sound(h), h.status = "running"
  PROVE  Sound(AfterReset(h))
  <1> DEFINE g    == AfterReset(h)
             y    == [h.nodes[1] EXCEPT !.bits = {}]
             x(a) == h.allocs[a]
             z(a) == IF x(a).node = 1 THEN [x(a) EXCEPT !.live = FALSE] ELSE x(a)
             zs   == [a \in DOMAIN h.allocs |-> z(a)]
  <1>1. h \in Heap /\ h.nodes \in Seq(Node) /\ h.allocs \in Seq(Allocation)
    BY DEF Sound, Heap
  <1>2. /\ g.nodes = [h.nodes EXCEPT ![1] = y] /\ g.allocs = zs /\ g.status = h.status
        /\ g = [nodes |-> g.nodes, allocs |-> g.allocs, status |-> g.status]
    BY DEF AfterReset
  <1>3. Len(h.nodes) \in Nat /\ Len(h.allocs) \in Nat /\ DOMAIN h.allocs = 1..Len(h.allocs)
    BY <1>1, LenProperties
  <1>4. 1 \in 1..Len(h.nodes)
    BY <1>3 DEF Sound
  <1>5. y \in Node /\ y.ptr = h.nodes[1].ptr /\ y.bits \subseteq h.nodes[1].bits
    <2>1. h.nodes[1] \in Node
      BY <1>1, <1>4, ElementOfSeq
    <2> QED
      BY <2>1 DEF Node
  <1>6. ASSUME NEW a \in 1..Len(h.allocs)
        PROVE  z(a) \in Allocation /\ z(a).node = x(a).node /\ z(a).at = x(a).at /\ z(a).size = x(a).size
    <2>1. x(a) \in Allocation
      BY <1>1, ElementOfSeq
    <2> QED
      BY <2>1 DEF Allocation
  <1> HIDE DEF y, z
  <1>7. /\ g.nodes \in Seq(Node) /\ Len(g.nodes) = Len(h.nodes) /\ g.nodes[1] = y
        /\ \A n \in 1..Len(h.nodes) : n # 1 => g.nodes[n] = h.nodes[n]
    BY <1>1, <1>2, <1>4, <1>5, ExceptSeq
  <1>8. zs \in Seq(Allocation) /\ Len(zs) = Len(h.allocs)
    <2>1. zs \in [1..Len(h.allocs) -> Allocation]
      BY <1>3, <1>6
    <2>2. DOMAIN zs = 1..Len(h.allocs)
      BY <1>3
    <2> HIDE DEF zs
    <2>3. zs \in Seq(Allocation)
      BY <1>3, <2>1, SeqDef
    <2> QED
      BY <1>3, <2>2, <2>3, LenProperties
  <1>9. \A a \in 1..Len(h.allocs) : /\ g.allocs[a].node = h.allocs[a].node
                                    /\ g.allocs[a].at = h.allocs[a].at
                                    /\ g.allocs[a].size = h.allocs[a].size
    <2>1. \A a \in 1..Len(h.allocs) : g.allocs[a] = z(a)
      BY <1>2, <1>3
    <2> HIDE DEF g
    <2> QED
      BY <1>6, <2>1
  <1> HIDE DEF g, zs
  <1>10. g \in Heap /\ Len(g.allocs) = Len(h.allocs)
    BY <1>1, <1>2, <1>7, <1>8 DEF Heap
  <1>11. \A n \in 1..Len(h.nodes) : /\ g.nodes[n].ptr = h.nodes[n].ptr
                                    /\ g.nodes[n].bits \subseteq h.nodes[n].bits
    BY <1>5, <1>7
  <1>12. Sound(g)
    BY <1>2, <1>7, <1>9, <1>10, <1>11, ShrinkSound
  <1> QED
    BY <1>12 DEF g

-----------------------------------------------------------------------------
(* The invariant, by induction on the operations of the library.           *)
THEOREM InitSound == Init => IInv
  <1> SUFFICES ASSUME Init PROVE Sound(heap)
    BY DEF IInv
  <1>1. /\ heap.nodes = <<FreshNode>> /\ heap.allocs = <<>> /\ heap.status = "running"
        /\ heap = [nodes |-> heap.nodes, allocs |-> heap.allocs, status |-> heap.status]
    BY DEF Init, heap
  <1>2. /\ <<FreshNode>> \in Seq(Node) /\ Len(<<FreshNode>>) = 1 /\ <<FreshNode>>[1] = FreshNode
    BY FreshSound
  <1>3. Len(<<>>) = 0 /\ <<>> \in Seq(Allocation) /\ 1 <= HeapNodes
    BY ArenaAssumption
  <1> HIDE DEF heap
  <1>4. heap \in Heap
    BY <1>1, <1>2, <1>3 DEF Heap
  <1> QED
    BY <1>1, <1>2, <1>3, <1>4, FreshSound DEF Sound

(* Every operation of the library keeps the invariant.                     *)
THEOREM StepSound == IInv /\ [Next]_vars => IInv'
  <1> SUFFICES ASSUME Sound(heap), [Next]_vars PROVE Sound(heap')
    BY DEF IInv
  <1>1. ASSUME NEW h, Becomes(h), Sound(h) PROVE Sound(heap')
    <2>1. heap' = [nodes |-> h.nodes, allocs |-> h.allocs, status |-> h.status]
      BY <1>1 DEF Becomes, heap
    <2>2. h = [nodes |-> h.nodes, allocs |-> h.allocs, status |-> h.status]
      BY <1>1 DEF Sound, Heap
    <2> QED
      BY <1>1, <2>1, <2>2
  <1>2. heap.status = status /\ Held \subseteq 1..Len(heap.allocs)
    <2>1. heap.status = status /\ heap.allocs = allocs
      BY DEF heap
    <2>2. DOMAIN allocs = 1..Len(allocs)
      <3>1. allocs \in Seq(Allocation)
        BY <2>1 DEF Sound, Heap
      <3> QED
        BY <3>1, LenProperties
    <2> QED
      BY <2>1, <2>2 DEF Held
  <1>3. ASSUME NEW s \in Sizes, Alloc(s) PROVE Sound(heap')
    BY <1>1, <1>2, <1>3, AllocSound DEF Alloc, Running
  <1>4. ASSUME NEW a \in Held, Free(a) PROVE Sound(heap')
    BY <1>1, <1>2, <1>4, FreeSound DEF Free, Running
  <1>5. ASSUME NEW a \in Held, NEW s \in Sizes, Realloc(a, s) PROVE Sound(heap')
    BY <1>1, <1>2, <1>5, ReallocSound DEF Realloc, Running
  <1>6. ASSUME Reset PROVE Sound(heap')
    BY <1>1, <1>2, <1>6, ResetSound DEF Reset, Running
  <1>7. ASSUME Destroy PROVE Sound(heap')
    <2>1. heap' = [nodes |-> <<>>, allocs |-> <<>>, status |-> "destroyed"]
      BY <1>7 DEF Destroy, heap
    <2>2. /\ heap'.nodes = <<>> /\ heap'.allocs = <<>> /\ heap'.status = "destroyed"
          /\ heap' \in Heap
      BY <2>1 DEF Heap
    <2>3. 0 <= HeapNodes
      BY ArenaAssumption
    <2> HIDE DEF heap
    <2> QED
      BY <2>2, <2>3 DEF Sound
  <1>8. ASSUME UNCHANGED vars PROVE Sound(heap')
    <2>1. heap' = heap
      BY <1>8 DEF vars, heap
    <2> QED
      BY <2>1
  <1> QED
    BY <1>3, <1>4, <1>5, <1>6, <1>7, <1>8 DEF Next, InterpreterNext

(* The inductive invariant holds of every use of the library.              *)
THEOREM Invariance == Spec => []IInv
  BY InitSound, StepSound, PTL DEF Spec

(* Type correctness of the allocator.                                      *)
THEOREM TypeCorrect == Spec => []TypeOK
  <1>1. IInv => TypeOK
    BY DEF IInv, Sound, heap, Heap, TypeOK
  <1> QED
    BY <1>1, Invariance, PTL

(* Whatever clients allocate, free, reallocate and reset, no byte belongs  *)
(* to two allocations and none lies outside the arena: for every geometry, *)
(* aligned or not.                                                         *)
THEOREM AllocationsSeparated == Spec => []Separated
  <1>1. IInv => Separated
    <2> SUFFICES ASSUME Sound(heap), heap.allocs = allocs PROVE Separated
      BY DEF IInv, heap
    <2>1. ASSUME NEW a \in 1..Len(allocs) PROVE Upto(a) < SArena
      <3>1. SoundAllocation(heap, a)
        BY DEF Sound
      <3> QED
        BY <3>1 DEF SoundAllocation, Upto
    <2>2. ASSUME NEW a \in 1..Len(allocs), NEW b \in 1..(a - 1), allocs[a].node = allocs[b].node
          PROVE  Upto(b) <= From(a)
      <3>1. Apart(heap, a, b)
        BY DEF Sound
      <3> QED
        BY <2>2, <3>1 DEF Apart, Upto, From
    <2> QED
      BY <2>1, <2>2 DEF Separated
  <1> QED
    BY <1>1, Invariance, PTL

(* The bitmap is as large as it must be: no bit is set behind it, although *)
(* blocks are counted in steps of SBlock + Word bytes and rounded up.      *)
THEOREM BitmapSufficient == Spec => []BitsInBitmap
  <1>1. IInv => BitsInBitmap
    BY DEF IInv, Sound, SoundNode, heap, BitsInBitmap
  <1> QED
    BY <1>1, Invariance, PTL

(* The header written ahead of the assertion stays inside the memory, for  *)
(* requests that leave room for it in the reserve.                         *)
THEOREM NextHeaderInside == Spec => []HeaderInside
  <1>1. IInv => HeaderInside
    BY DEF IInv, Sound, SoundNode, heap, HeaderInside
  <1> QED
    BY <1>1, Invariance, PTL

-----------------------------------------------------------------------------
(* The bitmap of the heap h.  A block is in use when a live allocation of  *)
(* the arena has it.                                                       *)
Uses(x, k) == k \in Blocks(x.at, BytesToBlocks(x.size))

InUse(h, n, k) == \E a \in 1..Len(h.allocs) : h.allocs[a].node = n /\ h.allocs[a].live /\ Uses(h.allocs[a], k)

AllLive(h) == \A a \in 1..Len(h.allocs) : h.allocs[a].live

NoMore(h) == \A n \in 1..Len(h.nodes) : \A k \in h.nodes[n].bits : InUse(h, n, k)
NoLess(h) == \A n \in 1..Len(h.nodes) : \A k \in Nat : InUse(h, n, k) => k \in h.nodes[n].bits

Exact(h) ==
  /\ h.status = "corrupt" => Aligned
  /\ NoMore(h)
  /\ ~Aligned \/ AllLive(h) => NoLess(h)

(* The elements of a sound heap.                                           *)
LEMMA Parts ==
  ASSUME NEW h, Sound(h)
  PROVE  /\ h \in Heap /\ h.nodes \in Seq(Node) /\ h.allocs \in Seq(Allocation)
         /\ Len(h.nodes) \in Nat /\ Len(h.allocs) \in Nat
         /\ \A n \in 1..Len(h.nodes) : /\ h.nodes[n] \in Node /\ h.nodes[n].ptr \in Nat
                                       /\ h.nodes[n].bits \subseteq 0..(SBitmap - 1)
         /\ \A a \in 1..Len(h.allocs) :
              /\ h.allocs[a] \in Allocation /\ h.allocs[a].node \in 1..Len(h.nodes)
              /\ h.allocs[a].at \in Nat /\ h.allocs[a].size \in Nat /\ h.allocs[a].live \in BOOLEAN
  <1>1. /\ h \in Heap /\ h.nodes \in Seq(Node) /\ h.allocs \in Seq(Allocation)
        /\ Len(h.nodes) \in Nat /\ Len(h.allocs) \in Nat
    BY LenProperties DEF Sound, Heap
  <1>2. ASSUME NEW n \in 1..Len(h.nodes)
        PROVE  h.nodes[n] \in Node /\ h.nodes[n].ptr \in Nat /\ h.nodes[n].bits \subseteq 0..(SBitmap - 1)
    <2>1. h.nodes[n] \in Node
      BY <1>1, ElementOfSeq
    <2>2. SoundNode(h.nodes[n])
      BY DEF Sound
    <2> QED
      BY <2>1, <2>2 DEF Node, SoundNode
  <1>3. ASSUME NEW a \in 1..Len(h.allocs)
        PROVE  /\ h.allocs[a] \in Allocation /\ h.allocs[a].node \in 1..Len(h.nodes)
               /\ h.allocs[a].at \in Nat /\ h.allocs[a].size \in Nat /\ h.allocs[a].live \in BOOLEAN
    <2>1. h.allocs[a] \in Allocation
      BY <1>1, ElementOfSeq
    <2>2. SoundAllocation(h, a)
      BY DEF Sound
    <2> QED
      BY <1>1, <2>1, <2>2 DEF Allocation, SoundAllocation
  <1> QED
    BY <1>1, <1>2, <1>3

(* Without blocks the bytes of an allocation, header included, are its     *)
(* blocks, and arena_free clears exactly those; with blocks it clears at   *)
(* least those.                                                            *)
LEMMA ClearedBlocks ==
  ASSUME NEW at \in Nat, NEW s \in Nat
  PROVE  /\ Blocks(at, BytesToBlocks(s)) \subseteq Blocks(at, Advance(s))
         /\ Blocks(at, BytesToBlocks(s)) \subseteq Nat
         /\ ~Aligned => /\ Blocks(at, Advance(s)) = Blocks(at, BytesToBlocks(s))
                        /\ Blocks(at, BytesToBlocks(s)) = at..(at + s + Word - 1)
  <1>1. /\ Stride \in Nat \ {0} /\ Word \in Nat \ {0}
        /\ BytesToBlocks(s) \in Nat /\ Advance(s) \in Nat /\ Advance(s) = Stride * BytesToBlocks(s)
    BY Blocked, Geometry
  <1>2. Index(at) \in Nat
    BY <1>1, Division DEF Index
  <1>3. BytesToBlocks(s) <= Advance(s)
    BY <1>1
  <1>4. Blocks(at, BytesToBlocks(s)) \subseteq Blocks(at, Advance(s)) /\ Blocks(at, BytesToBlocks(s)) \subseteq Nat
    BY <1>1, <1>2, <1>3 DEF Blocks
  <1>5. ASSUME ~Aligned
        PROVE  /\ Blocks(at, Advance(s)) = Blocks(at, BytesToBlocks(s))
               /\ Blocks(at, BytesToBlocks(s)) = at..(at + s + Word - 1)
    <2>1. Stride = 1 /\ BytesToBlocks(s) = s + Word
      BY <1>5 DEF Stride, BytesToBlocks
    <2>2. Advance(s) = BytesToBlocks(s)
      BY <1>1, <2>1
    <2>3. Index(at) = at
      <3>1. (1 * at) \div 1 = at
        BY Multiple
      <3> QED
        BY <2>1, <3>1 DEF Index
    <2>4. at + (s + Word) - 1 = at + s + Word - 1
      BY <1>1
    <2> QED
      BY <2>1, <2>2, <2>3, <2>4 DEF Blocks
  <1> QED
    BY <1>4, <1>5

(* So without blocks no two allocations of an arena have one in common.    *)
LEMMA NoneShared ==
  ASSUME NEW h, Sound(h), ~Aligned, NEW a \in 1..Len(h.allocs), NEW b \in 1..Len(h.allocs), a # b,
         h.allocs[a].node = h.allocs[b].node, NEW k, Uses(h.allocs[a], k)
  PROVE  ~Uses(h.allocs[b], k)
  <1>1. ASSUME NEW c \in 1..Len(h.allocs), NEW d \in 1..(c - 1),
               h.allocs[c].node = h.allocs[d].node, Uses(h.allocs[c], k), Uses(h.allocs[d], k)
        PROVE  FALSE
    <2>1. Len(h.allocs) \in Nat /\ d \in 1..Len(h.allocs) /\ Word \in Nat
      BY Parts, Geometry
    <2>2. h.allocs[c].at \in Nat /\ h.allocs[c].size \in Nat /\ h.allocs[d].at \in Nat /\ h.allocs[d].size \in Nat
      BY <2>1, Parts
    <2>3. h.allocs[d].at + Word + h.allocs[d].size <= h.allocs[c].at
      BY <1>1 DEF Sound, Apart
    <2>4. k \in h.allocs[c].at..(h.allocs[c].at + h.allocs[c].size + Word - 1)
      BY <1>1, <2>2, ClearedBlocks DEF Uses
    <2>5. k \in h.allocs[d].at..(h.allocs[d].at + h.allocs[d].size + Word - 1)
      BY <1>1, <2>2, ClearedBlocks DEF Uses
    <2>6. PICK i \in Nat, j \in Nat, l \in Nat :
            i = h.allocs[c].at /\ j = h.allocs[d].at /\ l = h.allocs[d].size
      BY <2>2
    <2>7. k \in Int /\ k >= i /\ k <= j + l + Word - 1 /\ j + Word + l <= i
      BY <2>1, <2>2, <2>3, <2>4, <2>5, <2>6
    <2> QED
      BY <2>1, <2>7
  <1>2. a \in 1..(b - 1) \/ b \in 1..(a - 1)
    BY Parts
  <1> QED
    BY <1>1, <1>2

(* A heap with the same allocations, and no bits but those there were.     *)
LEMMA SameExact ==
  ASSUME NEW h, Sound(h), Exact(h), NEW g, Sound(g), g.status = "corrupt" => h.status = "corrupt",
         Len(g.allocs) = Len(h.allocs), Len(g.nodes) >= Len(h.nodes),
         \A a \in 1..Len(h.allocs) : /\ g.allocs[a].node = h.allocs[a].node
                                     /\ g.allocs[a].at = h.allocs[a].at
                                     /\ g.allocs[a].size = h.allocs[a].size
                                     /\ g.allocs[a].live = h.allocs[a].live,
         \A n \in 1..Len(h.nodes) : g.nodes[n].bits = h.nodes[n].bits,
         \A n \in (Len(h.nodes) + 1)..Len(g.nodes) : g.nodes[n].bits = {}
  PROVE  Exact(g)
  <1>1. \A n, k : InUse(g, n, k) <=> InUse(h, n, k)
    BY DEF InUse, Uses
  <1>2. AllLive(g) <=> AllLive(h)
    BY DEF AllLive
  <1>3. \A n \in 1..Len(g.nodes) : n \in 1..Len(h.nodes) \/ n \in (Len(h.nodes) + 1)..Len(g.nodes)
    BY Parts
  <1>4. NoMore(g)
    BY <1>1, <1>3 DEF Exact, NoMore
  <1>5. ASSUME NoLess(h) PROVE NoLess(g)
    <2>1. \A n \in (Len(h.nodes) + 1)..Len(g.nodes) : \A k : ~InUse(h, n, k)
      BY Parts DEF InUse
    <2> QED
      BY <1>1, <1>3, <1>5, <2>1 DEF NoLess
  <1> QED
    BY <1>2, <1>4, <1>5 DEF Exact

(* Growing adds arenas without bits.                                       *)
LEMMA GrowExact ==
  ASSUME NEW h, Sound(h), Exact(h), h.status = "running", Len(h.nodes) < HeapNodes
  PROVE  Exact(Grow(h))
  <1> DEFINE n    == Len(h.nodes)
             x(m) == IF m <= n THEN h.nodes[m] ELSE FreshNode
             y(m) == IF m = 1 \/ (m > n /\ m < HeapNodes)
                     THEN [x(m) EXCEPT !.snodes = @ + 1] ELSE x(m)
  <1>1. PICK g : g = Grow(h) /\ Sound(g) /\ g.allocs = h.allocs /\ g.status = "running"
    BY GrowSound
  <1>2. n \in Nat /\ HeapNodes \in Nat /\ h \in Heap
    BY Parts, ArenaAssumption
  <1>3. ASSUME NEW m \in 1..HeapNodes PROVE y(m).bits = x(m).bits
    <2>1. x(m) \in Node
      BY <1>2, Parts, FreshSound
    <2> HIDE DEF x
    <2> QED
      BY <2>1 DEF Node
  <1>4. g.nodes = [m \in 1..HeapNodes |-> y(m)]
    BY <1>1, <1>2 DEF Grow, Heap
  <1> HIDE DEF y
  <1>5. Len(g.nodes) = HeapNodes
    <2>1. DOMAIN g.nodes = 1..HeapNodes /\ g.nodes \in Seq(Node)
      BY <1>1, <1>4, Parts
    <2> QED
      BY <1>2, <2>1, LenProperties
  <1>6. \A m \in 1..HeapNodes : g.nodes[m].bits = x(m).bits
    BY <1>3, <1>4
  <1>7. \A m \in 1..n : g.nodes[m].bits = h.nodes[m].bits
    BY <1>2, <1>6
  <1>8. \A m \in (n + 1)..Len(g.nodes) : g.nodes[m].bits = {}
    BY <1>2, <1>5, <1>6 DEF FreshNode
  <1>9. Exact(g)
    BY <1>1, <1>2, <1>5, <1>7, <1>8, SameExact
  <1> QED
    BY <1>1, <1>9

(* The bits of an allocation are set with it.                              *)
LEMMA PlaceExact ==
  ASSUME NEW h, Sound(h), Exact(h), h.status = "running", NEW s \in Sizes
  PROVE  Exact(Place(h, s))
  <1> DEFINE n  == Len(h.nodes)
             x  == h.nodes[n]
             y  == Taken(x, s)
             e  == [node |-> n, at |-> x.ptr, size |-> s, live |-> TRUE, held |-> TRUE]
  <1>1. PICK g : g = Place(h, s) /\ Sound(g)
    BY PlaceSound
  <1>2. /\ n \in Nat /\ n >= 1 /\ n \in 1..n /\ x \in Node /\ s \in Nat /\ h \in Heap
        /\ h.nodes \in Seq(Node) /\ h.allocs \in Seq(Allocation) /\ Len(h.allocs) \in Nat
    BY Parts, ArenaAssumption DEF Sound
  <1>3. CASE ~PtrInArena(x.ptr, s)
    <2>1. g.nodes = h.nodes /\ g.allocs = h.allocs /\ g.status = "aborted"
      BY <1>1, <1>2, <1>3 DEF Place, Heap
    <2>2. \A m \in (n + 1)..n : FALSE
      BY <1>2
    <2>3. Exact(g)
      BY <1>1, <1>2, <2>1, <2>2, SameExact
    <2> QED
      BY <1>1, <2>3
  <1>4. CASE PtrInArena(x.ptr, s)
    <2>1. g.nodes = [h.nodes EXCEPT ![n] = y] /\ g.allocs = Append(h.allocs, e) /\ g.status = "running"
      BY <1>1, <1>4 DEF Place
    <2>2. PICK B : B = Blocks(x.ptr, BytesToBlocks(s))
      OBVIOUS
    <2>3. y.bits = x.bits \cup B
      BY <1>2, <2>2 DEF Taken, Node
    <2>4. x.ptr \in Nat
      BY <1>2 DEF Node
    <2>5. PICK z : z = e /\ z \in Allocation /\ z.node = n /\ z.live = TRUE /\ \A k : Uses(z, k) <=> k \in B
      <3>1. e \in Allocation
        BY <1>2, <2>4, ArenaAssumption DEF Allocation, Sound
      <3> QED
        BY <2>2, <3>1 DEF Uses
    <2> HIDE DEF y, e
    <2>6. /\ Len(g.nodes) = n /\ g.nodes[n].bits = x.bits \cup B
          /\ \A m \in 1..n : m # n => g.nodes[m].bits = h.nodes[m].bits
      BY <1>2, <2>1, <2>3
    <2>7. /\ Len(g.allocs) = Len(h.allocs) + 1 /\ g.allocs[Len(h.allocs) + 1] = z
          /\ \A a \in 1..Len(h.allocs) : g.allocs[a] = h.allocs[a]
      BY <1>2, <2>1, <2>5
    <2>8. \A a \in 1..Len(g.allocs) : a \in 1..Len(h.allocs) \/ a = Len(h.allocs) + 1
      BY <1>2, <2>7
    <2>9. Len(h.allocs) + 1 \in 1..Len(g.allocs) /\ \A a \in 1..Len(h.allocs) : a \in 1..Len(g.allocs)
      BY <1>2, <2>7
    <2>10. \A m, k : InUse(g, m, k) <=> InUse(h, m, k) \/ (m = n /\ k \in B)
      BY <2>5, <2>7, <2>8, <2>9 DEF InUse
    <2>11. AllLive(g) <=> AllLive(h)
      BY <2>5, <2>7, <2>8, <2>9 DEF AllLive
    <2>12. NoMore(g)
      BY <1>2, <2>6, <2>10 DEF Exact, NoMore
    <2>13. NoLess(h) => NoLess(g)
      BY <1>2, <2>6, <2>10 DEF NoLess
    <2> QED
      BY <1>1, <2>1, <2>11, <2>12, <2>13 DEF Exact
  <1> QED
    BY <1>3, <1>4

(* arena_alloc, whichever way it goes.                                     *)
LEMMA AllocExact ==
  ASSUME NEW h, Sound(h), Exact(h), h.status = "running", NEW s \in Sizes
  PROVE  Exact(AfterAlloc(h, s))
  <1>1. CASE s = 0
    BY <1>1 DEF AfterAlloc
  <1>2. CASE s # 0 /\ ~IsFull(s)
    <2>1. AfterAlloc(h, s) = Place(h, s)
      BY <1>2 DEF AfterAlloc
    <2> QED
      BY <2>1, PlaceExact
  <1>3. CASE s # 0 /\ IsFull(s) /\ (h.nodes[1].snodes >= MaxNodes \/ Len(h.nodes) >= HeapNodes)
    BY <1>3 DEF AfterAlloc
  <1>4. CASE s # 0 /\ IsFull(s) /\ ~(h.nodes[1].snodes >= MaxNodes \/ Len(h.nodes) >= HeapNodes)
    <2>1. AfterAlloc(h, s) = Grow(h)
      BY <1>4 DEF AfterAlloc
    <2>2. Len(h.nodes) < HeapNodes
      BY <1>4, Parts, ArenaAssumption
    <2> QED
      BY <2>1, <2>2, GrowExact
  <1> QED
    BY <1>1, <1>2, <1>3, <1>4

(* arena_free clears the bits of the allocation.  Without blocks it clears *)
(* no other ones; with blocks the others were exact only while all         *)
(* allocations were live, and now one is not.                              *)
LEMMA FreeExact ==
  ASSUME NEW h, Sound(h), Exact(h), NEW a \in 1..Len(h.allocs)
  PROVE  Exact(AfterFree(h, a))
  <1>1. CASE ~Freeable(h, a)
    BY <1>1 DEF AfterFree
  <1>2. CASE Freeable(h, a)
    <2> DEFINE x       == h.allocs[a]
               cleared == Blocks(x.at, Advance(x.size))
               y       == [h.nodes[1] EXCEPT !.bits = @ \ cleared]
               z       == [x EXCEPT !.live = FALSE]
    <2>1. PICK g : g = AfterFree(h, a) /\ Sound(g)
      BY FreeSound
    <2>2. /\ g.nodes = [h.nodes EXCEPT ![1] = y]
          /\ g.allocs = [h.allocs EXCEPT ![a] = z]
          /\ g.status = IF cleared \subseteq 0..(SBitmap - 1) THEN h.status ELSE "corrupt"
      BY <1>2, <2>1 DEF AfterFree
    <2>3. /\ h.nodes \in Seq(Node) /\ h.allocs \in Seq(Allocation)
          /\ x \in Allocation /\ x.node = 1 /\ x.live /\ 1 \in 1..Len(h.nodes) /\ h.nodes[1] \in Node
          /\ x.at \in Nat /\ x.size \in Nat
      BY <1>2, Parts DEF Freeable
    <2>4. PICK C : C = cleared
      OBVIOUS
    <2>5. y.bits = h.nodes[1].bits \ C
      <3> HIDE DEF cleared
      <3> QED
        BY <2>3, <2>4 DEF Node
    <2>6. z.node = 1 /\ z.live = FALSE
      BY <2>3 DEF Allocation
    <2> HIDE DEF y, z
    <2>7. /\ Len(g.nodes) = Len(h.nodes) /\ g.nodes[1].bits = h.nodes[1].bits \ C
          /\ \A m \in 1..Len(h.nodes) : m # 1 => g.nodes[m].bits = h.nodes[m].bits
      BY <2>2, <2>3, <2>5
    <2>8. /\ Len(g.allocs) = Len(h.allocs) /\ g.allocs[a].node = 1 /\ g.allocs[a].live = FALSE
          /\ \A b \in 1..Len(h.allocs) : b # a => g.allocs[b] = h.allocs[b]
      BY <2>2, <2>3, <2>6
    <2>9. \A k : Uses(x, k) => k \in C /\ k \in Nat
      BY <2>3, <2>4, ClearedBlocks DEF Uses
    <2>10. ~Aligned => \A k \in C : Uses(x, k)
      BY <2>3, <2>4, ClearedBlocks DEF Uses
    <2>11. \A m, k : InUse(g, m, k) => InUse(h, m, k)
      BY <2>8 DEF InUse
    <2>12. \A m, k : InUse(h, m, k) => InUse(g, m, k) \/ (m = 1 /\ Uses(x, k))
      BY <2>3, <2>8 DEF InUse
    <2>13. NoMore(g)
      <3> SUFFICES ASSUME NEW m \in 1..Len(g.nodes), NEW k \in g.nodes[m].bits PROVE InUse(g, m, k)
        BY DEF NoMore
      <3>1. k \in h.nodes[m].bits /\ (m = 1 => k \notin C)
        BY <2>7
      <3>2. InUse(h, m, k)
        BY <2>7, <3>1 DEF Exact, NoMore
      <3> QED
        BY <2>9, <2>12, <3>1, <3>2
    <2>14. ASSUME ~Aligned PROVE NoLess(g)
      <3> SUFFICES ASSUME NEW m \in 1..Len(g.nodes), NEW k \in Nat, InUse(g, m, k)
                   PROVE  k \in g.nodes[m].bits
        BY DEF NoLess
      <3>1. k \in h.nodes[m].bits
        BY <2>7, <2>11, <2>14 DEF Exact, NoLess
      <3>2. CASE m # 1
        BY <2>7, <3>1, <3>2
      <3>3. CASE m = 1
        <4>1. PICK b \in 1..Len(h.allocs) :
                b # a /\ h.allocs[b].node = 1 /\ h.allocs[b].live /\ Uses(h.allocs[b], k)
          BY <2>8, <3>3 DEF InUse
        <4>2. ~Uses(x, k)
          BY <2>3, <2>14, <4>1, NoneShared
        <4> QED
          BY <2>7, <2>10, <2>14, <3>1, <3>3, <4>2
      <3> QED
        BY <3>2, <3>3
    <2>15. ~AllLive(g)
      BY <2>8 DEF AllLive
    <2>16. ASSUME ~Aligned PROVE g.status # "corrupt"
      <3>1. \A k \in C : k \in h.nodes[1].bits
        <4>1. \A k \in C : k \in Nat /\ InUse(h, 1, k)
          BY <2>3, <2>9, <2>10, <2>16 DEF InUse
        <4> QED
          BY <2>3, <2>16, <4>1 DEF Exact, NoLess
      <3>2. h.nodes[1].bits \subseteq 0..(SBitmap - 1)
        BY <2>3, Parts
      <3>3. cleared \subseteq 0..(SBitmap - 1)
        BY <2>4, <3>1, <3>2
      <3> QED
        BY <2>2, <2>16, <3>3 DEF Exact
    <2> QED
      BY <2>1, <2>13, <2>14, <2>15, <2>16 DEF Exact
  <1> QED
    BY <1>1, <1>2

(* An allocation nobody holds keeps its bits.                              *)
LEMMA DropExact ==
  ASSUME NEW h, Sound(h), Exact(h), NEW a \in 1..Len(h.allocs)
  PROVE  Exact(Dropped(h, a))
  <1> DEFINE z == [h.allocs[a] EXCEPT !.held = FALSE]
  <1>1. PICK g : g = Dropped(h, a) /\ Sound(g)
    BY DropSound
  <1>2. /\ g.nodes = h.nodes /\ g.status = h.status /\ g.allocs = [h.allocs EXCEPT ![a] = z]
    BY <1>1 DEF Dropped
  <1>3. /\ z.node = h.allocs[a].node /\ z.at = h.allocs[a].at
        /\ z.size = h.allocs[a].size /\ z.live = h.allocs[a].live
    <2>1. h.allocs[a] \in Allocation
      BY Parts
    <2> QED
      BY <2>1 DEF Allocation
  <1> HIDE DEF z
  <1>4. /\ Len(g.allocs) = Len(h.allocs) /\ g.allocs[a] = z
        /\ \A b \in 1..Len(h.allocs) : b # a => g.allocs[b] = h.allocs[b]
    BY <1>2, Parts
  <1>5. Len(h.nodes) \in Nat /\ \A m \in (Len(h.nodes) + 1)..Len(h.nodes) : FALSE
    BY Parts
  <1>6. Exact(g)
    BY <1>1, <1>2, <1>3, <1>4, <1>5, SameExact
  <1> QED
    BY <1>1, <1>6

(* arena_realloc is an allocation and, at most, one free.                  *)
LEMMA ReallocExact ==
  ASSUME NEW h, Sound(h), Exact(h), h.status = "running", NEW a \in 1..Len(h.allocs), NEW s \in Sizes
  PROVE  Exact(AfterRealloc(h, a, s))
  <1> DEFINE new == AfterAlloc(h, s)
             b   == Len(new.allocs)
             r   == AfterRealloc(h, a, s)
  <1>1. /\ Sound(new) /\ Exact(new) /\ b \in {Len(h.allocs), Len(h.allocs) + 1}
    BY AllocSound, AllocExact
  <1>2. Len(h.allocs) \in Nat
    BY Parts
  <1>3. a \in 1..b /\ (b # Len(h.allocs) => b \in 1..b)
    BY <1>1, <1>2
  <1>4. \/ r = h
        \/ r = new
        \/ b # Len(h.allocs) /\ r = Dropped(new, b)
        \/ r = AfterFree(new, a)
        \/ b # Len(h.allocs) /\ r = Dropped(AfterFree(new, b), b)
    BY DEF AfterRealloc
  <1> HIDE DEF new, r
  <1>5. ASSUME r = h \/ r = new PROVE Exact(r)
    BY <1>1, <1>5
  <1>6. ASSUME b # Len(h.allocs) /\ r = Dropped(new, b) PROVE Exact(r)
    BY <1>1, <1>3, <1>6, DropExact
  <1>7. ASSUME r = AfterFree(new, a) PROVE Exact(r)
    BY <1>1, <1>3, <1>7, FreeExact
  <1>8. ASSUME b # Len(h.allocs) /\ r = Dropped(AfterFree(new, b), b) PROVE Exact(r)
    <2>1. /\ Sound(AfterFree(new, b)) /\ Exact(AfterFree(new, b)) /\ b \in 1..Len(AfterFree(new, b).allocs)
      BY <1>1, <1>3, <1>8, FreeSound, FreeExact
    <2> QED
      BY <1>8, <2>1, DropExact
  <1> QED
    BY <1>4, <1>5, <1>6, <1>7, <1>8 DEF r

(* arena_reset leaves no bit and no live allocation in the first arena.    *)
LEMMA ResetExact ==
  ASSUME NEW h, Sound(h), Exact(h), h.status = "running"
  PROVE  Exact(AfterReset(h))
  <1> DEFINE y    == [h.nodes[1] EXCEPT !.bits = {}]
             z(a) == IF h.allocs[a].node = 1 THEN [h.allocs[a] EXCEPT !.live = FALSE] ELSE h.allocs[a]
  <1>1. PICK g : g = AfterReset(h) /\ Sound(g)
    BY ResetSound
  <1>2. /\ g.nodes = [h.nodes EXCEPT ![1] = y] /\ g.allocs = [a \in DOMAIN h.allocs |-> z(a)]
        /\ g.status = h.status
    BY <1>1 DEF AfterReset
  <1>3. /\ h.nodes \in Seq(Node) /\ h.allocs \in Seq(Allocation) /\ DOMAIN h.allocs = 1..Len(h.allocs)
        /\ 1 \in 1..Len(h.nodes) /\ h.nodes[1] \in Node /\ Len(h.allocs) \in Nat
    BY Parts, LenProperties DEF Sound
  <1>4. y.bits = {}
    BY <1>3 DEF Node
  <1>5. ASSUME NEW a \in 1..Len(h.allocs)
        PROVE  IF h.allocs[a].node = 1 THEN z(a).node = 1 /\ z(a).live = FALSE ELSE z(a) = h.allocs[a]
    <2>1. h.allocs[a] \in Allocation
      BY Parts
    <2> QED
      BY <2>1 DEF Allocation
  <1> HIDE DEF y, z
  <1>6. /\ Len(g.nodes) = Len(h.nodes) /\ g.nodes[1].bits = {}
        /\ \A m \in 1..Len(h.nodes) : m # 1 => g.nodes[m].bits = h.nodes[m].bits
    BY <1>2, <1>3, <1>4
  <1>7. Len(g.allocs) = Len(h.allocs) /\ \A a \in 1..Len(h.allocs) : g.allocs[a] = z(a)
    <2>1. DOMAIN g.allocs = 1..Len(h.allocs) /\ g.allocs \in Seq(Allocation)
      BY <1>1, <1>2, <1>3, Parts
    <2> QED
      BY <1>2, <1>3, <2>1, LenProperties
  <1>8. \A m, k : InUse(g, m, k) <=> InUse(h, m, k) /\ m # 1
    BY <1>5, <1>7 DEF InUse
  <1>9. NoMore(g)
    BY <1>6, <1>8 DEF Exact, NoMore
  <1>10. NoLess(h) => NoLess(g)
    BY <1>6, <1>8 DEF NoLess
  <1>11. CASE ~Aligned
    BY <1>1, <1>2, <1>9, <1>10, <1>11 DEF Exact
  <1>12. CASE Aligned
    <2>1. AllLive(g) => AllLive(h)
      BY <1>5, <1>7 DEF AllLive
    <2> QED
      BY <1>1, <1>2, <1>9, <1>10, <1>12, <2>1 DEF Exact
  <1> QED
    BY <1>11, <1>12

(* BitmapExact says this of the heap.                                      *)
LEMMA ExactIs == Sound(heap) => (Exact(heap) <=> BitmapExact)
  <1> SUFFICES ASSUME Sound(heap) PROVE Exact(heap) <=> BitmapExact
    OBVIOUS
  <1>1. heap.nodes = nodes /\ heap.allocs = allocs /\ heap.status = status
    BY DEF heap
  <1>2. \A n, k : k \in LiveBlocks(n) <=> InUse(heap, n, k)
    BY <1>1 DEF LiveBlocks, BlocksOf, InUse, Uses
  <1>3. \A n : LiveBlocks(n) \subseteq Nat
    <2>1. ASSUME NEW n, NEW k \in LiveBlocks(n) PROVE k \in Nat
      <3>1. PICK a \in 1..Len(heap.allocs) : Uses(heap.allocs[a], k)
        BY <1>2, <2>1 DEF InUse
      <3>2. heap.allocs[a].at \in Nat /\ heap.allocs[a].size \in Nat
        BY Parts
      <3> QED
        BY <3>1, <3>2, ClearedBlocks DEF Uses
    <2> QED
      BY <2>1
  <1>4. NoMore(heap) <=> \A n \in 1..Len(nodes) : nodes[n].bits \subseteq LiveBlocks(n)
    BY <1>1, <1>2 DEF NoMore
  <1>5. NoLess(heap) <=> \A n \in 1..Len(nodes) : LiveBlocks(n) \subseteq nodes[n].bits
    BY <1>1, <1>2, <1>3 DEF NoLess
  <1>6. AllLive(heap) <=> \A a \in 1..Len(allocs) : allocs[a].live
    BY <1>1 DEF AllLive
  <1> QED
    BY <1>1, <1>4, <1>5, <1>6 DEF Exact, BitmapExact

(* Every operation of the library keeps the bitmap exact.                  *)
LEMMA StepExact == IInv /\ Exact(heap) /\ [Next]_vars => Exact(heap')
  <1> SUFFICES ASSUME Sound(heap), Exact(heap), [Next]_vars PROVE Exact(heap')
    BY DEF IInv
  <1>1. ASSUME NEW h, Becomes(h), Exact(h) PROVE Exact(heap')
    <2>1. heap'.nodes = h.nodes /\ heap'.allocs = h.allocs /\ heap'.status = h.status
      BY <1>1 DEF Becomes, heap
    <2> HIDE DEF heap
    <2> QED
      BY <1>1, <2>1 DEF Exact, NoMore, NoLess, AllLive, InUse
  <1>2. heap.status = status /\ Held \subseteq 1..Len(heap.allocs)
    <2>1. heap.status = status /\ heap.allocs = allocs
      BY DEF heap
    <2>2. DOMAIN allocs = 1..Len(allocs)
      <3>1. allocs \in Seq(Allocation)
        BY <2>1 DEF Sound, Heap
      <3> QED
        BY <3>1, LenProperties
    <2> QED
      BY <2>1, <2>2 DEF Held
  <1>3. ASSUME NEW s \in Sizes, Alloc(s) PROVE Exact(heap')
    BY <1>1, <1>2, <1>3, AllocExact DEF Alloc, Running
  <1>4. ASSUME NEW a \in Held, Free(a) PROVE Exact(heap')
    BY <1>1, <1>2, <1>4, FreeExact DEF Free, Running
  <1>5. ASSUME NEW a \in Held, NEW s \in Sizes, Realloc(a, s) PROVE Exact(heap')
    BY <1>1, <1>2, <1>5, ReallocExact DEF Realloc, Running
  <1>6. ASSUME Reset PROVE Exact(heap')
    BY <1>1, <1>2, <1>6, ResetExact DEF Reset, Running
  <1>7. ASSUME Destroy PROVE Exact(heap')
    <2>1. heap'.nodes = <<>> /\ heap'.status = "destroyed"
      BY <1>7 DEF Destroy, heap
    <2> HIDE DEF heap
    <2> QED
      BY <2>1 DEF Exact, NoMore, NoLess
  <1>8. ASSUME UNCHANGED vars PROVE Exact(heap')
    <2>1. heap' = heap
      BY <1>8 DEF vars, heap
    <2> QED
      BY <2>1
  <1> QED
    BY <1>3, <1>4, <1>5, <1>6, <1>7, <1>8 DEF Next, InterpreterNext

(* The bitmap shows the bytes in use exactly, however they are allocated,  *)
(* freed, reallocated and reset: always when the arena has no blocks, as   *)
(* long as nothing was freed when it has, and never too much.              *)
THEOREM BitmapShowsUse == Spec => []BitmapExact
  <1>1. Init => Exact(heap)
    <2> SUFFICES ASSUME Init PROVE Exact(heap)
      OBVIOUS
    <2>1. heap.nodes = <<FreshNode>> /\ heap.allocs = <<>> /\ heap.status = "running"
      BY DEF Init, heap
    <2>2. Len(heap.nodes) = 1 /\ heap.nodes[1].bits = {} /\ Len(heap.allocs) = 0
      BY <2>1 DEF FreshNode
    <2> HIDE DEF heap
    <2> QED
      BY <2>1, <2>2 DEF Exact, NoMore, NoLess, InUse
  <1>2. IInv => (Exact(heap) <=> BitmapExact)
    BY ExactIs DEF IInv
  <1>3. IInv /\ Exact(heap) /\ [Next]_vars => Exact(heap)'
    BY StepExact
  <1> QED
    BY <1>1, <1>2, <1>3, Invariance, PTL DEF Spec
=============================================================================

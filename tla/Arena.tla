------------------------------- MODULE Arena --------------------------------
(***************************************************************************)
(* The arena allocator (arena.c): a chain of arenas of SArena bytes, each  *)
(* handing out its memory from the front and keeping a bitmap of the       *)
(* blocks in use in front of that memory.  An allocation is a header, the  *)
(* word that holds its size, followed by its bytes.  Addresses are offsets *)
(* from _arena_get_base_ptr; the contents of the bytes are left out,       *)
(* except for the headers, which arena_free and arena_realloc read.        *)
(*                                                                         *)
(* The functions that call each other (realloc calls alloc and free) are   *)
(* operators from a heap [nodes, allocs, status] to the heap they leave.   *)
(***************************************************************************)
EXTENDS Integers, Sequences

CONSTANTS
  Aligned,     \* arena_create_aligned or arena_create
  SArena,      \* s_arena, in bytes
  SBlock,      \* s_block: 1 when not Aligned
  Word,        \* s_word, sizeof(uint64_t)
  MaxNodes,    \* max_nodes
  HeapNodes,   \* how many arenas the C heap has room for
  Sizes        \* the sizes clients ask for

(* Both creation functions round the sizes up to powers of two and give up *)
(* when the bitmap would have no byte.                                     *)
ASSUME ArenaAssumption ==
  /\ Aligned \in BOOLEAN
  /\ Word \in Nat \ {0} /\ SBlock \in Nat \ {0} /\ SArena \in Nat
  /\ IF Aligned THEN SBlock >= Word ELSE SBlock = 1
  /\ \E k \in 1..SArena : SArena = k * (8 * SBlock)
  /\ MaxNodes \in Nat /\ HeapNodes \in Nat \ {0}
  /\ Sizes \subseteq Nat

VARIABLES
  nodes,    \* the chain: [ptr, snodes, bits] of each struct arena
  allocs,   \* what was allocated: [node, at, size, live, held]
  status    \* "running" until the process or the arena comes to its end

vars == <<nodes, allocs, status>>

-----------------------------------------------------------------------------
(* Some definitions are not used by the others: each is the one after it   *)
(* as a likely mistake would have left it.                                 *)

(* s_bitmap, in bits, and the bytes of memory behind the bitmap.           *)
BitPerStride == 8 * (SArena \div (8 * (SBlock + Word)))
SBitmap    == 8 * (SArena \div (8 * SBlock))
MemorySize == SArena + (Word * SArena) \div SBlock

(* _arena_utils_ceil of x / y.                                             *)
Ceil(x, y) == (x + y - 1) \div y

BytesToBlocks(s) == IF Aligned THEN Ceil(s + Word, SBlock) ELSE s + Word

Stride            == IF Aligned THEN SBlock + Word ELSE 1
BlocksToOffset(b) == Stride * b
Advance(s)        == BlocksToOffset(BytesToBlocks(s))

(* _arena_is_full compares the request with a whole arena, not with what   *)
(* is left of it.                                                          *)
IsFull(s) == (IF Aligned THEN Word * ((s + 1) \div SBlock) ELSE s + 1) >= SArena

(* _arena_ptr_in_arena, for an allocation whose header is at offset at.    *)
InMemory(at, s)   == at + Word + s < MemorySize
PtrInArena(at, s) == at + Word + s < SArena

Index(at)     == at \div Stride
OneMoreBlock(at, n) == Index(at)..(Index(at) + n)
Blocks(at, n) == Index(at)..(Index(at) + n - 1)

FreshNode == [ptr |-> 0, snodes |-> 1, bits |-> {}]

-----------------------------------------------------------------------------
(* arena_alloc hands the request to a new arena when it does not fit into  *)
(* an empty one: it does not fit into the new one either, which does the   *)
(* same, until no more memory can be had and the result is NULL.  Each     *)
(* arena counts the one it made itself.                                    *)
Grow(h) ==
  LET n == Len(h.nodes)
  IN  [h EXCEPT !.nodes =
         [m \in 1..HeapNodes |->
            LET x == IF m <= n THEN @[m] ELSE FreshNode
            IN  IF m = 1 \/ (m > n /\ m < HeapNodes) THEN [x EXCEPT !.snodes = @ + 1] ELSE x]]

(* The request is served by the last arena of the chain: the header is     *)
(* written, the assertion of _arena_get_index checks where it went, the    *)
(* bits are set and the pointer moves on.                                  *)
TakenWithoutHeader(x, s) ==
  [x EXCEPT !.ptr = x.ptr + s, !.bits = @ \cup Blocks(x.ptr, BytesToBlocks(s))]

Taken(x, s) ==
  [x EXCEPT !.ptr = x.ptr + Advance(s), !.bits = @ \cup Blocks(x.ptr, BytesToBlocks(s))]

Place(h, s) ==
  LET n  == Len(h.nodes)
      at == h.nodes[n].ptr
  IN  IF PtrInArena(at, s)
      THEN [nodes  |-> [h.nodes EXCEPT ![n] = Taken(h.nodes[n], s)],
            allocs |-> Append(h.allocs, [node |-> n, at |-> at, size |-> s,
                                         live |-> TRUE, held |-> TRUE]),
            status |-> h.status]
      ELSE [h EXCEPT !.status = "aborted"]

AfterAlloc(h, s) ==
  IF s = 0 THEN h
  ELSE IF ~IsFull(s) THEN Place(h, s)
  ELSE IF h.nodes[1].snodes >= MaxNodes \/ Len(h.nodes) >= HeapNodes THEN h
  ELSE Grow(h)

(* arena_free returns false for a header that reads 0 and for what is not  *)
(* in the first arena of the chain.  It zeroes the bytes and clears as     *)
(* many bits as the allocation has bytes; bits behind the bitmap are bytes *)
(* of the arena's memory, and the model stops there.                       *)
Freeable(h, a) == h.allocs[a].live /\ h.allocs[a].node = 1

AfterFree(h, a) ==
  IF Freeable(h, a)
  THEN LET x       == h.allocs[a]
           cleared == Blocks(x.at, Advance(x.size))
       IN  [nodes  |-> [h.nodes EXCEPT ![1].bits = @ \ cleared],
            allocs |-> [h.allocs EXCEPT ![a].live = FALSE],
            status |-> IF cleared \subseteq 0..(SBitmap - 1) THEN h.status ELSE "corrupt"]
  ELSE h

(* The caller never gets this allocation.                                  *)
Dropped(h, a) ==
  [nodes |-> h.nodes, allocs |-> [h.allocs EXCEPT ![a].held = FALSE], status |-> h.status]

(* arena_realloc allocates before it compares the sizes: a request to      *)
(* shrink returns NULL and nobody gets the new allocation.  When the old   *)
(* one cannot be freed the new one is freed again.                         *)
AfterRealloc(h, a, s) ==
  LET new == AfterAlloc(h, s)
      b   == Len(new.allocs)
      old == IF h.allocs[a].live THEN h.allocs[a].size ELSE 0
  IN  IF h.allocs[a].node # 1 THEN h
      ELSE IF b = Len(h.allocs) THEN new
      ELSE IF old > s THEN Dropped(new, b)
      ELSE IF Freeable(new, a) THEN AfterFree(new, a)
      ELSE Dropped(AfterFree(new, b), b)

(* arena_reset zeroes the bitmap and the memory of the first arena, with   *)
(* the headers in it; ptr stays.                                           *)
AfterReset(h) ==
  LET zeroed(x) == IF x.node = 1 THEN [x EXCEPT !.live = FALSE] ELSE x
  IN  [nodes  |-> [h.nodes EXCEPT ![1].bits = {}],
       allocs |-> [a \in DOMAIN h.allocs |-> zeroed(h.allocs[a])],
       status |-> h.status]

-----------------------------------------------------------------------------
heap == [nodes |-> nodes, allocs |-> allocs, status |-> status]

Becomes(h) == nodes' = h.nodes /\ allocs' = h.allocs /\ status' = h.status

(* A pointer some call returned, freed since or not.                       *)
Held == {a \in DOMAIN allocs : allocs[a].held}

Init == nodes = <<FreshNode>> /\ allocs = <<>> /\ status = "running"

Running == status = "running"

Alloc(s)      == Running /\ Becomes(AfterAlloc(heap, s))
Free(a)       == Running /\ Becomes(AfterFree(heap, a))
Realloc(a, s) == Running /\ Becomes(AfterRealloc(heap, a, s))
Reset         == Running /\ Becomes(AfterReset(heap))

(* arena_destroy gives every arena of the chain back.                      *)
Destroy == Running /\ nodes' = <<>> /\ allocs' = <<>> /\ status' = "destroyed"

(* What the interpreter does with its arena, and what the library allows.  *)
InterpreterNext == (\E s \in Sizes : Alloc(s)) \/ Destroy

Next ==
  \/ InterpreterNext \/ Reset
  \/ \E a \in Held : Free(a) \/ \E s \in Sizes : Realloc(a, s)

InterpreterSpec == Init /\ [][InterpreterNext]_vars
Spec            == Init /\ [][Next]_vars

-----------------------------------------------------------------------------
Node       == [ptr : Nat, snodes : Nat, bits : SUBSET Nat]
Allocation == [node : 1..HeapNodes, at : Nat, size : Nat, live : BOOLEAN, held : BOOLEAN]

(* Every variable holds a value of its type.                               *)
TypeOK ==
  /\ nodes \in Seq(Node) /\ Len(nodes) <= HeapNodes
  /\ allocs \in Seq(Allocation)
  /\ status \in {"running", "aborted", "corrupt", "destroyed"}

(* The bytes of allocation a, header included.                             *)
From(a) == allocs[a].at
Upto(a) == allocs[a].at + Word + allocs[a].size

(* What is handed out lies inside its arena and is handed out once: no two *)
(* allocations share a byte, whatever the rounding to blocks and whichever *)
(* of them have been freed, reallocated or reset in between.               *)
Separated ==
  \A a \in 1..Len(allocs) :
    /\ Upto(a) < SArena
    /\ \A b \in 1..(a - 1) : allocs[a].node = allocs[b].node => Upto(b) <= From(a)

(* The bitmap has a bit for every block that can be handed out, although   *)
(* the blocks of an allocation may go beyond SArena: setting the bits of   *)
(* an allocation never writes behind the bitmap, into the first            *)
(* allocation.                                                             *)
BitsInBitmap == \A n \in 1..Len(nodes) : nodes[n].bits \subseteq 0..(SBitmap - 1)

(* No request that an arena can hold takes the whole reserve at the end of *)
(* the memory.                                                             *)
SmallRequests ==
  \A s \in Sizes : Word + s < SArena => Advance(s) + Word <= (Word * SArena) \div SBlock

(* The header of the next allocation, written before it is checked that    *)
(* the allocation fits, is still inside the memory.                        *)
HeaderInside == SmallRequests => \A n \in 1..Len(nodes) : nodes[n].ptr + Word <= MemorySize

BlocksOf(a)    == Blocks(allocs[a].at, BytesToBlocks(allocs[a].size))
LiveBlocks(n)  == UNION {BlocksOf(a) : a \in {b \in 1..Len(allocs) : allocs[b].node = n /\ allocs[b].live}}

(* The invariant the proofs are by induction on, of the heap h: pointers   *)
(* are at the beginning of a block, what was allocated is in front of the  *)
(* pointer of its arena, and only the request that made it the last one    *)
(* can have taken that pointer beyond SArena.                              *)
Heap ==
  [nodes : Seq(Node), allocs : Seq(Allocation),
   status : {"running", "aborted", "corrupt", "destroyed"}]

SoundNode(x) ==
  /\ x.ptr = Stride * Index(x.ptr)
  /\ x.bits \subseteq 0..(SBitmap - 1)
  /\ SmallRequests => x.ptr + Word <= MemorySize

SoundAllocation(h, a) ==
  LET x == h.allocs[a]
  IN  /\ x.node <= Len(h.nodes)
      /\ x.at + Word + x.size < SArena
      /\ x.at + Word + x.size <= h.nodes[x.node].ptr

Apart(h, a, b) ==
  h.allocs[a].node = h.allocs[b].node => h.allocs[b].at + Word + h.allocs[b].size <= h.allocs[a].at

Sound(h) ==
  /\ h \in Heap /\ Len(h.nodes) <= HeapNodes
  /\ h.status = "running" => Len(h.nodes) >= 1
  /\ \A n \in 1..Len(h.nodes) : SoundNode(h.nodes[n])
  /\ \A a \in 1..Len(h.allocs) : SoundAllocation(h, a)
  /\ \A a \in 1..Len(h.allocs) : \A b \in 1..(a - 1) : Apart(h, a, b)

IInv == Sound(heap)

(* The bitmap never shows a block in use that no live allocation has, and  *)
(* shows all of those in use until an aligned arena frees one: there       *)
(* arena_free clears the bits of the neighbours too, and may go on behind  *)
(* the bitmap, which without blocks it never does.                         *)
BitmapExact ==
  /\ status = "corrupt" => Aligned
  /\ \A n \in 1..Len(nodes) :
       /\ nodes[n].bits \subseteq LiveBlocks(n)
       /\ ~Aligned \/ (\A a \in 1..Len(allocs) : allocs[a].live) => nodes[n].bits = LiveBlocks(n)

(* What the report says of the chain of arenas: the allocator gives up     *)
(* only when the chain has all the arenas it may have.                     *)
ScalesIfNeeded == status = "aborted" => Len(nodes) >= MaxNodes
=============================================================================

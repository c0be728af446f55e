------------------------------ MODULE Creation ------------------------------
(***************************************************************************)
(* What arena_create, arena_create_aligned (arena.c) and hashmap_create    *)
(* (hashmap.c) make of the sizes they are asked for.  Integers have Width  *)
(* bits and wrap; sizes are rounded up to powers of two by smearing the    *)
(* highest bit.  The modules Arena and HashMap begin where these functions *)
(* have succeeded.                                                         *)
(***************************************************************************)
EXTENDS Integers, SequencesExt, Bitwise

CONSTANTS
  NULL,
  Width,        \* the bits of a uint64_t, a power of two
  Word,         \* s_word
  Sizes,        \* the sizes callers ask for
  HeapSize,     \* the largest block malloc and calloc have, below a 16th of all integers
  SMap, SNode   \* sizeof(struct hashmap), sizeof(struct hashmap_node)

VARIABLES
  call,    \* [op, size, block]
  status,  \* "called", then "returned", "crash" or "assert"
  result   \* what is returned

vars == <<call, status, result>>

Ops == {"arena_create", "arena_create_aligned", "hashmap_create"}

Init ==
  /\ call \in [op : Ops, size : Sizes, block : Sizes]
  /\ call.op # "arena_create_aligned" => call.block = 0
  /\ status = "called" /\ result = NULL

Asked(op)   == status = "called" /\ call.op = op /\ UNCHANGED call
Returns(r)  == status' = "returned" /\ result' = r
Fails(how)  == status' = how /\ UNCHANGED result
Wrapped(n)  == n % 2^Width

(* Some definitions are not used by the others: each is the one after it   *)
(* as a likely mistake would have left it.                                 *)

(* n--, n |= n >> 1, n |= n >> 2, n |= n >> 4, ..., n + 1.                 *)
Shifts        == [j \in 1..(CHOOSE n \in 1..Width : Width = 2^n) |-> 2^(j - 1)]
Smeared(n)    == FoldLeft(LAMBDA x, by : x | shiftR(x, by), n, Shifts)
NextPower2(n) == Wrapped(Smeared(n - 1) + 1)

-----------------------------------------------------------------------------
(* The arena, once both sizes are powers of two: nothing is made when the  *)
(* bitmap would have no byte, or when there is no memory.                  *)
AnyBitmap(s_arena, s_block) ==
  LET s_bitmap == s_arena \div Wrapped(8 * s_block)
      memory   == Wrapped(s_bitmap + s_arena + Wrapped(Word * s_arena) \div s_block)
  IN  IF Wrapped(8 * s_block) = 0 THEN Fails("crash")
      ELSE \/ Returns(NULL)
           \/ /\ memory <= HeapSize
              /\ Returns([s_arena |-> s_arena, s_block |-> s_block, memory |-> memory])

MakeArena(s_arena, s_block) ==
  LET s_bitmap == s_arena \div Wrapped(8 * s_block)
      memory   == Wrapped(s_bitmap + s_arena + Wrapped(Word * s_arena) \div s_block)
  IN  IF Wrapped(8 * s_block) = 0 THEN Fails("crash")
      ELSE \/ Returns(NULL)
           \/ /\ s_bitmap # 0 /\ memory <= HeapSize
              /\ Returns([s_arena |-> s_arena, s_block |-> s_block, memory |-> memory])

CreateNone ==
  /\ \/ Asked("arena_create") /\ call.size = 0
     \/ Asked("arena_create_aligned") /\ (call.size = 0 \/ call.block < Word)
     \/ Asked("hashmap_create") /\ call.size = 0
  /\ Returns(NULL)

CreateArena   == Asked("arena_create") /\ call.size # 0 /\ MakeArena(NextPower2(call.size), 1)
CreateAligned ==
  /\ Asked("arena_create_aligned") /\ call.size # 0 /\ call.block >= Word
  /\ MakeArena(NextPower2(call.size), NextPower2(call.block))

(* The buckets are allocated before their number is rounded up.            *)
CreateMap ==
  /\ Asked("hashmap_create") /\ call.size # 0
  /\ LET memory == Wrapped(SMap + Wrapped(SNode * call.size))
     IN  \/ Fails("assert")
         \/ memory <= HeapSize /\ Returns([s_buckets |-> NextPower2(call.size), memory |-> memory])

Returned == status # "called" /\ UNCHANGED vars

Next == CreateNone \/ CreateArena \/ CreateAligned \/ CreateMap \/ Returned

Spec == Init /\ [][Next]_vars

-----------------------------------------------------------------------------
Made(ops)   == call.op \in ops /\ result # NULL
PowerOf2(n) == \E j \in 0..Width : n = 2^j

(* An arena that is made is one ArenaAssumption admits, is the smallest    *)
(* power of two that holds what was asked for, and has all the memory the  *)
(* allocator counts on: no size wraps before memory runs out.              *)
ArenaAsAssumed ==
  Made({"arena_create", "arena_create_aligned"}) =>
    LET a == result
    IN  /\ PowerOf2(a.s_arena) /\ a.s_arena \in call.size..(2 * call.size - 1)
        /\ call.op = "arena_create_aligned" =>
             PowerOf2(a.s_block) /\ a.s_block >= Word /\ a.s_block \in call.block..(2 * call.block - 1)
        /\ \E k \in 1..a.s_arena : a.s_arena = k * (8 * a.s_block)
        /\ a.memory = a.s_arena \div (8 * a.s_block) + a.s_arena + (Word * a.s_arena) \div a.s_block

(* The division by 8 * s_block is by zero only for blocks of more than a   *)
(* sixteenth of all integers.                                              *)
CrashOnlyHuge == status = "crash" => call.block > 2^(Width - 4)

(* A map has buckets, and memory for all of them, when it was asked for a  *)
(* power of two of them whose size does not wrap, and in no other case: so *)
(* HashMapAssumption demands one.                                          *)
BucketsFit ==
  Made({"hashmap_create"}) =>
    (result.s_buckets # 0 /\ result.memory >= SMap + SNode * result.s_buckets
       <=> PowerOf2(call.size) /\ SMap + SNode * call.size < 2^Width)
=============================================================================

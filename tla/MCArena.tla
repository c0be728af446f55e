------------------------------ MODULE MCArena -------------------------------
(***************************************************************************)
(* The library from the creation of an arena to its use: all the calls of  *)
(* the creation functions, on integers of 16 bits, and then all that can   *)
(* be done with two of the arenas they make, one with blocks and one       *)
(* without.                                                                *)
(***************************************************************************)
EXTENDS Arena

CONSTANTS NULL, Width, HeapSize, SMap, SNode

VARIABLES call, created, result, bytenodes, byteallocs, bytestatus

(* Requests of one block, of several, and one that no arena can hold.      *)
MCSizes == {3, 7, 63}

(* Every small size, and those around the powers of two.                   *)
Around == (0..20 \cup UNION {{2^j - 1, 2^j, 2^j + 1} : j \in 0..Width}) \cap 0..(2^Width - 1)

Library == INSTANCE Creation WITH Sizes <- Around, status <- created
Bytes   == INSTANCE Arena WITH Aligned <- FALSE, SArena <- 16, SBlock <- 1,
                               nodes <- bytenodes, allocs <- byteallocs, status <- bytestatus

Made(op, size, block) ==
  /\ created = "returned" /\ result # NULL
  /\ call = [op |-> op, size |-> size, block |-> block]

MCInit == Library!Init /\ Init /\ Bytes!Init

Create    == Library!Next /\ UNCHANGED <<vars, bytenodes, byteallocs, bytestatus>>
UseBlocks == /\ Made("arena_create_aligned", SArena, SBlock) /\ Next
             /\ UNCHANGED <<call, created, result, bytenodes, byteallocs, bytestatus>>
UseBytes  == /\ Made("arena_create", 16, 0) /\ Bytes!Next
             /\ UNCHANGED <<vars, call, created, result>>

MCSpec == MCInit /\ [][Create \/ UseBlocks \/ UseBytes]_<<vars, call, created, result, bytenodes, byteallocs, bytestatus>>

-----------------------------------------------------------------------------
(* An arena that is made is one ArenaAssumption admits, is the smallest    *)
(* power of two that holds what was asked for, and has all the memory the  *)
(* allocator counts on: no size wraps before memory runs out.  The         *)
(* division by 8 * s_block is by zero only for blocks of more than a       *)
(* sixteenth of all integers.  The buckets of a map fit into its memory in *)
(* no case but that of a power of two: HashMapAssumption demands one.      *)
MadeAsAssumed == Library!ArenaAsAssumed /\ Library!CrashOnlyHuge /\ Library!BucketsFit

(* The bitmap shows exactly the bytes in use, after every sequence of      *)
(* allocations, frees and reallocations: always without blocks, and with   *)
(* them as long as nothing was freed.                                      *)
BitmapsExact == BitmapExact /\ Bytes!BitmapExact
=============================================================================

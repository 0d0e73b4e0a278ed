-------------------------- MODULE MCSmemAllocator --------------------------
(***************************************************************************)
(* Small instances of SmemAllocator for TLC.  One unit stands for 64 bytes *)
(* of the device: MinAlign = 2 is the 128-byte minimum, alignment 4 the    *)
(* 256-byte repeat of the smallest TMA swizzle.                            *)
(***************************************************************************)
EXTENDS SmemAllocator

CONSTANTS t1, t2, t3
Interchangeable == Permutations({t1, t2, t3})
=============================================================================

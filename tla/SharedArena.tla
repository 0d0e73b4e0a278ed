---------------------------- MODULE SharedArena ----------------------------
(***************************************************************************)
(* What a shared-memory allocator promises, byte by byte and without free  *)
(* lists: every byte of the arena has at most one owner, an allocation     *)
(* takes the lowest suitably aligned run of free bytes, and a free returns *)
(* all the bytes of its owner and no others.                               *)
(***************************************************************************)
EXTENDS Integers

CONSTANTS Top, Owners, Sizes, Alignments, Free

VARIABLE owner   \* [bytes of the arena -> Owners or Free]

Bytes == 0 .. Top - 1

Run(addr, n) == addr .. addr + n - 1

IsFree(addr, n) == \A b \in Run(addr, n) : b < Top /\ owner[b] = Free

Init == owner = [b \in Bytes |-> Free]

Take(o, n, a) ==
    LET rounded == CHOOSE m \in n .. n + a - 1 : m % a = 0
        Fits(addr) == addr % a = 0 /\ IsFree(addr, rounded)
    IN  \E addr \in Bytes :
          /\ Fits(addr)
          /\ \A lower \in 0 .. addr - 1 : ~Fits(lower)
          /\ owner' = [b \in Bytes |-> IF b \in Run(addr, rounded) THEN o ELSE owner[b]]

Return(o) ==
    /\ \E b \in Bytes : owner[b] = o
    /\ owner' = [b \in Bytes |-> IF owner[b] = o THEN Free ELSE owner[b]]

Next == \E o \in Owners :
    \/ (\A b \in Bytes : owner[b] # o) /\ \E n \in Sizes, a \in Alignments : Take(o, n, a)
    \/ Return(o)

Spec == Init /\ [][Next]_owner
=============================================================================

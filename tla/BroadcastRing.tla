--------------------------- MODULE BroadcastRing ---------------------------
(***************************************************************************)
(* What a pipeline of N stages promises, without stages, barriers or       *)
(* phases: tiles 0, 1, 2, ... land in some order, each consumer takes them *)
(* in order and only after they landed, and a tile may land only while no  *)
(* consumer is N tiles behind it.                                          *)
(***************************************************************************)
EXTENDS Integers

CONSTANTS N, Consumers, NumTiles

VARIABLES
    landed,  \* tiles that are complete in shared memory, or were
    taken    \* [Consumers -> number of tiles taken]

Tiles == 0 .. NumTiles - 1

Init == landed = {} /\ taken = [c \in Consumers |-> 0]

Land(k) == /\ k \notin landed
           /\ \A c \in Consumers : k < taken[c] + N
           /\ landed' = landed \union {k}
           /\ UNCHANGED taken

Take(c) == /\ taken[c] \in landed
           /\ taken' = [taken EXCEPT ![c] = @ + 1]
           /\ UNCHANGED landed

Next == (\E k \in Tiles : Land(k)) \/ (\E c \in Consumers : Take(c))

Spec == Init /\ [][Next]_<<landed, taken>>
=============================================================================

------------------------------- MODULE SplitK -------------------------------
(***************************************************************************)
(* Kernels whose blocks share an output tile and add to it in turn: split-k *)
(* matrix multiplication (examples/matmul/matmul_v5.py) and attention split *)
(* over keys and values (examples/attention/flash_attention_v3.py).  The    *)
(* blocks of a tile wait for each other on a semaphore in the clean         *)
(* workspace, which the host allocates and zeroes once and every kernel     *)
(* must leave zero (hidet/include/tilus/context.h).                         *)
(*                                                                         *)
(* An element of a tile is the sequence of splits added up in it.  There is *)
(* one element per thread and tile.                                        *)
(***************************************************************************)
EXTENDS Integers, Sequences, FiniteSets

CONSTANTS
  Grids,        \* launches: [kernel, tiles, splits, block_q, split_kv]
  TileThreads,      \* threads of a block, 0 is the one single_thread() elects
  Slots,        \* blocks the device holds at a time
  Align,        \* alignment of an allocation, in semaphores
  MaxTiles,     \* bound: tiles of a launch
  MaxLaunches,  \* bound: launches
  NoGrid

\* The queries of attention end before the keys of the last split do: the splits
\* are as many as the keys need, q_len <= kv_len, and block_q divides split_kv.
ASSUME SplitKAssumption ==
  /\ IsFiniteSet(TileThreads) /\ TileThreads # {}
  /\ TileThreads = 0..(Cardinality(TileThreads) - 1)
  /\ Align \in Nat \ {0}
  /\ Grids \subseteq [kernel : {"matmul", "attention"}, tiles : 1..MaxTiles, splits : Nat \ {0},
                      block_q : Nat, split_kv : Nat]
  /\ \A g \in Grids : g.kernel = "attention" =>
       g.block_q > 0 /\ g.tiles * g.block_q <= g.splits * g.split_kv
  /\ NoGrid \notin Grids
  /\ MaxTiles \in Nat

VARIABLES
  queued,       \* the launch the host has prepared, or NoGrid
  grid,         \* the running launch, or NoGrid
  launches,     \* launches so far
  semaphores,   \* the clean workspace
  out,            \* the output: tile -> element
  dispatched,   \* blocks given to the device
  doing,           \* resident block -> thread -> next step
  acc           \* resident block -> element, the sum held by the block

splitVars == <<queued, grid, launches, semaphores, out, dispatched, doing, acc>>

-----------------------------------------------------------------------------
Tile(n) == n % grid.tiles
Split(n) == n \div grid.tiles

\* Attention leaves out the splits behind the diagonal of the causal mask.
Active(g, tile, z) ==
  g.kernel = "attention" => z * g.split_kv < tile * g.block_q + g.block_q

\* Where a block begins its epilogue.
Start(z) == IF grid.kernel = "matmul" /\ z = 0 THEN "store" ELSE "lock"

\* Mutant: the last block hands over, too.
NextHolder_NoReset(tile, z) == z + 1

\* Mutant: the semaphore starts over one split too early.
NextHolder_OneSplitShort(tile, z) ==
  IF grid.kernel = "matmul" THEN (z + 1) % (grid.splits - 1)
  ELSE IF (z + 1) * grid.split_kv < tile * grid.block_q + grid.block_q THEN z + 1
  ELSE 0

\* The value that lets the next block of the tile in; zero after the last one.
NextHolder(tile, z) ==
  IF grid.kernel = "matmul" THEN (z + 1) % grid.splits
  ELSE IF (z + 1) * grid.split_kv < tile * grid.block_q + grid.block_q THEN z + 1
  ELSE 0

\* The attention kernel loads through shared memory, in a layout of its own.
LoadedBy(t) == IF grid.kernel = "matmul" THEN t ELSE (t + 1) % Cardinality(TileThreads)

-----------------------------------------------------------------------------
(* The host. *)

RoundUp(n, a) == ((n + a - 1) \div a) * a

\* The first power of two that is not below n.
NextPow2(n) ==
  LET power[k \in 0..n] ==
        IF k = 0 THEN 1 ELSE IF power[k - 1] < n THEN 2 * power[k - 1] ELSE power[k - 1]
  IN  power[n]

\* The bytes of every clean tensor of the kernel.
Requested(g) == RoundUp(g.tiles, Align)

\* What an output element holds before a launch.
Old == <<-1>>

Zeroed(size) == [i \in 0..(size - 1) |-> 0]
CleanSize == Cardinality(DOMAIN semaphores)

SplitInit ==
  /\ queued = NoGrid /\ grid = NoGrid
  /\ launches = 0
  /\ semaphores = <<>>
  /\ out = [i \in 0..(MaxTiles - 1) |-> [t \in TileThreads |-> Old]]
  /\ dispatched = 0
  /\ doing = <<>> /\ acc = <<>>

\* A workspace that is too small is replaced; freeing it waits for the device.
Launch ==
  /\ queued = NoGrid /\ launches < MaxLaunches
  /\ \E g \in Grids :
       /\ queued' = g
       /\ IF CleanSize < Requested(g)
          THEN grid = NoGrid /\ semaphores' = Zeroed(NextPow2(Requested(g)))
          ELSE UNCHANGED semaphores
  /\ launches' = launches + 1
  /\ UNCHANGED <<grid, out, dispatched, doing, acc>>

\* The device takes the launches of a stream one after the other.
Begin ==
  /\ queued # NoGrid /\ grid = NoGrid
  /\ grid' = queued /\ queued' = NoGrid
  /\ out' = [i \in 0..(MaxTiles - 1) |-> [t \in TileThreads |-> Old]]
  /\ dispatched' = 0
  /\ UNCHANGED <<launches, semaphores, doing, acc>>

-----------------------------------------------------------------------------
(* The device. *)

Blocks == grid.tiles * grid.splits

Extended(f, x, e) == [y \in DOMAIN f \cup {x} |-> IF y = x THEN e ELSE f[y]]

\* Blocks start in the order of their index as soon as there is room.
Dispatch ==
  /\ grid # NoGrid /\ dispatched < Blocks
  /\ Cardinality(DOMAIN doing) < Slots
  /\ dispatched' = dispatched + 1
  /\ IF Active(grid, Tile(dispatched), Split(dispatched))
     THEN /\ doing' = Extended(doing, dispatched, [t \in TileThreads |-> Start(Split(dispatched))])
          /\ acc' = Extended(acc, dispatched, [t \in TileThreads |-> <<Split(dispatched)>>])
     ELSE UNCHANGED <<doing, acc>>
  /\ UNCHANGED <<queued, grid, launches, semaphores, out>>

GoTo(b, t, step) == doing' = [doing EXCEPT ![b][t] = step]
AllGoTo(b, step) == doing' = [doing EXCEPT ![b] = [t \in TileThreads |-> step]]
AllAt(b, step) == \A t \in TileThreads : doing[b][t] = step

\* One round of the waiting loop that sees the value; all threads leave it.
Lock(b) ==
  /\ AllAt(b, "lock")
  /\ semaphores[Tile(b)] = Split(b)
  /\ AllGoTo(b, IF Split(b) = 0 THEN "store" ELSE "load")
  /\ UNCHANGED <<acc, out, semaphores>>

\* Mutant: no barrier between the loads and the stores.
LoadPartial_NoBarrier(b, t) ==
  /\ doing[b][t] = "load"
  /\ LET e == LoadedBy(t)
     IN  acc' = [acc EXCEPT ![b][e] = out[Tile(b)][e] \o <<Split(b)>>]
  /\ GoTo(b, t, "store")
  /\ UNCHANGED <<out, semaphores>>

LoadPartial(b, t) ==
  /\ doing[b][t] = "load"
  /\ LET e == LoadedBy(t)
     IN  acc' = [acc EXCEPT ![b][e] = out[Tile(b)][e] \o <<Split(b)>>]
  /\ GoTo(b, t, IF grid.kernel = "matmul" THEN "store" ELSE "merge")
  /\ UNCHANGED <<out, semaphores>>

\* The barrier after the loads through shared memory.
Merge(b) ==
  /\ AllAt(b, "merge")
  /\ AllGoTo(b, "store")
  /\ UNCHANGED <<acc, out, semaphores>>

Store(b, t) ==
  /\ doing[b][t] = "store"
  /\ out' = [out EXCEPT ![Tile(b)][t] = acc[b][t]]
  /\ GoTo(b, t, "sync")
  /\ UNCHANGED <<acc, semaphores>>

\* The barrier between the stores and the release.
SyncBlock(b) ==
  /\ AllAt(b, "sync")
  /\ AllGoTo(b, "release")
  /\ UNCHANGED <<acc, out, semaphores>>

\* The elected thread releases; with it the block ends.
ReleaseTile(b) ==
  /\ AllAt(b, "release")
  /\ semaphores' = [semaphores EXCEPT ![Tile(b)] = NextHolder(Tile(b), Split(b))]
  /\ doing' = [n \in DOMAIN doing \ {b} |-> doing[n]]
  /\ acc' = [n \in DOMAIN acc \ {b} |-> acc[n]]
  /\ UNCHANGED out

Thread ==
  /\ \E b \in DOMAIN doing :
       \/ Lock(b) \/ Merge(b) \/ SyncBlock(b) \/ ReleaseTile(b)
       \/ \E t \in TileThreads : LoadPartial(b, t) \/ Store(b, t)
  /\ UNCHANGED <<queued, grid, launches, dispatched>>

LaunchDone == grid # NoGrid /\ dispatched = Blocks /\ DOMAIN doing = {}

End ==
  /\ LaunchDone
  /\ grid' = NoGrid
  /\ UNCHANGED <<queued, launches, semaphores, out, dispatched, doing, acc>>

Device == Begin \/ Dispatch \/ Thread \/ End
SplitNext == Launch \/ Device
SplitSpec == SplitInit /\ [][SplitNext]_splitVars /\ WF_splitVars(Device)

-----------------------------------------------------------------------------
\* When a launch is done every element is the sum of exactly the splits that
\* contribute to its tile, each once and in order (store_back, __call__).
TilesComplete ==
  LaunchDone =>
    \A i \in 0..(grid.tiles - 1), t \in TileThreads :
      LET n == Cardinality({z \in 0..(grid.splits - 1) : Active(grid, i, z)})
      IN  out[i][t] = [k \in 1..n |-> k - 1]

\* Every kernel leaves the clean workspace as it was given to it: zero, also
\* where a smaller launch did not reach (request_cuda_workspace).
WorkspaceRestored ==
  grid = NoGrid => \A i \in DOMAIN semaphores : semaphores[i] = 0

\* Blocks that wait for a semaphore are let in and every launch ends, also when
\* the device holds fewer blocks than wait.
LaunchesEnd == <>[](grid = NoGrid /\ queued = NoGrid)
=============================================================================

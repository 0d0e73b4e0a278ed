---------------------------- MODULE KernelProofs ----------------------------
(***************************************************************************)
(* What kernels do when they run: for any number of tiles, splits, threads, *)
(* launches and resident blocks (SplitK), for any programs of collective    *)
(* instructions (Collectives), and for blocks and warps of any size and any *)
(* nesting of thread groups (ThreadGroup).                                  *)
(*                                                                         *)
(* A tile has a turn h: the splits below h have added to it and are gone,   *)
(* the others have not begun, except for the block of split h, which may    *)
(* hold the tile.  The semaphore has h, or zero when no split is left.      *)
(*                                                                         *)
(* The speed of the warps does not matter to a collective instruction: at   *)
(* every moment each warp of a thread group has the registers it would have *)
(* if all warps ran in step.  First the recursive definitions, then the     *)
(* phases of an instruction, then warps that are at different phases.       *)
(*                                                                         *)
(* The threads that execute a group are the ones the compiler believes to,  *)
(* and each synchronisation is for exactly them (Regular names the three    *)
(* shapes of group that are left out).  A level of the stack is either a    *)
(* range of threads numbered from its begin (RangeLevel) or one elected     *)
(* thread of such a range (LaneLevel).                                      *)
(***************************************************************************)
EXTENDS ThreadGroup, SplitK, Collectives, FiniteSetTheorems, SequenceTheorems, WellFoundedInduction, TLAPS

-----------------------------------------------------------------------------
(* Numbers. *)

LEMMA Reach ==
  ASSUME NEW S, 0 \in S, \A n \in Nat : n \in S => n + 1 \in S
  PROVE  \A n \in Nat : n \in S
<1> DEFINE T == Nat \ S
<1> SUFFICES ASSUME T # {} PROVE FALSE
  OBVIOUS
<1>1. PICK m \in T : \A k \in T : <<k, m>> \notin OpToRel(<, Nat)
  BY NatLessThanWellFounded, WFMin, Zenon
<1>2. m # 0 /\ m - 1 \in Nat /\ m - 1 < m /\ (m - 1) + 1 = m
  BY SMT
<1>3. m - 1 \notin T
  BY <1>1, <1>2 DEF OpToRel
<1>4. m \in S
  BY <1>2, <1>3
<1> QED BY <1>4

\* A power of two is above its exponent, so doubling gets there.
LEMMA NextPow2Covers ==
  ASSUME NEW n \in Nat
  PROVE  NextPow2(n) \in Nat /\ n <= NextPow2(n)
<1> DEFINE Double(h, k) == IF h[k - 1] < n THEN 2 * h[k - 1] ELSE h[k - 1]
           Next(h, k) == IF k = 0 THEN 1 ELSE Double(h, k)
           Runs(h, m) == h = [k \in 0..m |-> Next(h, k)]
           A == {m \in Nat : \E h : Runs(h, m)}
<1>1. 0 \in A
  <2> DEFINE k == [j \in 0..0 |-> 1]
  <2>1. k = [j \in 0..0 |-> Next(k, j)]
    OBVIOUS
  <2>2. Runs(k, 0)
    BY <2>1
  <2> HIDE DEF k, Runs
  <2> QED BY <2>2
<1>2. ASSUME NEW m \in Nat, m \in A PROVE m + 1 \in A
  <2>1. PICK h : Runs(h, m)
    BY <1>2
  <2> DEFINE k == [j \in 0..(m + 1) |-> IF j = m + 1 THEN Double(h, j) ELSE h[j]]
  <2>2. ASSUME NEW j \in 0..(m + 1) PROVE k[j] = Next(k, j)
    <3>1. CASE j = m + 1
      <4>1. j # 0 /\ j - 1 = m /\ m \in 0..(m + 1) /\ m # m + 1
        BY <3>1
      <4>2. k[m] = h[m] /\ k[j] = Double(h, j)
        BY <3>1, <4>1
      <4> HIDE DEF k
      <4> QED BY <4>1, <4>2
    <3>2. CASE j # m + 1
      <4>1. j \in 0..m /\ (j # 0 => j - 1 \in 0..(m + 1) /\ j - 1 # m + 1)
        BY <3>2
      <4>2. h[j] = Next(h, j) /\ k[j] = h[j]
        BY <2>1, <3>2, <4>1
      <4>3. j # 0 => k[j - 1] = h[j - 1]
        BY <4>1
      <4> HIDE DEF k
      <4> QED BY <4>2, <4>3
    <3> QED BY <3>1, <3>2
  <2>3. Runs(k, m + 1)
    <3>1. k = [j \in 0..(m + 1) |-> k[j]]
      OBVIOUS
    <3> HIDE DEF k
    <3> QED BY <2>2, <3>1
  <2> HIDE DEF k, Runs
  <2> QED BY <2>3
<1>3. PICK h : Runs(h, n)
  <2> HIDE DEF Runs
  <2>1. \A m \in Nat : m \in A
    <3> HIDE DEF A
    <3> QED BY <1>1, <1>2, Reach
  <2> QED BY <2>1
<1> DEFINE power == CHOOSE f : Runs(f, n)
<1>4. Runs(power, n)
  <2> HIDE DEF Runs
  <2> QED BY <1>3
<1>5. NextPow2(n) = power[n]
  BY DEF NextPow2
<1> HIDE DEF power
<1>6. power[0] = 1 /\ \A k \in 1..n : power[k] = Double(power, k)
  BY <1>4
<1>7. \A k \in 0..n : power[k] \in Nat /\ (power[k] >= n \/ power[k] > k)
  <2> DEFINE B == {k \in Nat : k <= n => power[k] \in Nat /\ (power[k] >= n \/ power[k] > k)}
  <2>1. 0 \in B
    BY <1>6
  <2>2. ASSUME NEW k \in Nat, k \in B PROVE k + 1 \in B
    <3>1. SUFFICES ASSUME k + 1 <= n
                   PROVE  power[k + 1] \in Nat /\ (power[k + 1] >= n \/ power[k + 1] > k + 1)
      OBVIOUS
    <3>2. power[k] \in Nat /\ (power[k] >= n \/ power[k] > k)
      BY <2>2, <3>1
    <3>3. power[k + 1] = IF power[k] < n THEN 2 * power[k] ELSE power[k]
      <4>1. k + 1 \in 1..n /\ (k + 1) - 1 = k
        BY <3>1
      <4> QED BY <1>6, <4>1
    <3> QED BY <3>2, <3>3
  <2>3. \A k \in Nat : k \in B
    <3> HIDE DEF B
    <3> QED BY <2>1, <2>2, Reach
  <2> QED BY <2>3
<1> QED BY <1>5, <1>7

-----------------------------------------------------------------------------
(* Blocks that add to a tile in turn. *)

Steps == {"lock", "load", "merge", "store", "sync", "release"}
Tiles == 0..(grid.tiles - 1)

\* An element with the first h splits in it.
Added(h) == IF h = 0 THEN Old ELSE [k \in 1..h |-> k - 1]

\* Split h takes part in the tile.
Contributes(i, h) == h < grid.splits /\ Active(grid, i, h)

\* The workspace: what it is and what the launches find in it.
HostTypes ==
  /\ queued \in Grids \cup {NoGrid} /\ grid \in Grids \cup {NoGrid}
  /\ \E n \in Nat : semaphores \in [0..(n - 1) -> Nat]
  /\ \A g \in {queued, grid} \ {NoGrid} : 0..(g.tiles - 1) \subseteq DOMAIN semaphores
  /\ out \in [0..(MaxTiles - 1) -> [TileThreads -> Seq(Int)]]

DeviceTypes ==
  /\ dispatched \in Nat
  /\ grid = NoGrid => DOMAIN doing = {}
  /\ grid # NoGrid => dispatched <= Blocks /\ DOMAIN doing \subseteq 0..(dispatched - 1)
  /\ doing \in [DOMAIN doing -> [TileThreads -> Steps]]
  /\ acc \in [DOMAIN doing -> [TileThreads -> Seq(Int)]]

\* Only the tiles of the running launch use their semaphores.
OthersZero ==
  \A i \in DOMAIN semaphores : (grid = NoGrid \/ i >= grid.tiles) => semaphores[i] = 0

\* The block of the tile's turn has stored the element.
Stored(i, h, t) ==
  \E b \in DOMAIN doing : Tile(b) = i /\ Split(b) = h /\ doing[b][t] \in {"sync", "release"}

Turn(i, h) ==
  /\ \A z \in 0..(h - 1) : Active(grid, i, z)
  /\ semaphores[i] = IF Contributes(i, h) THEN h ELSE 0
  /\ \A b \in 0..(Blocks - 1) : Tile(b) = i /\ Split(b) < h => b < dispatched /\ b \notin DOMAIN doing
  /\ \A b \in 0..(Blocks - 1) :
       Tile(b) = i /\ Split(b) >= h /\ Contributes(i, Split(b)) => b >= dispatched \/ b \in DOMAIN doing
  /\ \A b \in DOMAIN doing : Tile(b) = i /\ Split(b) # h => AllAt(b, "lock")
  /\ \A t \in TileThreads : out[i][t] = Added(IF Stored(i, h, t) THEN h + 1 ELSE h)

TileTurns == grid # NoGrid => \A i \in Tiles : \E h \in 0..grid.splits : Turn(i, h)

\* The threads of a block are together between two barriers.
Together(b) ==
  \/ AllAt(b, "lock")
  \/ grid.kernel = "matmul" /\ \A t \in TileThreads : doing[b][t] \in {"load", "store", "sync"}
  \/ grid.kernel = "attention" /\ \A t \in TileThreads : doing[b][t] \in {"load", "merge"}
  \/ \A t \in TileThreads : doing[b][t] \in {"store", "sync"}
  \/ AllAt(b, "release")

\* What a resident block holds.
BlockInv(b) ==
  /\ Contributes(Tile(b), Split(b))
  /\ Together(b)
  /\ Split(b) = 0 => \A t \in TileThreads : doing[b][t] \notin {"load", "merge"} /\ acc[b][t] = Added(1)
  /\ \A t \in TileThreads :
       doing[b][t] \notin {"lock", "load"} => acc[b][LoadedBy(t)] = Added(Split(b) + 1)

BlocksInv == \A b \in DOMAIN doing : BlockInv(b)

SplitInv == HostTypes /\ DeviceTypes /\ OthersZero /\ TileTurns /\ BlocksInv
-----------------------------------------------------------------------------
(* Arithmetic. *)

LEMMA Division ==
  ASSUME NEW a \in Nat, NEW n \in Nat \ {0}
  PROVE  /\ a \div n \in Nat /\ a % n \in 0..(n - 1)
         /\ a = n * (a \div n) + (a % n)
  OBVIOUS

LEMMA Quotient ==
  ASSUME NEW n \in Nat \ {0}, NEW q \in Nat, NEW r \in 0..(n - 1)
  PROVE  (q * n + r) \div n = q /\ (q * n + r) % n = r
  OBVIOUS

LEMMA Monotone ==
  ASSUME NEW n \in Nat, NEW q \in Nat, NEW r \in Nat, q <= r
  PROVE  q * n <= r * n
  OBVIOUS

LEMMA RoundUpCovers ==
  ASSUME NEW n \in Nat, NEW a \in Nat \ {0}
  PROVE RoundUp(n, a) \in Nat /\ n <= RoundUp(n, a)
  BY DEF RoundUp

LEMMA GridFacts ==
  ASSUME grid \in Grids
  PROVE  /\ grid.tiles \in 1..MaxTiles /\ grid.splits \in Nat \ {0}
         /\ grid.block_q \in Nat /\ grid.split_kv \in Nat
         /\ grid.kernel \in {"matmul", "attention"}
         /\ grid # NoGrid /\ Blocks \in Nat
         /\ grid.kernel = "attention" =>
              grid.block_q > 0 /\ grid.tiles * grid.block_q <= grid.splits * grid.split_kv
  BY SplitKAssumption DEF Blocks

\* A block has one tile and one split, and every tile and split a block.
LEMMA BlockOfTurn ==
  ASSUME grid \in Grids, NEW i \in Tiles, NEW h \in 0..(grid.splits - 1)
  PROVE  \E b \in 0..(Blocks - 1) : Tile(b) = i /\ Split(b) = h
<1> DEFINE b == h * grid.tiles + i
<1>1. grid.tiles \in Nat \ {0} /\ grid.splits \in Nat \ {0} /\ i \in 0..(grid.tiles - 1) /\ h \in Nat
  BY GridFacts DEF Tiles
<1>2. Tile(b) = i /\ Split(b) = h
  BY <1>1, Quotient DEF Tile, Split
<1>3. (h + 1) * grid.tiles <= grid.splits * grid.tiles
  BY <1>1, Monotone
<1>4. b \in 0..(Blocks - 1)
  BY <1>1, <1>3 DEF Blocks
<1> QED BY <1>2, <1>4

LEMMA TurnOfBlock ==
  ASSUME grid \in Grids, NEW b \in 0..(Blocks - 1)
  PROVE  /\ Tile(b) \in Tiles /\ Split(b) \in 0..(grid.splits - 1)
         /\ b = grid.tiles * Split(b) + Tile(b)
<1>1. grid.tiles \in Nat \ {0} /\ grid.splits \in Nat \ {0} /\ b \in Nat /\ b < grid.tiles * grid.splits
  BY GridFacts DEF Blocks
<1>2. b % grid.tiles \in 0..(grid.tiles - 1) /\ b \div grid.tiles \in Nat
      /\ b = grid.tiles * (b \div grid.tiles) + (b % grid.tiles)
  BY <1>1, Division
<1>3. b \div grid.tiles < grid.splits
  <2> SUFFICES ASSUME grid.splits <= b \div grid.tiles PROVE FALSE
    BY <1>1, <1>2
  <2>1. grid.splits * grid.tiles <= (b \div grid.tiles) * grid.tiles
    BY <1>1, <1>2, Monotone
  <2> QED BY <1>1, <1>2, <2>1
<1> QED BY <1>1, <1>2, <1>3 DEF Tile, Split, Tiles

LEMMA SameBlock ==
  ASSUME grid \in Grids, NEW b \in 0..(Blocks - 1), NEW c \in 0..(Blocks - 1),
         Tile(b) = Tile(c), Split(b) = Split(c)
  PROVE  b = c
  BY TurnOfBlock

\* Every element of a block is loaded by some thread.
LEMMA LoadedByThreads ==
  ASSUME grid \in Grids
  PROVE  /\ \A t \in TileThreads : LoadedBy(t) \in TileThreads
         /\ \A e \in TileThreads : \E t \in TileThreads : LoadedBy(t) = e
<1>1. PICK n \in Nat \ {0} : TileThreads = 0..(n - 1)
  <2>1. Cardinality(TileThreads) \in Nat
    BY SplitKAssumption, FS_CardinalityType
  <2>2. Cardinality(TileThreads) # 0
    BY SplitKAssumption, <2>1
  <2> QED BY SplitKAssumption, <2>1, <2>2
<1>2. Cardinality(TileThreads) = n
  BY <1>1, FS_Interval
<1>3. \A t \in 0..(n - 1) : t + 1 < n => (t + 1) % n = t + 1
  BY <1>1
<1>4. n % n = 0
  BY <1>1
<1>5. CASE grid.kernel = "matmul"
  BY <1>5 DEF LoadedBy
<1>6. CASE grid.kernel # "matmul"
  <2>1. \A t \in 0..(n - 1) : LoadedBy(t) = IF t + 1 < n THEN t + 1 ELSE 0
    BY <1>1, <1>2, <1>3, <1>4, <1>6 DEF LoadedBy
  <2>2. ASSUME NEW e \in 0..(n - 1) PROVE \E t \in 0..(n - 1) : LoadedBy(t) = e
    <3>1. CASE e = 0
      <4>1. n - 1 \in 0..(n - 1) /\ LoadedBy(n - 1) = e
        BY <1>1, <2>1, <3>1
      <4> QED BY <4>1
    <3>2. CASE e # 0
      <4>1. e - 1 \in 0..(n - 1) /\ LoadedBy(e - 1) = e
        BY <1>1, <2>1, <3>2
      <4> QED BY <4>1
    <3> QED BY <3>1, <3>2
  <2>3. \A t \in 0..(n - 1) : LoadedBy(t) \in 0..(n - 1)
    BY <1>1, <2>1
  <2> HIDE DEF LoadedBy
  <2> QED BY <1>1, <2>2, <2>3
<1> QED BY <1>5, <1>6

\* The splits that take part are the first ones.
LEMMA ContributesDown ==
  ASSUME grid \in Grids, NEW i \in Tiles, NEW z \in Nat, NEW h \in Nat, h <= z, Contributes(i, z)
  PROVE  Contributes(i, h)
<1>1. h * grid.split_kv <= z * grid.split_kv
  BY GridFacts, Monotone
<1> QED BY <1>1, GridFacts DEF Contributes, Active, Tiles

LEMMA FirstContributes ==
  ASSUME grid \in Grids, NEW i \in Tiles
  PROVE  Contributes(i, 0)
<1>1. grid.kernel = "attention" => 0 < i * grid.block_q + grid.block_q
  <2>1. 0 * grid.block_q <= i * grid.block_q
    BY GridFacts, Monotone DEF Tiles
  <2> QED BY <2>1, GridFacts DEF Tiles
<1> QED BY <1>1, GridFacts DEF Contributes, Active

\* The semaphore is handed to the next split that takes part.
LEMMA NextHolderRight ==
  ASSUME grid \in Grids, NEW i \in Tiles, NEW z \in 0..(grid.splits - 1)
  PROVE  NextHolder(i, z) = IF Contributes(i, z + 1) THEN z + 1 ELSE 0
<1>1. CASE grid.kernel = "matmul"
  <2>1. z + 1 < grid.splits => (z + 1) % grid.splits = z + 1
    BY GridFacts
  <2>2. z + 1 = grid.splits => (z + 1) % grid.splits = 0
    BY GridFacts
  <2> QED BY <1>1, <2>1, <2>2, GridFacts DEF NextHolder, Contributes, Active
<1>2. CASE grid.kernel = "attention"
  <2>1. Active(grid, i, z + 1) => z + 1 < grid.splits
    <3> SUFFICES ASSUME (z + 1) * grid.split_kv < i * grid.block_q + grid.block_q, z + 1 >= grid.splits
                 PROVE FALSE
      BY <1>2, GridFacts DEF Active
    <3>1. (i + 1) * grid.block_q <= grid.tiles * grid.block_q
      BY GridFacts, Monotone DEF Tiles
    <3>2. grid.splits * grid.split_kv <= (z + 1) * grid.split_kv
      BY GridFacts, Monotone
    <3>3. (i + 1) * grid.block_q = i * grid.block_q + grid.block_q
      BY GridFacts DEF Tiles
    <3> DEFINE p == i * grid.block_q + grid.block_q
               q == grid.tiles * grid.block_q
               r == grid.splits * grid.split_kv
               s == (z + 1) * grid.split_kv
    <3>4. p \in Int /\ q \in Int /\ r \in Int /\ s \in Int
      BY GridFacts DEF Tiles
    <3>5. p <= q /\ q <= r /\ r <= s /\ s < p
      BY <1>2, <3>1, <3>2, <3>3, GridFacts
    <3> HIDE DEF p, q, r, s
    <3> QED BY <3>4, <3>5
  <2> QED BY <1>2, <2>1, GridFacts DEF NextHolder, Contributes, Active
<1> QED BY <1>1, <1>2, GridFacts
-----------------------------------------------------------------------------
(* The start and the host. *)

LEMMA InitInv == SplitInit => SplitInv
<1> SUFFICES ASSUME SplitInit PROVE SplitInv
  OBVIOUS
<1> USE DEF SplitInit
<1>1. HostTypes
  <2>1. semaphores \in [0..(0 - 1) -> Nat]
    OBVIOUS
  <2>2. Old \in Seq(Int)
    BY DEF Old
  <2> QED BY <2>1, <2>2 DEF HostTypes
<1>2. DeviceTypes
  BY DEF DeviceTypes
<1>3. OthersZero /\ TileTurns /\ BlocksInv
  BY DEF OthersZero, TileTurns, BlocksInv
<1> QED BY <1>1, <1>2, <1>3 DEF SplitInv

\* What is not touched stays right: everything but the workspace depends on these variables.
LEMMA SameBlocks ==
  ASSUME UNCHANGED <<grid, dispatched, doing, acc, out>>, UNCHANGED semaphores
  PROVE  (TileTurns => TileTurns') /\ (BlocksInv => BlocksInv')
  BY DEF TileTurns, Turn, Stored, Tiles, Blocks, Tile, Split, Contributes, AllAt, BlocksInv, BlockInv,
         Together, LoadedBy

LEMMA LaunchInv == SplitInv /\ Launch => SplitInv'
<1> SUFFICES ASSUME SplitInv, Launch PROVE SplitInv'
  OBVIOUS
<1>1. PICK g \in Grids :
        /\ queued' = g
        /\ IF CleanSize < Requested(g)
           THEN grid = NoGrid /\ semaphores' = Zeroed(NextPow2(Requested(g)))
           ELSE UNCHANGED semaphores
  BY DEF Launch
<1>2. UNCHANGED <<grid, dispatched, doing, acc, out>>
  BY DEF Launch
<1>3. g # NoGrid /\ g.tiles \in Nat /\ g.tiles <= Requested(g) /\ Requested(g) \in Nat
  <2>1. g # NoGrid /\ g.tiles \in 1..MaxTiles /\ MaxTiles \in Nat /\ Align \in Nat \ {0}
    BY SplitKAssumption
  <2> QED BY <2>1, RoundUpCovers DEF Requested
<1>4. PICK n \in Nat : semaphores \in [0..(n - 1) -> Nat]
  BY DEF SplitInv, HostTypes
<1>5. CleanSize = n
  <2>1. Cardinality(0..(n - 1)) = n
    BY <1>4, FS_Interval
  <2> QED BY <1>4, <2>1 DEF CleanSize
<1>6. CASE CleanSize < Requested(g)
  <2>1. grid = NoGrid /\ semaphores' = Zeroed(NextPow2(Requested(g)))
    BY <1>1, <1>6
  <2>2. NextPow2(Requested(g)) \in Nat /\ Requested(g) <= NextPow2(Requested(g))
    BY <1>3, NextPow2Covers
  <2>3. semaphores' \in [0..(NextPow2(Requested(g)) - 1) -> Nat]
    BY <2>1, <2>2 DEF Zeroed
  <2>4. HostTypes'
    <3>1. DOMAIN semaphores' = 0..(NextPow2(Requested(g)) - 1)
      BY <2>1 DEF Zeroed
    <3>2. 0..(g.tiles - 1) \subseteq DOMAIN semaphores'
      BY <1>3, <2>2, <3>1
    <3>3. queued' = g /\ grid' = NoGrid /\ out' = out
      BY <1>1, <1>2, <2>1
    <3> QED BY <2>2, <2>3, <3>2, <3>3 DEF SplitInv, HostTypes
  <2>5. OthersZero'
    BY <2>1, <2>2 DEF OthersZero, Zeroed
  <2>6. DeviceTypes' /\ TileTurns' /\ BlocksInv'
    BY <1>2, <2>1 DEF SplitInv, DeviceTypes, TileTurns, BlocksInv
  <2> QED BY <2>4, <2>5, <2>6 DEF SplitInv
<1>7. CASE ~(CleanSize < Requested(g))
  <2>1. UNCHANGED semaphores /\ 0..(g.tiles - 1) \subseteq DOMAIN semaphores
    BY <1>1, <1>3, <1>4, <1>5, <1>7
  <2>2. HostTypes'
    BY <1>1, <1>2, <2>1 DEF SplitInv, HostTypes
  <2>3. DeviceTypes' /\ OthersZero'
    BY <1>2, <2>1 DEF SplitInv, DeviceTypes, OthersZero, Blocks
  <2> QED BY <1>2, <2>1, <2>2, <2>3, SameBlocks DEF SplitInv
<1> QED BY <1>6, <1>7

LEMMA BeginInv == SplitInv /\ Begin => SplitInv'
<1> SUFFICES ASSUME SplitInv, Begin PROVE SplitInv'
  OBVIOUS
<1>1. /\ grid = NoGrid /\ grid' = queued /\ queued \in Grids /\ queued # NoGrid /\ queued' = NoGrid
      /\ dispatched' = 0 /\ UNCHANGED <<launches, semaphores, doing, acc>>
      /\ out' = [i \in 0..(MaxTiles - 1) |-> [t \in TileThreads |-> Old]]
  BY SplitKAssumption DEF SplitInv, HostTypes, Begin
<1>2. DOMAIN doing = {}
  BY <1>1 DEF SplitInv, DeviceTypes
<1>3. HostTypes'
  <2>1. Old \in Seq(Int)
    BY DEF Old
  <2> QED BY <1>1, <2>1 DEF SplitInv, HostTypes
<1>4. DeviceTypes'
  <2>1. Blocks' \in Nat
    BY <1>1, SplitKAssumption DEF Blocks
  <2> QED BY <1>1, <1>2, <2>1 DEF SplitInv, DeviceTypes
<1>5. OthersZero'
  BY <1>1 DEF SplitInv, OthersZero
<1>6. BlocksInv'
  BY <1>1, <1>2 DEF BlocksInv
<1>7. TileTurns'
  <2> SUFFICES ASSUME NEW i \in Tiles' PROVE Turn(i, 0)'
    BY <1>1, SplitKAssumption DEF TileTurns
  <2>1. i \in DOMAIN semaphores /\ semaphores'[i] = 0 /\ i \in 0..(MaxTiles - 1)
    <3>1. i \in 0..(queued.tiles - 1) /\ queued \in Grids
      BY <1>1 DEF Tiles
    <3>2. i \in DOMAIN semaphores
      BY <1>1, <3>1 DEF SplitInv, HostTypes
    <3>3. i \in 0..(MaxTiles - 1)
      BY <3>1, SplitKAssumption
    <3> QED BY <1>1, <3>2, <3>3 DEF SplitInv, OthersZero
  <2>2. \A t \in TileThreads : out'[i][t] = Added(0) /\ ~Stored(i, 0, t)'
    BY <1>1, <1>2, <2>1 DEF Added, Stored
  <2>3. \A b \in (0..(Blocks - 1))' : Split(b)' < 0 => FALSE
    BY <1>1, SplitKAssumption, Division DEF Blocks, Split
  <2> QED BY <1>1, <1>2, <2>1, <2>2, <2>3 DEF Turn
<1> QED BY <1>3, <1>4, <1>5, <1>6, <1>7 DEF SplitInv
-----------------------------------------------------------------------------
(* The end of a launch. *)

\* Nothing is left to do for a tile: no split contributes from its turn on.
LEMMA AtEnd ==
  ASSUME SplitInv, LaunchDone, NEW i \in Tiles, NEW h \in 0..grid.splits, Turn(i, h)
  PROVE  ~Contributes(i, h) /\ semaphores[i] = 0 /\ (\A t \in TileThreads : out[i][t] = Added(h))
<1>1. grid \in Grids /\ dispatched = Blocks /\ DOMAIN doing = {}
  BY DEF LaunchDone, SplitInv, HostTypes
<1>2. ~Contributes(i, h)
  <2> SUFFICES ASSUME Contributes(i, h) PROVE FALSE
    OBVIOUS
  <2>1. h \in 0..(grid.splits - 1)
    BY <1>1, GridFacts DEF Contributes
  <2>2. PICK b \in 0..(Blocks - 1) : Tile(b) = i /\ Split(b) = h
    BY <1>1, <2>1, BlockOfTurn
  <2>3. b >= dispatched \/ b \in DOMAIN doing
    BY <2>1, <2>2 DEF Turn
  <2> QED BY <1>1, <2>2, <2>3, GridFacts
<1>3. \A t \in TileThreads : ~Stored(i, h, t)
  BY <1>1 DEF Stored
<1> QED BY <1>2, <1>3 DEF Turn

LEMMA EndInv == SplitInv /\ End => SplitInv'
<1> SUFFICES ASSUME SplitInv, End PROVE SplitInv'
  OBVIOUS
<1>1. /\ LaunchDone /\ grid' = NoGrid /\ grid \in Grids /\ grid # NoGrid /\ DOMAIN doing = {}
      /\ UNCHANGED <<queued, launches, semaphores, out, dispatched, doing, acc>>
  BY DEF End, LaunchDone, SplitInv, HostTypes
<1>2. HostTypes'
  BY <1>1 DEF SplitInv, HostTypes
<1>3. DeviceTypes'
  BY <1>1 DEF SplitInv, DeviceTypes
<1>4. OthersZero'
  <2> SUFFICES ASSUME NEW i \in DOMAIN semaphores, i < grid.tiles PROVE semaphores[i] = 0
    <3>1. grid.tiles \in Int /\ \A i \in DOMAIN semaphores : i \in Int
      BY <1>1, GridFacts DEF SplitInv, HostTypes
    <3> QED BY <1>1, <3>1 DEF SplitInv, OthersZero
  <2>1. i \in Tiles
    <3>1. PICK n \in Nat : DOMAIN semaphores = 0..(n - 1)
      BY DEF SplitInv, HostTypes
    <3> QED BY <1>1, <3>1, GridFacts DEF Tiles
  <2>2. PICK h \in 0..grid.splits : Turn(i, h)
    BY <1>1, <2>1 DEF SplitInv, TileTurns
  <2> QED BY <1>1, <2>1, <2>2, AtEnd
<1>5. TileTurns' /\ BlocksInv'
  BY <1>1 DEF TileTurns, BlocksInv
<1> QED BY <1>2, <1>3, <1>4, <1>5 DEF SplitInv

-----------------------------------------------------------------------------
(* The blocks. *)

LEMMA DispatchInv == SplitInv /\ Dispatch => SplitInv'
<1> SUFFICES ASSUME SplitInv, Dispatch PROVE SplitInv'
  OBVIOUS
<1>a. PICK n \in Nat : n = dispatched
  BY DEF SplitInv, DeviceTypes
<1>1. /\ grid \in Grids /\ n \in 0..(Blocks - 1) /\ n \in Nat /\ dispatched' = n + 1
      /\ UNCHANGED <<queued, grid, launches, semaphores, out>>
      /\ n \notin DOMAIN doing /\ DOMAIN doing \subseteq 0..(Blocks - 1)
  <2>1. grid \in Grids /\ Blocks \in Nat
    BY GridFacts DEF Dispatch, SplitInv, HostTypes
  <2> QED BY <1>a, <2>1 DEF Dispatch, SplitInv, DeviceTypes
<1>2. HostTypes' /\ OthersZero'
  BY <1>1 DEF SplitInv, HostTypes, OthersZero
<1>3. Tile(n) \in Tiles /\ Split(n) \in 0..(grid.splits - 1)
  BY <1>a, <1>1, TurnOfBlock
<1>4. CASE ~Active(grid, Tile(n), Split(n))
  <2>1. UNCHANGED <<doing, acc>>
    BY <1>a, <1>4 DEF Dispatch
  <2>2. DeviceTypes'
    BY <1>a, <1>1, <2>1, GridFacts DEF SplitInv, DeviceTypes, Blocks
  <2>3. BlocksInv'
    BY <1>a, <1>1, <2>1 DEF SplitInv, BlocksInv, BlockInv, Contributes, Together, AllAt, LoadedBy, Tile, Split
  <2>4. ASSUME NEW i \in Tiles, NEW h \in 0..grid.splits, Turn(i, h)
        PROVE  Turn(i, h)'
    <3>1. \A b \in 0..(Blocks - 1) :
            Tile(b) = i /\ Split(b) >= h /\ Contributes(i, Split(b)) => b >= n + 1 \/ b \in DOMAIN doing
      <4> SUFFICES ASSUME NEW b \in 0..(Blocks - 1), Tile(b) = i, Split(b) >= h, Contributes(i, Split(b)),
                          b \notin DOMAIN doing
                   PROVE  b >= n + 1
        OBVIOUS
      <4>1. b # n /\ b >= n /\ b \in Int
        BY <1>a, <1>1, <1>4, <2>4, GridFacts DEF Turn, Contributes
      <4> QED BY <1>a, <1>1, <4>1
    <3>2. \A b \in 0..(Blocks - 1) : Tile(b) = i /\ Split(b) < h => b < n + 1 /\ b \notin DOMAIN doing
      BY <1>a, <1>1, <2>4, GridFacts DEF Turn
    <3> QED BY <1>a, <1>1, <2>1, <2>4, <3>1, <3>2
            DEF Turn, Contributes, Stored, AllAt, Tile, Split, Blocks
  <2>5. TileTurns'
    BY <1>a, <1>1, <2>4 DEF SplitInv, TileTurns, Tiles
  <2> QED BY <1>2, <2>2, <2>3, <2>5 DEF SplitInv
<1>5. CASE Active(grid, Tile(n), Split(n))
  <2> DEFINE first == [t \in TileThreads |-> Start(Split(n))]
             own == [t \in TileThreads |-> <<Split(n)>>]
  <2>1. /\ DOMAIN doing' = DOMAIN doing \cup {n} /\ DOMAIN acc' = DOMAIN doing \cup {n}
        /\ doing' = [b \in DOMAIN doing \cup {n} |-> IF b = n THEN first ELSE doing[b]]
        /\ acc' = [b \in DOMAIN doing \cup {n} |-> IF b = n THEN own ELSE acc[b]]
    <3>1. /\ doing' = Extended(doing, n, first)
          /\ acc' = Extended(acc, n, own)
      BY <1>a, <1>5 DEF Dispatch
    <3>2. DOMAIN acc = DOMAIN doing
      BY DEF SplitInv, DeviceTypes
    <3> HIDE DEF first, own
    <3> QED BY <1>a, <1>1, <3>1, <3>2 DEF Extended
  <2>2. first \in [TileThreads -> Steps] /\ own \in [TileThreads -> Seq(Int)]
    <3>1. Start(Split(n)) \in Steps /\ <<Split(n)>> \in Seq(Int)
      BY <1>3 DEF Start, Steps
    <3> QED BY <3>1
  <2>3. DeviceTypes'
    <3>1. doing' \in [DOMAIN doing' -> [TileThreads -> Steps]] /\ acc' \in [DOMAIN doing' -> [TileThreads -> Seq(Int)]]
      BY <2>1, <2>2 DEF SplitInv, DeviceTypes
    <3>2. grid' # NoGrid /\ dispatched' <= Blocks' /\ DOMAIN doing' \subseteq 0..(dispatched' - 1)
      BY <1>a, <1>1, <2>1, GridFacts DEF SplitInv, DeviceTypes, Blocks
    <3> QED BY <1>a, <1>1, <3>1, <3>2 DEF DeviceTypes
  <2>4. ASSUME NEW b \in DOMAIN doing PROVE BlockInv(b)'
    <3>1. BlockInv(b) /\ doing'[b] = doing[b] /\ acc'[b] = acc[b]
      BY <1>a, <1>1, <2>1 DEF SplitInv, BlocksInv
    <3> QED BY <1>a, <1>1, <3>1 DEF BlockInv, Contributes, Together, AllAt, LoadedBy, Tile, Split
  <2>5. BlockInv(n)'
    <3>1. doing'[n] = first /\ acc'[n] = own
      BY <2>1
    <3>2. Split(n) = 0 => own = [t \in TileThreads |-> Added(1)]
      <4>1. Added(1) = <<0>>
        BY DEF Added
      <4> QED BY <4>1
    <3>3. \A t \in TileThreads : LoadedBy(t) \in TileThreads
      BY LoadedByThreads, <1>1
    <3>4. Contributes(Tile(n), Split(n))
      BY <1>a, <1>1, <1>3, <1>5, GridFacts DEF Contributes
    <3>5. (Contributes(Tile(n), Split(n)))'
      BY <1>a, <1>1, <3>4 DEF Contributes, Active, Tile, Split
    <3>6. \A t \in TileThreads : doing'[n][t] = Start(Split(n)) /\ acc'[n][t] = <<Split(n)>>
      BY <3>1
    <3>7. Together(n)'
      BY <1>a, <1>1, <3>6 DEF Together, AllAt, Start
    <3>8. Split(n)' = 0 => \A t \in TileThreads : doing'[n][t] \notin {"load", "merge"} /\ acc'[n][t] = Added(1)
      BY <1>a, <1>1, <3>1, <3>2, <3>6 DEF Start, Split
    <3>9. \A t \in TileThreads :
            doing'[n][t] \notin {"lock", "load"} => acc'[n][LoadedBy(t)'] = Added(Split(n)' + 1)
      <4> SUFFICES ASSUME NEW t \in TileThreads, doing'[n][t] \notin {"lock", "load"}
                   PROVE  acc'[n][LoadedBy(t)'] = Added(Split(n)' + 1)
        OBVIOUS
      <4>1. Split(n) = 0 /\ Split(n)' = 0
        BY <1>a, <1>1, <3>6 DEF Start, Split
      <4>2. LoadedBy(t)' \in TileThreads
        BY <1>a, <1>1, <3>3 DEF LoadedBy
      <4> QED BY <3>8, <4>1, <4>2
    <3> QED BY <3>5, <3>7, <3>8, <3>9 DEF BlockInv
  <2>6. BlocksInv'
    <3> SUFFICES ASSUME NEW b \in DOMAIN doing' PROVE BlockInv(b)'
      BY DEF BlocksInv
    <3> QED BY <2>1, <2>4, <2>5
  <2>7. ASSUME NEW i \in Tiles, NEW h \in 0..grid.splits, Turn(i, h)
        PROVE  Turn(i, h)'
    <3>1. \A b \in 0..(Blocks - 1) :
            Tile(b) = i /\ Split(b) >= h /\ Contributes(i, Split(b)) => b >= n + 1 \/ b \in DOMAIN doing'
      <4> SUFFICES ASSUME NEW b \in 0..(Blocks - 1), Tile(b) = i, Split(b) >= h, Contributes(i, Split(b)),
                          b \notin DOMAIN doing'
                   PROVE  b >= n + 1
        OBVIOUS
      <4>1. b # n /\ b >= n /\ b \in Int
        BY <1>a, <1>1, <2>1, <2>7, GridFacts DEF Turn
      <4> QED BY <1>a, <1>1, <4>1
    <3>2. Tile(n) = i => Split(n) >= h
      BY <1>a, <1>1, <1>3, <2>7 DEF Turn
    <3>3. \A b \in 0..(Blocks - 1) : Tile(b) = i /\ Split(b) < h => b < n + 1 /\ b \notin DOMAIN doing'
      <4> SUFFICES ASSUME NEW b \in 0..(Blocks - 1), Tile(b) = i, Split(b) < h
                   PROVE  b < n + 1 /\ b \notin DOMAIN doing'
        OBVIOUS
      <4>1. Split(b) \in Int /\ h \in Int /\ b < n /\ b \notin DOMAIN doing
        BY <1>a, <1>1, <2>7, TurnOfBlock DEF Turn
      <4> QED BY <1>a, <1>1, <2>1, <4>1
    <3>4. \A b \in DOMAIN doing' : Tile(b) = i /\ Split(b) # h => \A t \in TileThreads : doing'[b][t] = "lock"
      <4> SUFFICES ASSUME NEW b \in DOMAIN doing', Tile(b) = i, Split(b) # h, NEW t \in TileThreads
                   PROVE  doing'[b][t] = "lock"
        OBVIOUS
      <4>1. CASE b = n
        <5>1. Split(n) # 0
          BY <1>3, <3>2, <4>1
        <5> QED BY <2>1, <4>1, <5>1 DEF Start
      <4>2. CASE b # n
        BY <2>1, <2>7, <4>2 DEF Turn, AllAt
      <4> QED BY <4>1, <4>2
    <3>5. \A t \in TileThreads : Stored(i, h, t)' <=> Stored(i, h, t)
      <4>1. \A t \in TileThreads : doing'[n][t] \notin {"sync", "release"}
        BY <2>1 DEF Start
      <4> QED BY <1>a, <1>1, <2>1, <4>1 DEF Stored, Tile, Split
    <3> QED BY <1>a, <1>1, <2>7, <3>1, <3>3, <3>4, <3>5
            DEF Turn, Contributes, AllAt, Tile, Split, Blocks
  <2>8. TileTurns'
    BY <1>a, <1>1, <2>7 DEF SplitInv, TileTurns, Tiles
  <2> QED BY <1>2, <2>3, <2>6, <2>8 DEF SplitInv
<1> QED BY <1>4, <1>5

-----------------------------------------------------------------------------
(* The threads of the block that holds its tile. *)

LEMMA ResidentBlocks ==
  ASSUME SplitInv, NEW b \in DOMAIN doing
  PROVE  /\ grid \in Grids /\ b \in 0..(Blocks - 1) /\ Tile(b) \in Tiles /\ Split(b) \in 0..(grid.splits - 1)
         /\ Tile(b) \in DOMAIN out /\ Tile(b) \in DOMAIN semaphores
         /\ DOMAIN doing \subseteq 0..(Blocks - 1)
<1>1. grid \in Grids
  BY DEF SplitInv, HostTypes, DeviceTypes
<1>2. DOMAIN doing \subseteq 0..(Blocks - 1)
  BY <1>1, GridFacts DEF SplitInv, DeviceTypes
<1>3. Tile(b) \in Tiles /\ Split(b) \in 0..(grid.splits - 1)
  BY <1>1, <1>2, TurnOfBlock
<1>4. Tile(b) \in DOMAIN out
  BY <1>1, <1>3, GridFacts, SplitKAssumption DEF Tiles, SplitInv, HostTypes
<1>5. Tile(b) \in DOMAIN semaphores
  BY <1>1, <1>3, GridFacts DEF Tiles, SplitInv, HostTypes
<1> QED BY <1>1, <1>2, <1>3, <1>4, <1>5

\* A block that is past the lock, or that finds its split in the semaphore, has the turn.
LEMMA Holder ==
  ASSUME SplitInv, NEW b \in DOMAIN doing,
         ~AllAt(b, "lock") \/ semaphores[Tile(b)] = Split(b)
  PROVE  /\ Turn(Tile(b), Split(b))
         /\ \A t \in TileThreads :
              out[Tile(b)][t] = Added(IF doing[b][t] \in {"sync", "release"} THEN Split(b) + 1 ELSE Split(b))
<1>1. /\ grid \in Grids /\ b \in 0..(Blocks - 1) /\ Tile(b) \in Tiles /\ Split(b) \in 0..(grid.splits - 1)
      /\ DOMAIN doing \subseteq 0..(Blocks - 1) /\ Contributes(Tile(b), Split(b))
  BY ResidentBlocks DEF SplitInv, BlocksInv, BlockInv
<1>2. PICK h \in 0..grid.splits : Turn(Tile(b), h)
  BY <1>1, GridFacts DEF SplitInv, TileTurns
<1>3. h <= Split(b)
  BY <1>1, <1>2 DEF Turn
<1>4. Contributes(Tile(b), h)
  BY <1>1, <1>2, <1>3, ContributesDown, GridFacts
<1>5. h = Split(b)
  BY <1>2, <1>4 DEF Turn
<1>6. \A t \in TileThreads : Stored(Tile(b), h, t) <=> doing[b][t] \in {"sync", "release"}
  BY <1>1, <1>5, SameBlock DEF Stored
<1> QED BY <1>2, <1>5, <1>6 DEF Turn

\* A step of a block that has the turn keeps the invariant of the others.
LEMMA StepInv ==
  ASSUME SplitInv, UNCHANGED <<queued, grid, launches, semaphores, dispatched>>,
         NEW b \in DOMAIN doing, Turn(Tile(b), Split(b)),
         NEW after \in [TileThreads -> Steps],
         NEW held \in [TileThreads -> Seq(Int)],
         NEW tile \in [TileThreads -> Seq(Int)],
         doing' = [doing EXCEPT ![b] = after],
         acc' = [acc EXCEPT ![b] = held],
         out' = [out EXCEPT ![Tile(b)] = tile],
         BlockInv(b)',
         \A t \in TileThreads :
           tile[t] = Added(IF after[t] \in {"sync", "release"} THEN Split(b) + 1 ELSE Split(b))
  PROVE  SplitInv'
<1>1. /\ grid \in Grids /\ b \in 0..(Blocks - 1) /\ Tile(b) \in Tiles /\ Split(b) \in 0..(grid.splits - 1)
      /\ Tile(b) \in DOMAIN out /\ DOMAIN doing \subseteq 0..(Blocks - 1)
  BY ResidentBlocks
<1>2. /\ DOMAIN doing' = DOMAIN doing /\ doing'[b] = after
      /\ \A c \in DOMAIN doing \ {b} : doing'[c] = doing[c] /\ acc'[c] = acc[c]
  BY DEF SplitInv, DeviceTypes
<1>3. HostTypes' /\ OthersZero'
  BY <1>1 DEF SplitInv, HostTypes, OthersZero
<1>4. DeviceTypes'
  <2>1. doing' \in [DOMAIN doing' -> [TileThreads -> Steps]]
    BY <1>2 DEF SplitInv, DeviceTypes
  <2>2. acc' \in [DOMAIN doing' -> [TileThreads -> Seq(Int)]]
    BY <1>2 DEF SplitInv, DeviceTypes
  <2> QED BY <1>2, <2>1, <2>2 DEF SplitInv, DeviceTypes, Blocks
<1>5. BlocksInv'
  <2> SUFFICES ASSUME NEW c \in DOMAIN doing, c # b PROVE BlockInv(c)'
    BY <1>2 DEF BlocksInv
  <2>1. BlockInv(c) /\ doing'[c] = doing[c] /\ acc'[c] = acc[c]
    BY <1>2 DEF SplitInv, BlocksInv
  <2> QED BY <2>1 DEF BlockInv, Contributes, Together, AllAt, LoadedBy, Tile, Split
<1>6. ASSUME NEW i \in Tiles, NEW h \in 0..grid.splits, Turn(i, h), i # Tile(b)
      PROVE  Turn(i, h)'
  <2>1. out'[i] = out[i]
    BY <1>6 DEF SplitInv, HostTypes
  <2>2. \A c \in DOMAIN doing : Tile(c) = i => doing'[c] = doing[c]
    BY <1>2, <1>6
  <2>3. \A t \in TileThreads : Stored(i, h, t)' <=> Stored(i, h, t)
    BY <1>2, <2>2 DEF Stored, Tile, Split
  <2> QED BY <1>2, <1>6, <2>1, <2>2, <2>3 DEF Turn, Contributes, AllAt, Tile, Split, Blocks
<1>7. Turn(Tile(b), Split(b))'
  <2>1. \A c \in DOMAIN doing : Tile(c) = Tile(b) /\ Split(c) = Split(b) => c = b
    BY <1>1, SameBlock
  <2>2. \A t \in TileThreads : Stored(Tile(b), Split(b), t)' <=> after[t] \in {"sync", "release"}
    BY <1>2, <2>1 DEF Stored, Tile, Split
  <2>3. out'[Tile(b)] = tile
    BY <1>1
  <2>4. \A c \in DOMAIN doing : Tile(c) = Tile(b) /\ Split(c) # Split(b) => AllAt(c, "lock")'
    BY <1>2 DEF Turn, AllAt
  <2> QED BY <1>2, <2>2, <2>3, <2>4 DEF Turn, Contributes, Tile, Split, Blocks
<1>8. TileTurns'
  <2> SUFFICES ASSUME NEW i \in Tiles PROVE \E h \in 0..grid.splits : Turn(i, h)'
    BY DEF TileTurns, Tiles
  <2>1. PICK h \in 0..grid.splits : Turn(i, h)
    BY <1>1, GridFacts DEF SplitInv, TileTurns
  <2>2. CASE i = Tile(b)
    <3>1. PICK z \in 0..grid.splits : z = Split(b)
      BY <1>1, GridFacts
    <3>2. i = Tile(b)' /\ z = Split(b)'
      BY <2>2, <3>1 DEF Tile, Split
    <3>3. Turn(i, z)'
      BY <1>7, <3>2
    <3> QED BY <3>3
  <2>3. CASE i # Tile(b)
    BY <1>6, <2>1, <2>3
  <2> QED BY <2>2, <2>3
<1> QED BY <1>3, <1>4, <1>5, <1>8 DEF SplitInv

LEMMA LockInv == ASSUME SplitInv, NEW b \in DOMAIN doing, Lock(b),
                        UNCHANGED <<queued, grid, launches, dispatched>>
                 PROVE  SplitInv'
<1> DEFINE step == IF Split(b) = 0 THEN "store" ELSE "load"
<1>1. PICK after \in [TileThreads -> Steps] : after = [t \in TileThreads |-> step]
  BY DEF Steps
<1>2. /\ Tile(b) \in DOMAIN out /\ Split(b) \in Nat /\ grid \in Grids
      /\ acc[b] \in [TileThreads -> Seq(Int)] /\ out[Tile(b)] \in [TileThreads -> Seq(Int)]
      /\ BlockInv(b)
  BY ResidentBlocks DEF SplitInv, DeviceTypes, HostTypes, BlocksInv
<1>3. /\ Turn(Tile(b), Split(b))
      /\ \A t \in TileThreads : out[Tile(b)][t] = Added(Split(b))
  BY Holder DEF Lock, AllAt
<1>4. /\ doing' = [doing EXCEPT ![b] = after] /\ acc' = acc /\ out' = out /\ semaphores' = semaphores
  BY <1>1 DEF Lock, AllGoTo
<1>5. /\ acc' = [acc EXCEPT ![b] = acc[b]] /\ out' = [out EXCEPT ![Tile(b)] = out[Tile(b)]]
  BY <1>4 DEF SplitInv, DeviceTypes, HostTypes
<1>6. BlockInv(b)'
  <2>1. doing'[b] = after /\ acc'[b] = acc[b]
    BY <1>4 DEF SplitInv, DeviceTypes
  <2>2. Contributes(Tile(b), Split(b))'
    BY <1>2 DEF BlockInv, Contributes, Tile, Split
  <2>3. Together(b)'
    BY <1>1, <1>2, <2>1, GridFacts DEF Together, AllAt
  <2>4. \A t \in TileThreads : LoadedBy(t)' \in TileThreads
    BY <1>2, LoadedByThreads DEF LoadedBy
  <2>5. Split(b)' = Split(b)
    BY DEF Split
  <2>6. Split(b) = 0 => \A t \in TileThreads : after[t] = "store" /\ acc[b][t] = Added(1)
    BY <1>1, <1>2 DEF BlockInv
  <2>7. Split(b) # 0 => \A t \in TileThreads : after[t] = "load"
    BY <1>1
  <2>8. \A t \in TileThreads :
          after[t] \notin {"lock", "load"} => acc[b][LoadedBy(t)'] = Added(Split(b) + 1)
    BY <2>4, <2>6, <2>7
  <2> QED BY <2>1, <2>2, <2>3, <2>5, <2>6, <2>8 DEF BlockInv
<1>7. \A t \in TileThreads : after[t] \notin {"sync", "release"}
  BY <1>1
<1>8. \A t \in TileThreads :
        out[Tile(b)][t] = Added(IF after[t] \in {"sync", "release"} THEN Split(b) + 1 ELSE Split(b))
  BY <1>3, <1>7
<1>9. UNCHANGED <<queued, grid, launches, semaphores, dispatched>>
  BY <1>4
<1> HIDE DEF step
<1> QED BY <1>2, <1>3, <1>4, <1>5, <1>6, <1>8, <1>9, StepInv

\* One more split.
LEMMA AddedMore ==
  ASSUME NEW h \in Nat \ {0}
  PROVE  Added(h) \o <<h>> = Added(h + 1) /\ Added(h + 1) \in Seq(Int)
<1>1. Added(h) \in Seq(Int) /\ Added(h + 1) \in Seq(Int)
  BY DEF Added
<1>2. Len(Added(h)) = h /\ Len(Added(h + 1)) = h + 1
  BY DEF Added
<1>3. \A k \in 1..(h + 1) : (Added(h) \o <<h>>)[k] = Added(h + 1)[k]
  BY <1>1, <1>2 DEF Added
<1> QED BY <1>1, <1>2, <1>3

LEMMA LoadInv == ASSUME SplitInv, NEW b \in DOMAIN doing, NEW t \in TileThreads, LoadPartial(b, t),
                        UNCHANGED <<queued, grid, launches, dispatched>>
                 PROVE  SplitInv'
<1>1. /\ Tile(b) \in DOMAIN out /\ Split(b) \in Nat /\ grid \in Grids
      /\ acc[b] \in [TileThreads -> Seq(Int)] /\ out[Tile(b)] \in [TileThreads -> Seq(Int)]
      /\ doing[b] \in [TileThreads -> Steps] /\ DOMAIN acc = DOMAIN doing
      /\ BlockInv(b)
  BY ResidentBlocks DEF SplitInv, DeviceTypes, HostTypes, BlocksInv
<1>2. /\ Turn(Tile(b), Split(b))
      /\ \A u \in TileThreads :
           out[Tile(b)][u] = Added(IF doing[b][u] \in {"sync", "release"} THEN Split(b) + 1 ELSE Split(b))
  BY Holder DEF LoadPartial, AllAt
<1>3. PICK e \in TileThreads : e = LoadedBy(t)
  BY <1>1, LoadedByThreads
<1> DEFINE step == IF grid.kernel = "matmul" THEN "store" ELSE "merge"
<1>4. doing[b][t] = "load" /\ Split(b) # 0
  BY <1>1 DEF LoadPartial, BlockInv
<1>5. out[Tile(b)][e] = Added(Split(b))
  <2>1. doing[b][e] \notin {"sync", "release"}
    BY <1>1, <1>3, <1>4 DEF BlockInv, Together, AllAt, LoadedBy
  <2> QED BY <1>2, <2>1
<1>6. PICK sum \in Seq(Int) : sum = Added(Split(b) + 1) /\ sum = out[Tile(b)][e] \o <<Split(b)>>
  BY <1>1, <1>4, <1>5, AddedMore
<1>7. PICK held \in [TileThreads -> Seq(Int)] : held = [acc[b] EXCEPT ![e] = sum]
  BY <1>1
<1>8. PICK after \in [TileThreads -> Steps] : after = [doing[b] EXCEPT ![t] = step]
  BY <1>1 DEF Steps
<1>9. /\ doing' = [doing EXCEPT ![b] = after] /\ acc' = [acc EXCEPT ![b] = held]
      /\ out' = out /\ semaphores' = semaphores
  BY <1>3, <1>6, <1>7, <1>8 DEF LoadPartial, GoTo
<1>10. out' = [out EXCEPT ![Tile(b)] = out[Tile(b)]]
  BY <1>9 DEF SplitInv, HostTypes
<1>11. BlockInv(b)'
  <2>1. doing'[b] = after /\ acc'[b] = held
    BY <1>1, <1>9
  <2>2. Contributes(Tile(b), Split(b))'
    BY <1>1 DEF BlockInv, Contributes, Tile, Split
  <2>3. Together(b)'
    <3>1. CASE grid.kernel = "matmul"
      <4>1. \A u \in TileThreads : doing[b][u] \in {"load", "store", "sync"}
        BY <1>1, <1>4, <3>1 DEF BlockInv, Together, AllAt
      <4> QED BY <1>1, <1>8, <2>1, <3>1, <4>1 DEF Together, AllAt
    <3>2. CASE grid.kernel = "attention"
      <4>1. \A u \in TileThreads : doing[b][u] \in {"load", "merge"}
        BY <1>1, <1>4, <3>2 DEF BlockInv, Together, AllAt
      <4> QED BY <1>1, <1>8, <2>1, <3>2, <4>1 DEF Together, AllAt
    <3> QED BY <1>1, <3>1, <3>2, GridFacts
  <2>4. \A u \in TileThreads : after[u] \notin {"lock", "load"} => held[LoadedBy(u)] = Added(Split(b) + 1)
    <3> SUFFICES ASSUME NEW u \in TileThreads, after[u] \notin {"lock", "load"}
                 PROVE  held[LoadedBy(u)] = Added(Split(b) + 1)
      OBVIOUS
    <3>1. LoadedBy(u) \in TileThreads
      BY <1>1, LoadedByThreads
    <3>2. CASE LoadedBy(u) = e
      BY <1>1, <1>6, <1>7, <3>2
    <3>3. CASE LoadedBy(u) # e
      <4>1. u # t /\ doing[b][u] \notin {"lock", "load"}
        BY <1>1, <1>3, <1>8, <3>3
      <4>2. acc[b][LoadedBy(u)] = Added(Split(b) + 1)
        BY <1>1, <4>1 DEF BlockInv
      <4> QED BY <1>1, <1>7, <3>1, <3>3, <4>2
    <3> QED BY <3>2, <3>3
  <2>5. Split(b)' = Split(b) /\ \A u \in TileThreads : LoadedBy(u)' = LoadedBy(u)
    BY DEF Split, LoadedBy
  <2> QED BY <1>4, <2>1, <2>2, <2>3, <2>4, <2>5 DEF BlockInv
<1>12. \A u \in TileThreads : after[u] \in {"sync", "release"} <=> doing[b][u] \in {"sync", "release"}
  BY <1>1, <1>4, <1>8
<1>13. \A u \in TileThreads :
         out[Tile(b)][u] = Added(IF after[u] \in {"sync", "release"} THEN Split(b) + 1 ELSE Split(b))
  BY <1>2, <1>12
<1>14. UNCHANGED <<queued, grid, launches, semaphores, dispatched>>
  BY <1>9
<1> HIDE DEF step
<1> QED BY <1>1, <1>2, <1>9, <1>10, <1>11, <1>13, <1>14, StepInv

LEMMA MergeInv == ASSUME SplitInv, NEW b \in DOMAIN doing, Merge(b),
                        UNCHANGED <<queued, grid, launches, dispatched>>
                 PROVE  SplitInv'
<1>1. /\ Tile(b) \in DOMAIN out /\ Split(b) \in Nat /\ grid \in Grids
      /\ acc[b] \in [TileThreads -> Seq(Int)] /\ out[Tile(b)] \in [TileThreads -> Seq(Int)]
      /\ doing[b] \in [TileThreads -> Steps] /\ DOMAIN acc = DOMAIN doing
      /\ BlockInv(b)
  BY ResidentBlocks DEF SplitInv, DeviceTypes, HostTypes, BlocksInv
<1>2. /\ Turn(Tile(b), Split(b))
      /\ \A u \in TileThreads :
           out[Tile(b)][u] = Added(IF doing[b][u] \in {"sync", "release"} THEN Split(b) + 1 ELSE Split(b))
  BY Holder, SplitKAssumption DEF Merge, AllAt
<1>3. PICK after \in [TileThreads -> Steps] : after = [t \in TileThreads |-> "store"]
  BY DEF Steps
<1>4. /\ doing' = [doing EXCEPT ![b] = after] /\ acc' = [acc EXCEPT ![b] = acc[b]]
      /\ out' = [out EXCEPT ![Tile(b)] = out[Tile(b)]]
      /\ UNCHANGED <<queued, grid, launches, semaphores, dispatched>>
  BY <1>3 DEF Merge, AllGoTo, SplitInv, DeviceTypes, HostTypes
<1>5. BlockInv(b)'
  <2>1. doing'[b] = after /\ acc'[b] = acc[b]
    BY <1>1, <1>4
  <2>2. Contributes(Tile(b), Split(b))'
    BY <1>1 DEF BlockInv, Contributes, Tile, Split
  <2>3. Together(b)'
    BY <1>3, <2>1 DEF Together, AllAt
  <2>4. \A t \in TileThreads : acc[b][LoadedBy(t)] = Added(Split(b) + 1)
    BY <1>1 DEF BlockInv, Merge, AllAt
  <2>5. Split(b) = 0 => \A t \in TileThreads : acc[b][t] = Added(1)
    BY <1>1 DEF BlockInv
  <2>6. Split(b)' = Split(b) /\ \A u \in TileThreads : LoadedBy(u)' = LoadedBy(u)
    BY DEF Split, LoadedBy
  <2> QED BY <1>3, <2>1, <2>2, <2>3, <2>4, <2>5, <2>6 DEF BlockInv
<1>6. \A t \in TileThreads :
        out[Tile(b)][t] = Added(IF after[t] \in {"sync", "release"} THEN Split(b) + 1 ELSE Split(b))
  BY <1>2, <1>3 DEF Merge, AllAt
<1> QED BY <1>1, <1>2, <1>4, <1>5, <1>6, StepInv

LEMMA SyncInv == ASSUME SplitInv, NEW b \in DOMAIN doing, SyncBlock(b),
                        UNCHANGED <<queued, grid, launches, dispatched>>
                 PROVE  SplitInv'
<1>1. /\ Tile(b) \in DOMAIN out /\ Split(b) \in Nat /\ grid \in Grids
      /\ acc[b] \in [TileThreads -> Seq(Int)] /\ out[Tile(b)] \in [TileThreads -> Seq(Int)]
      /\ doing[b] \in [TileThreads -> Steps] /\ DOMAIN acc = DOMAIN doing
      /\ BlockInv(b)
  BY ResidentBlocks DEF SplitInv, DeviceTypes, HostTypes, BlocksInv
<1>2. /\ Turn(Tile(b), Split(b))
      /\ \A u \in TileThreads :
           out[Tile(b)][u] = Added(IF doing[b][u] \in {"sync", "release"} THEN Split(b) + 1 ELSE Split(b))
  BY Holder, SplitKAssumption DEF SyncBlock, AllAt
<1>3. PICK after \in [TileThreads -> Steps] : after = [t \in TileThreads |-> "release"]
  BY DEF Steps
<1>4. /\ doing' = [doing EXCEPT ![b] = after] /\ acc' = [acc EXCEPT ![b] = acc[b]]
      /\ out' = [out EXCEPT ![Tile(b)] = out[Tile(b)]]
      /\ UNCHANGED <<queued, grid, launches, semaphores, dispatched>>
  BY <1>3 DEF SyncBlock, AllGoTo, SplitInv, DeviceTypes, HostTypes
<1>5. BlockInv(b)'
  <2>1. doing'[b] = after /\ acc'[b] = acc[b]
    BY <1>1, <1>4
  <2>2. Contributes(Tile(b), Split(b))'
    BY <1>1 DEF BlockInv, Contributes, Tile, Split
  <2>3. Together(b)'
    BY <1>3, <2>1 DEF Together, AllAt
  <2>4. \A t \in TileThreads : acc[b][LoadedBy(t)] = Added(Split(b) + 1)
    BY <1>1 DEF BlockInv, SyncBlock, AllAt
  <2>5. Split(b) = 0 => \A t \in TileThreads : acc[b][t] = Added(1)
    BY <1>1 DEF BlockInv
  <2>6. Split(b)' = Split(b) /\ \A u \in TileThreads : LoadedBy(u)' = LoadedBy(u)
    BY DEF Split, LoadedBy
  <2> QED BY <1>3, <2>1, <2>2, <2>3, <2>4, <2>5, <2>6 DEF BlockInv
<1>6. \A t \in TileThreads :
        out[Tile(b)][t] = Added(IF after[t] \in {"sync", "release"} THEN Split(b) + 1 ELSE Split(b))
  BY <1>2, <1>3 DEF SyncBlock, AllAt
<1> QED BY <1>1, <1>2, <1>4, <1>5, <1>6, StepInv

LEMMA StoreInv == ASSUME SplitInv, NEW b \in DOMAIN doing, NEW t \in TileThreads, Store(b, t),
                         UNCHANGED <<queued, grid, launches, dispatched>>
                  PROVE  SplitInv'
<1>1. /\ Tile(b) \in DOMAIN out /\ Split(b) \in Nat /\ grid \in Grids
      /\ acc[b] \in [TileThreads -> Seq(Int)] /\ out[Tile(b)] \in [TileThreads -> Seq(Int)]
      /\ doing[b] \in [TileThreads -> Steps] /\ DOMAIN acc = DOMAIN doing
      /\ BlockInv(b)
  BY ResidentBlocks DEF SplitInv, DeviceTypes, HostTypes, BlocksInv
<1>2. /\ Turn(Tile(b), Split(b))
      /\ \A u \in TileThreads :
           out[Tile(b)][u] = Added(IF doing[b][u] \in {"sync", "release"} THEN Split(b) + 1 ELSE Split(b))
  BY Holder DEF Store, AllAt
<1>3. doing[b][t] = "store"
  BY DEF Store
<1>4. acc[b][t] = Added(Split(b) + 1)
  <2>1. PICK u \in TileThreads : LoadedBy(u) = t
    BY <1>1, LoadedByThreads
  <2>2. doing[b][u] \notin {"lock", "load"}
    BY <1>1, <1>3, <2>1, GridFacts DEF BlockInv, Together, AllAt, LoadedBy
  <2> QED BY <1>1, <2>1, <2>2 DEF BlockInv
<1>5. PICK after \in [TileThreads -> Steps] : after = [doing[b] EXCEPT ![t] = "sync"]
  BY <1>1 DEF Steps
<1>6. PICK tile \in [TileThreads -> Seq(Int)] : tile = [out[Tile(b)] EXCEPT ![t] = acc[b][t]]
  BY <1>1
<1>7. /\ doing' = [doing EXCEPT ![b] = after] /\ acc' = [acc EXCEPT ![b] = acc[b]]
      /\ out' = [out EXCEPT ![Tile(b)] = tile]
      /\ UNCHANGED <<queued, grid, launches, semaphores, dispatched>>
  BY <1>5, <1>6 DEF Store, GoTo, SplitInv, DeviceTypes
<1>8. BlockInv(b)'
  <2>1. doing'[b] = after /\ acc'[b] = acc[b]
    BY <1>1, <1>7
  <2>2. Contributes(Tile(b), Split(b))'
    BY <1>1 DEF BlockInv, Contributes, Tile, Split
  <2>3. Together(b)'
    <3>1. \/ grid.kernel = "matmul" /\ \A u \in TileThreads : doing[b][u] \in {"load", "store", "sync"}
          \/ \A u \in TileThreads : doing[b][u] \in {"store", "sync"}
      BY <1>1, <1>3 DEF BlockInv, Together, AllAt
    <3> QED BY <1>1, <1>5, <2>1, <3>1 DEF Together, AllAt
  <2>4. \A u \in TileThreads : after[u] \notin {"lock", "load"} => acc[b][LoadedBy(u)] = Added(Split(b) + 1)
    BY <1>1, <1>3, <1>5 DEF BlockInv
  <2>5. Split(b) = 0 => \A u \in TileThreads : after[u] \notin {"load", "merge"} /\ acc[b][u] = Added(1)
    BY <1>1, <1>5 DEF BlockInv
  <2>6. Split(b)' = Split(b) /\ \A u \in TileThreads : LoadedBy(u)' = LoadedBy(u)
    BY DEF Split, LoadedBy
  <2> QED BY <2>1, <2>2, <2>3, <2>4, <2>5, <2>6 DEF BlockInv
<1>9. \A u \in TileThreads :
        tile[u] = Added(IF after[u] \in {"sync", "release"} THEN Split(b) + 1 ELSE Split(b))
  BY <1>1, <1>2, <1>4, <1>5, <1>6
<1> QED BY <1>1, <1>2, <1>7, <1>8, <1>9, StepInv

\* The turn of the tile goes to the next split.
LEMMA ReleaseInv == ASSUME SplitInv, NEW b \in DOMAIN doing, ReleaseTile(b),
                           UNCHANGED <<queued, grid, launches, dispatched>>
                    PROVE  SplitInv'
<1>1. /\ grid \in Grids /\ b \in 0..(Blocks - 1) /\ Tile(b) \in Tiles /\ Split(b) \in 0..(grid.splits - 1)
      /\ Tile(b) \in DOMAIN semaphores /\ DOMAIN doing \subseteq 0..(Blocks - 1)
      /\ grid.tiles \in Nat /\ grid.splits \in Nat
      /\ Contributes(Tile(b), Split(b))
  BY ResidentBlocks, GridFacts DEF SplitInv, BlocksInv, BlockInv
<1>2. /\ Turn(Tile(b), Split(b))
      /\ \A u \in TileThreads : out[Tile(b)][u] = Added(Split(b) + 1)
  BY Holder, SplitKAssumption DEF ReleaseTile, AllAt
<1>3. PICK z \in 0..(grid.splits - 1) : z = Split(b)
  BY <1>1
<1>4. PICK tile \in Tiles : tile = Tile(b)
  BY <1>1
<1>5. PICK n \in Nat : n = IF Contributes(tile, z + 1) THEN z + 1 ELSE 0
  BY <1>1
<1>6. /\ semaphores' = [semaphores EXCEPT ![tile] = n] /\ UNCHANGED <<queued, grid, launches, dispatched, out>>
      /\ doing' = [c \in DOMAIN doing \ {b} |-> doing[c]]
      /\ acc' = [c \in DOMAIN doing \ {b} |-> acc[c]]
  <2>1. NextHolder(Tile(b), Split(b)) = n
    BY <1>1, <1>3, <1>4, <1>5, NextHolderRight
  <2> QED BY <1>4, <2>1 DEF ReleaseTile, SplitInv, DeviceTypes
<1>7. HostTypes'
  <2>1. DOMAIN semaphores' = DOMAIN semaphores
    BY <1>6
  <2>2. PICK m \in Nat : semaphores \in [0..(m - 1) -> Nat]
    BY DEF SplitInv, HostTypes
  <2>3. semaphores' \in [0..(m - 1) -> Nat]
    BY <1>6, <2>2
  <2> QED BY <1>6, <2>1, <2>2, <2>3 DEF SplitInv, HostTypes
<1>8. DeviceTypes'
  BY <1>6 DEF SplitInv, DeviceTypes, Blocks
<1>9. OthersZero'
  <2>1. grid # NoGrid /\ \A i \in DOMAIN semaphores : i >= grid.tiles => i # tile
    BY <1>1, GridFacts DEF Tiles
  <2> QED BY <1>6, <2>1 DEF SplitInv, OthersZero
<1>10. BlocksInv'
  <2> SUFFICES ASSUME NEW c \in DOMAIN doing, c # b PROVE BlockInv(c)'
    BY <1>6 DEF BlocksInv
  <2>1. BlockInv(c) /\ doing'[c] = doing[c] /\ acc'[c] = acc[c]
    BY <1>6 DEF SplitInv, BlocksInv
  <2> QED BY <1>6, <2>1 DEF BlockInv, Contributes, Together, AllAt, LoadedBy, Tile, Split
<1>11. ASSUME NEW i \in Tiles, NEW h \in 0..grid.splits, Turn(i, h), i # tile
       PROVE  Turn(i, h)'
  <2>1. semaphores'[i] = semaphores[i]
    BY <1>1, <1>4, <1>6, <1>11 DEF SplitInv, HostTypes
  <2>2. \A c \in DOMAIN doing : Tile(c) = i => c \in DOMAIN doing' /\ doing'[c] = doing[c]
    BY <1>4, <1>6, <1>11
  <2>3. DOMAIN doing' \subseteq DOMAIN doing
    BY <1>6
  <2>4. \A t \in TileThreads : Stored(i, h, t)' <=> Stored(i, h, t)
    BY <1>6, <2>2, <2>3 DEF Stored, Tile, Split
  <2> QED BY <1>6, <1>11, <2>1, <2>2, <2>3, <2>4 DEF Turn, Contributes, AllAt, Tile, Split, Blocks
<1>12. Turn(tile, z + 1)'
  <2>1. Turn(tile, z)
    BY <1>2, <1>3, <1>4
  <2>2. \A c \in 0..(Blocks - 1) : Tile(c) = tile /\ Split(c) = z => c = b
    BY <1>1, <1>3, <1>4, SameBlock
  <2>3. \A c \in 0..(Blocks - 1) : Split(c) \in Nat
    BY <1>1, TurnOfBlock
  <2>4. \A y \in 0..z : Active(grid, tile, y)
    BY <1>1, <1>3, <1>4, <2>1 DEF Turn, Contributes
  <2>5. semaphores'[tile] = n
    BY <1>1, <1>4, <1>6 DEF SplitInv, HostTypes
  <2>6. \A c \in 0..(Blocks - 1) : Tile(c) = tile /\ Split(c) < z + 1 => c < dispatched /\ c \notin DOMAIN doing'
    <3> SUFFICES ASSUME NEW c \in 0..(Blocks - 1), Tile(c) = tile, Split(c) < z + 1
                 PROVE  c < dispatched /\ c \notin DOMAIN doing'
      OBVIOUS
    <3>1. CASE Split(c) = z
      <4>1. c = b /\ dispatched \in Nat /\ DOMAIN doing \subseteq 0..(dispatched - 1)
        BY <1>1, <2>2, <3>1, GridFacts DEF SplitInv, DeviceTypes
      <4> QED BY <1>6, <4>1
    <3>2. CASE Split(c) # z
      BY <1>1, <1>6, <2>1, <2>3, <3>2 DEF Turn
    <3> QED BY <3>1, <3>2
  <2>7. \A c \in 0..(Blocks - 1) :
          Tile(c) = tile /\ Split(c) >= z + 1 /\ Contributes(tile, Split(c)) => c >= dispatched \/ c \in DOMAIN doing'
    <3> SUFFICES ASSUME NEW c \in 0..(Blocks - 1), Tile(c) = tile, Split(c) >= z + 1,
                        Contributes(tile, Split(c)), ~(c >= dispatched)
                 PROVE  c \in DOMAIN doing'
      OBVIOUS
    <3>1. c \in DOMAIN doing
      BY <2>1, <2>3 DEF Turn
    <3>2. c # b
      BY <1>3, <2>3
    <3> QED BY <1>6, <3>1, <3>2
  <2>8. \A c \in DOMAIN doing' : Tile(c) = tile /\ Split(c) # z + 1 => \A t \in TileThreads : doing'[c][t] = "lock"
    <3> SUFFICES ASSUME NEW c \in DOMAIN doing', Tile(c) = tile, NEW t \in TileThreads
                 PROVE  doing'[c][t] = "lock"
      OBVIOUS
    <3>1. c \in DOMAIN doing /\ c # b /\ doing'[c] = doing[c]
      BY <1>6
    <3>2. Split(c) # z
      BY <1>1, <2>2, <3>1
    <3> QED BY <2>1, <3>1, <3>2 DEF Turn, AllAt
  <2>9. \A t \in TileThreads : ~Stored(tile, z + 1, t)'
    <3>1. \A c \in DOMAIN doing' : Tile(c) = tile => \A t \in TileThreads : doing'[c][t] = "lock"
      <4> SUFFICES ASSUME NEW c \in DOMAIN doing', Tile(c) = tile, NEW t \in TileThreads
                   PROVE  doing'[c][t] = "lock"
        OBVIOUS
      <4>1. c \in DOMAIN doing /\ c # b /\ doing'[c] = doing[c]
        BY <1>6
      <4>2. Split(c) # z
        BY <1>1, <2>2, <4>1
      <4> QED BY <2>1, <4>1, <4>2 DEF Turn, AllAt
    <3> QED BY <1>6, <3>1 DEF Stored, Tile
  <2>10. \A t \in TileThreads : out'[tile][t] = Added(z + 1)
    BY <1>2, <1>3, <1>4, <1>6
  <2>11. z + 1 - 1 = z
    BY <1>3
  <2> QED BY <1>5, <1>6, <2>4, <2>5, <2>6, <2>7, <2>8, <2>9, <2>10, <2>11
          DEF Turn, Contributes, AllAt, Tile, Split, Blocks
<1>13. TileTurns'
  <2> SUFFICES ASSUME NEW i \in Tiles PROVE \E h \in 0..grid.splits : Turn(i, h)'
    BY <1>6 DEF TileTurns, Tiles
  <2>1. PICK h \in 0..grid.splits : Turn(i, h)
    BY <1>1, GridFacts DEF SplitInv, TileTurns
  <2>2. CASE i = tile
    <3>1. PICK y \in 0..grid.splits : y = z + 1
      BY <1>1, <1>3
    <3>2. Turn(i, y)'
      BY <1>12, <2>2, <3>1
    <3> QED BY <3>2
  <2>3. CASE i # tile
    BY <1>11, <2>1, <2>3
  <2> QED BY <2>2, <2>3
<1> QED BY <1>7, <1>8, <1>9, <1>10, <1>13 DEF SplitInv
-----------------------------------------------------------------------------
(* The theorems. *)

\* The turns are kept by every step.
THEOREM SplitInvariant == SplitSpec => []SplitInv
<1>1. SplitInv /\ [SplitNext]_splitVars => SplitInv'
  <2> SUFFICES ASSUME SplitInv, [SplitNext]_splitVars PROVE SplitInv'
    OBVIOUS
  <2>1. CASE Launch
    BY <2>1, LaunchInv
  <2>2. CASE Begin
    BY <2>2, BeginInv
  <2>3. CASE Dispatch
    BY <2>3, DispatchInv
  <2>4. CASE Thread
    <3>1. PICK b \in DOMAIN doing :
            \/ Lock(b) \/ Merge(b) \/ SyncBlock(b) \/ ReleaseTile(b)
            \/ \E t \in TileThreads : LoadPartial(b, t) \/ Store(b, t)
      BY <2>4 DEF Thread
    <3>2. UNCHANGED <<queued, grid, launches, dispatched>>
      BY <2>4 DEF Thread
    <3> QED BY <3>1, <3>2, LockInv, MergeInv, SyncInv, ReleaseInv, LoadInv, StoreInv
  <2>5. CASE End
    BY <2>5, EndInv
  <2>6. CASE UNCHANGED splitVars
    <3>1. UNCHANGED <<grid, dispatched, doing, acc, out>> /\ UNCHANGED semaphores /\ UNCHANGED queued
      BY <2>6 DEF splitVars
    <3>2. HostTypes' /\ DeviceTypes' /\ OthersZero'
      BY <3>1 DEF SplitInv, HostTypes, DeviceTypes, OthersZero, Blocks
    <3> QED BY <3>1, <3>2, SameBlocks DEF SplitInv
  <2> QED BY <2>1, <2>2, <2>3, <2>4, <2>5, <2>6 DEF SplitNext, Device
<1> QED BY <1>1, InitInv, PTL DEF SplitSpec

\* A launch within SplitKAssumption finds the workspace zero, and leaves it zero,
\* whatever ran before it and however the blocks of its tiles took turns.
THEOREM WorkspaceZeroBetweenLaunches == SplitSpec => []WorkspaceRestored
<1>1. SplitInv => WorkspaceRestored
  BY DEF SplitInv, OthersZero, WorkspaceRestored
<1> QED BY <1>1, SplitInvariant, PTL

\* For any number of tiles, splits, threads and resident blocks every element of
\* a finished launch has every contributing split in it once, in order.
THEOREM TilesAreComplete == SplitSpec => []TilesComplete
<1>1. SplitInv => TilesComplete
  <2> SUFFICES ASSUME SplitInv, LaunchDone, NEW i \in Tiles, NEW t \in TileThreads
               PROVE  LET n == Cardinality({z \in 0..(grid.splits - 1) : Active(grid, i, z)})
                      IN  out[i][t] = [k \in 1..n |-> k - 1]
    BY DEF TilesComplete, Tiles
  <2>1. grid \in Grids
    BY DEF LaunchDone, SplitInv, HostTypes
  <2>2. PICK h \in 0..grid.splits : Turn(i, h)
    BY <2>1, GridFacts DEF SplitInv, TileTurns
  <2>3. ~Contributes(i, h) /\ out[i][t] = Added(h)
    BY <2>2, AtEnd
  <2>4. h # 0
    BY <2>1, <2>3, FirstContributes
  <2>5. {z \in 0..(grid.splits - 1) : Active(grid, i, z)} = 0..(h - 1)
    <3>1. \A z \in 0..(h - 1) : Active(grid, i, z) /\ z \in 0..(grid.splits - 1)
      BY <2>1, <2>2, GridFacts DEF Turn
    <3>2. ASSUME NEW z \in 0..(grid.splits - 1), Active(grid, i, z), h <= z PROVE FALSE
      <4>1. Contributes(i, z)
        BY <2>1, <3>2, GridFacts DEF Contributes
      <4> QED BY <2>1, <2>2, <2>3, <3>2, <4>1, ContributesDown, GridFacts
    <3> QED BY <2>1, <2>2, <3>1, <3>2, GridFacts
  <2>6. Cardinality(0..(h - 1)) = h
    BY <2>1, <2>2, FS_Interval, GridFacts
  <2> QED BY <2>3, <2>4, <2>5, <2>6 DEF Added
<1> QED BY <1>1, SplitInvariant, PTL

-----------------------------------------------------------------------------
(* Collective instructions. *)

LEMMA WarpOfThread ==
  ASSUME NEW t \in GroupThreads
  PROVE  WarpOf(t) \in Warp /\ t \in Threads(WarpOf(t))
<1>1. t \in Nat /\ t < Warps * Lanes /\ Warps \in Nat /\ Lanes \in Nat \ {0}
  BY CollectivesAssumption DEF GroupThreads
<1>2. t \div Lanes \in Nat /\ t \div Lanes < Warps
  BY <1>1, Z3
<1> QED BY <1>1, <1>2 DEF WarpOf, Warp, Threads

-----------------------------------------------------------------------------
(* Recursive definitions. *)

\* A set of sequences that is closed under concatenation has the
\* concatenation of its elements.
LEMMA FlattenIn ==
  ASSUME NEW X, NEW S \in SUBSET Seq(X), <<>> \in S,
         \A s, u \in S : s \o u \in S, NEW seqs \in Seq(S)
  PROVE  FlattenSeq(seqs) \in S
<1> DEFINE N == Len(seqs)
           Next(h, i) == IF i = 1 THEN seqs[i] ELSE h[i - 1] \o seqs[i]
           Runs(h, m) == h = [i \in 1 .. m |-> Next(h, i)]
           F == CHOOSE h : Runs(h, N)
<1>1. N \in Nat /\ \A i \in 1 .. N : seqs[i] \in S
  OBVIOUS
<1>2. \A m \in Nat : \E h : Runs(h, m)
  <2> DEFINE A == {m \in Nat : \E h : Runs(h, m)}
  <2>1. 0 \in A
    <3>1. Runs([i \in {} |-> 0], 0)
      OBVIOUS
    <3> QED BY <3>1
  <2>2. ASSUME NEW m \in Nat, m \in A PROVE m + 1 \in A
    <3>1. PICK h : Runs(h, m)
      BY <2>2
    <3> DEFINE k == [i \in 1 .. m + 1 |-> IF i = m + 1 THEN Next(h, i) ELSE h[i]]
    <3>2. ASSUME NEW i \in 1 .. m + 1 PROVE k[i] = Next(k, i)
      <4>1. CASE i = m + 1
        <5>1. i # 1 => m \in 1 .. m + 1 /\ m # m + 1 /\ i - 1 = m
          BY <4>1
        <5> QED BY <4>1, <5>1
      <4>2. CASE i # m + 1
        <5>1. i \in 1 .. m /\ (i # 1 => i - 1 \in 1 .. m /\ i - 1 # m + 1 /\ i - 1 \in 1 .. m + 1)
          BY <4>2
        <5>2. k[i] = Next(h, i)
          BY <3>1, <4>2, <5>1
        <5> QED BY <5>1, <5>2
      <4> QED BY <4>1, <4>2
    <3>3. Runs(k, m + 1)
      BY <3>2
    <3> HIDE DEF k, Runs
    <3> QED BY <3>3
  <2> HIDE DEF Runs
  <2> HIDE DEF A
  <2>3. \A m \in Nat : m \in A
    BY <2>1, <2>2, Reach
  <2> QED BY <2>3 DEF A
<1>3. Runs(F, N)
  BY <1>1, <1>2, Zenon
<1>4. \A i \in Nat : i \in 1 .. N => F[i] \in S
  <2> DEFINE A == {i \in Nat : i \in 1 .. N => F[i] \in S}
  <2>1. 0 \in A
    OBVIOUS
  <2>2. ASSUME NEW i \in Nat, i \in A PROVE i + 1 \in A
    <3> SUFFICES ASSUME i + 1 \in 1 .. N PROVE F[i + 1] \in S
      OBVIOUS
    <3> HIDE DEF F
    <3>1. F[i + 1] = Next(F, i + 1)
      BY <1>3
    <3>2. CASE i = 0
      BY <1>1, <3>1, <3>2
    <3>3. CASE i # 0
      <4>1. i \in 1 .. N /\ (i + 1) - 1 = i /\ i + 1 # 1
        BY <1>1, <3>3
      <4>2. F[i] \in S
        BY <2>2, <4>1
      <4> QED BY <1>1, <3>1, <4>1, <4>2
    <3> QED BY <3>2, <3>3
  <2> HIDE DEF A
  <2>3. \A i \in Nat : i \in A
    BY <2>1, <2>2, Reach
  <2> QED BY <2>3 DEF A
<1>5. CASE N = 0
  BY <1>5 DEF FlattenSeq
<1>6. CASE N # 0
  <2>1. FlattenSeq(seqs) = F[N]
    BY <1>6 DEF FlattenSeq
  <2> HIDE DEF F, N
  <2> QED BY <1>1, <1>4, <1>6, <2>1
<1> QED BY <1>5, <1>6

\* The run in step is what its definition says.
LEMMA InStepRuns ==
  ASSUME NEW P
  PROVE  /\ InStep(P)[0] = StepStart(P)
         /\ \A n \in Nat : InStep(P)[n + 1] = StepNext(P, InStep(P)[n])
<1> DEFINE Next(h, n) == IF n = 0 THEN StepStart(P) ELSE StepNext(P, h[n - 1])
           Runs(h, m) == h = [n \in 0 .. m |-> Next(h, n)]
           Run(m) == CHOOSE h : Runs(h, m)
           F == [n \in Nat |-> Run(n)[n]]
           Whole(h) == h = [n \in Nat |-> Next(h, n)]
           G == CHOOSE h : Whole(h)
<1>1. \A m \in Nat : \E h : Runs(h, m)
  <2> DEFINE A == {m \in Nat : \E h : Runs(h, m)}
  <2>1. 0 \in A
    <3> DEFINE k == [n \in 0 .. 0 |-> StepStart(P)]
    <3>1. Runs(k, 0)
      <4>1. \A n \in 0 .. 0 : k[n] = Next(k, n)
        OBVIOUS
      <4> QED BY <4>1
    <3> HIDE DEF k, Runs
    <3> QED BY <3>1
  <2>2. ASSUME NEW m \in Nat, m \in A PROVE m + 1 \in A
    <3>1. PICK h : Runs(h, m)
      BY <2>2
    <3> DEFINE k == [n \in 0 .. m + 1 |-> IF n = m + 1 THEN StepNext(P, h[m]) ELSE h[n]]
    <3>2. ASSUME NEW n \in 0 .. m + 1 PROVE k[n] = Next(k, n)
      <4>1. CASE n = m + 1
        <5>1. n # 0 /\ n - 1 = m /\ m \in 0 .. m + 1 /\ m # m + 1
          BY <4>1
        <5>2. k[m] = h[m] /\ k[n] = StepNext(P, h[m])
          BY <4>1, <5>1
        <5> HIDE DEF k
        <5> QED BY <5>1, <5>2
      <4>2. CASE n # m + 1
        <5>1. n \in 0 .. m /\ (n # 0 => n - 1 \in 0 .. m /\ n - 1 \in 0 .. m + 1 /\ n - 1 # m + 1)
          BY <4>2
        <5>2. h[n] = Next(h, n) /\ k[n] = h[n]
          BY <3>1, <4>2, <5>1
        <5>3. n # 0 => k[n - 1] = h[n - 1]
          BY <5>1
        <5> HIDE DEF k
        <5> QED BY <5>2, <5>3
      <4> QED BY <4>1, <4>2
    <3>3. Runs(k, m + 1)
      <4>1. k = [n \in 0 .. m + 1 |-> k[n]]
        OBVIOUS
      <4> HIDE DEF k
      <4> QED BY <3>2, <4>1
    <3> HIDE DEF k, Runs
    <3> QED BY <3>3
  <2> HIDE DEF A, Runs
  <2>3. \A m \in Nat : m \in A
    BY <2>1, <2>2, Reach
  <2> QED BY <2>3 DEF A
<1>2. \A m \in Nat : Runs(Run(m), m)
  <2> HIDE DEF Runs
  <2> QED BY <1>1
<1>3. ASSUME NEW m \in Nat, NEW n \in Nat, n <= m
      PROVE  Run(m)[n] = Next(Run(m), n)
  <2>1. Runs(Run(m), m) /\ n \in 0 .. m
    BY <1>2, <1>3
  <2> HIDE DEF Run
  <2> QED BY <2>1
<1>4. ASSUME NEW m \in Nat, NEW l \in Nat, m <= l
      PROVE  \A n \in Nat : n <= m => Run(m)[n] = Run(l)[n]
  <2> HIDE DEF Run
  <2> DEFINE A == {n \in Nat : n <= m => Run(m)[n] = Run(l)[n]}
  <2>1. 0 \in A
    <3>1. Run(m)[0] = Next(Run(m), 0) /\ Run(l)[0] = Next(Run(l), 0)
      BY <1>3
    <3> QED BY <3>1
  <2>2. ASSUME NEW n \in Nat, n \in A PROVE n + 1 \in A
    <3> SUFFICES ASSUME n + 1 <= m PROVE Run(m)[n + 1] = Run(l)[n + 1]
      OBVIOUS
    <3>1. n + 1 \in Nat /\ n <= m /\ n + 1 <= l /\ n + 1 # 0 /\ (n + 1) - 1 = n
      BY <1>4
    <3>2. Run(m)[n + 1] = Next(Run(m), n + 1) /\ Run(l)[n + 1] = Next(Run(l), n + 1)
      BY <1>3, <3>1
    <3>3. Run(m)[n] = Run(l)[n]
      BY <2>2, <3>1
    <3> QED BY <3>1, <3>2, <3>3
  <2> HIDE DEF A
  <2>3. \A n \in Nat : n \in A
    BY <2>1, <2>2, Reach
  <2> QED BY <2>3 DEF A
<1>5. Whole(F)
  <2>1. ASSUME NEW n \in Nat PROVE F[n] = Next(F, n)
    <3>1. F[n] = Run(n)[n] /\ (n # 0 => n - 1 \in Nat /\ F[n - 1] = Run(n - 1)[n - 1])
      OBVIOUS
    <3>2. Run(n)[n] = Next(Run(n), n)
      BY <1>3
    <3>3. n # 0 => Run(n)[n - 1] = Run(n - 1)[n - 1]
      <4> HIDE DEF Run
      <4> SUFFICES ASSUME n # 0 PROVE Run(n)[n - 1] = Run(n - 1)[n - 1]
        OBVIOUS
      <4>1. n - 1 \in Nat /\ n - 1 <= n /\ n - 1 <= n - 1
        OBVIOUS
      <4> QED BY <1>4, <4>1
    <3> HIDE DEF F, Run
    <3> QED BY <3>1, <3>2, <3>3
  <2>2. F = [n \in Nat |-> F[n]]
    OBVIOUS
  <2> HIDE DEF F
  <2> QED BY <2>1, <2>2
<1>6. Whole(G)
  <2> HIDE DEF Whole, F
  <2> QED BY <1>5
<1>7. InStep(P) = G
  BY DEF InStep
<1> HIDE DEF G
<1>8. G[0] = Next(G, 0) /\ \A n \in Nat : G[n + 1] = Next(G, n + 1)
  BY <1>6
<1>9. \A n \in Nat : Next(G, n + 1) = StepNext(P, G[n])
  <2> SUFFICES ASSUME NEW n \in Nat PROVE Next(G, n + 1) = StepNext(P, G[n])
    OBVIOUS
  <2>1. n + 1 # 0 /\ (n + 1) - 1 = n
    OBVIOUS
  <2> QED BY <2>1
<1> QED BY <1>7, <1>8, <1>9

-----------------------------------------------------------------------------
(* The phases of an instruction. *)

PhaseSet ==
  [do : {"sync", "reduce_warp", "accumulate", "collect", "broadcast",
         "publish", "up", "down", "identity", "inclusive"}, n : Int]

\* After every phase that uses the workspace all warps wait.
Guarded(instr) ==
  {s \in Seq(PhaseSet) :
    \A p \in 1 .. Len(s) : UsesWorkspace(instr, s[p]) => p + 1 \in 1 .. Len(s) /\ s[p + 1] = Barrier}

LEMMA BarrierIs ==
  ASSUME NEW instr
  PROVE  Barrier \in PhaseSet /\ Barrier.do = "sync" /\ ~UsesWorkspace(instr, Barrier)
  BY DEF Barrier, Phase, PhaseSet, UsesWorkspace, Crosses

LEMMA GuardedConcat ==
  ASSUME NEW instr, NEW s \in Guarded(instr), NEW u \in Guarded(instr)
  PROVE  s \o u \in Guarded(instr)
<1> DEFINE v == s \o u
<1>1. s \in Seq(PhaseSet) /\ u \in Seq(PhaseSet)
  BY DEF Guarded
<1>2. /\ v \in Seq(PhaseSet) /\ Len(v) = Len(s) + Len(u) /\ Len(s) \in Nat /\ Len(u) \in Nat
      /\ \A p \in 1 .. Len(s) : v[p] = s[p]
      /\ \A p \in 1 .. Len(u) : v[p + Len(s)] = u[p]
  BY <1>1
<1> HIDE DEF v
<1>3. ASSUME NEW p \in 1 .. Len(v), UsesWorkspace(instr, v[p])
      PROVE  p + 1 \in 1 .. Len(v) /\ v[p + 1] = Barrier
  <2>1. CASE p <= Len(s)
    <3>1. p \in 1 .. Len(s) /\ v[p] = s[p]
      BY <1>2, <2>1
    <3>2. p + 1 \in 1 .. Len(s) /\ s[p + 1] = Barrier
      BY <1>3, <3>1 DEF Guarded
    <3> QED BY <1>2, <3>2
  <2>2. CASE p > Len(s)
    <3> DEFINE q == p - Len(s)
    <3>1. q \in 1 .. Len(u) /\ q + Len(s) = p
      BY <1>2, <2>2
    <3>2. v[p] = u[q]
      BY <1>2, <3>1
    <3>3. q + 1 \in 1 .. Len(u) /\ u[q + 1] = Barrier
      BY <1>3, <3>1, <3>2 DEF Guarded
    <3>4. (q + 1) + Len(s) = p + 1 /\ p + 1 \in 1 .. Len(v)
      BY <1>2, <3>3
    <3> HIDE DEF q
    <3>5. v[p + 1] = u[q + 1]
      BY <1>2, <3>3, <3>4
    <3> QED BY <3>3, <3>4, <3>5
  <2> QED BY <1>2, <2>1, <2>2
<1> QED BY <1>2, <1>3 DEF Guarded, v

LEMMA GuardedParts ==
  ASSUME NEW instr, NEW ph \in PhaseSet
  PROVE  /\ <<>> \in Guarded(instr)
         /\ <<ph, Barrier>> \in Guarded(instr)
         /\ ~UsesWorkspace(instr, ph) => <<ph>> \in Guarded(instr)
<1>1. <<>> \in Guarded(instr)
  BY DEF Guarded
<1>2. <<ph, Barrier>> \in Guarded(instr)
  <2> DEFINE s == <<ph, Barrier>>
  <2>1. s \in Seq(PhaseSet) /\ Len(s) = 2 /\ s[1] = ph /\ s[2] = Barrier
    BY BarrierIs
  <2> HIDE DEF s
  <2>2. \A p \in 1 .. Len(s) : UsesWorkspace(instr, s[p]) => p = 1
    BY <2>1, BarrierIs
  <2>3. \A p \in 1 .. Len(s) :
          UsesWorkspace(instr, s[p]) => p + 1 \in 1 .. Len(s) /\ s[p + 1] = Barrier
    <3> SUFFICES ASSUME NEW p \in 1 .. Len(s), UsesWorkspace(instr, s[p])
                 PROVE  p + 1 \in 1 .. Len(s) /\ s[p + 1] = Barrier
      OBVIOUS
    <3>1. p = 1
      BY <2>2
    <3> QED BY <2>1, <3>1
  <2>4. s \in Guarded(instr)
    BY <2>1, <2>3 DEF Guarded
  <2> QED BY <2>4 DEF s
<1>3. ASSUME ~UsesWorkspace(instr, ph) PROVE <<ph>> \in Guarded(instr)
  <2> DEFINE s == <<ph>>
  <2>1. s \in Seq(PhaseSet) /\ Len(s) = 1 /\ s[1] = ph
    OBVIOUS
  <2> HIDE DEF s
  <2>2. \A p \in 1 .. Len(s) : ~UsesWorkspace(instr, s[p])
    BY <1>3, <2>1
  <2>3. s \in Guarded(instr)
    BY <2>1, <2>2 DEF Guarded
  <2> QED BY <2>3 DEF s
<1> QED BY <1>1, <1>2, <1>3

LEMMA GuardedFlatten ==
  ASSUME NEW instr, NEW m \in Nat, NEW f, f = [d \in 1 .. m |-> f[d]],
         \A d \in 1 .. m : f[d] \in Guarded(instr)
  PROVE  FlattenSeq(f) \in Guarded(instr)
<1>1. f \in Seq(Guarded(instr))
  <2>1. f \in [1 .. m -> Guarded(instr)]
    OBVIOUS
  <2> QED BY <2>1
<1>2. Guarded(instr) \in SUBSET Seq(PhaseSet) /\ <<>> \in Guarded(instr)
  BY DEF Guarded
<1>3. \A s, u \in Guarded(instr) : s \o u \in Guarded(instr)
  BY GuardedConcat
<1> HIDE DEF Guarded
<1> QED BY <1>1, <1>2, <1>3, FlattenIn

LEMMA ReduceGuarded ==
  ASSUME NEW instr, Turns(instr) \in Nat
  PROVE  ReducePhases(instr) \in Guarded(instr)
<1> USE DEF Phase
<1> DEFINE T == [i \in 1 .. Turns(instr) |-> <<Phase("accumulate", i - 1), Barrier>>]
           Closing == <<Phase("collect", 0), Barrier>>
<1>1. \A do \in {"reduce_warp", "broadcast"} :
        Phase(do, 0) \in PhaseSet /\ ~UsesWorkspace(instr, Phase(do, 0))
  BY DEF PhaseSet, UsesWorkspace, Crosses
<1>2. /\ <<Phase("reduce_warp", 0)>> \in Guarded(instr)
      /\ <<Phase("broadcast", 0)>> \in Guarded(instr)
  BY <1>1, GuardedParts
<1>3. \A d \in 1 .. Turns(instr) : T[d] \in Guarded(instr)
  <2> SUFFICES ASSUME NEW d \in 1 .. Turns(instr) PROVE T[d] \in Guarded(instr)
    OBVIOUS
  <2>1. Phase("accumulate", d - 1) \in PhaseSet
    BY DEF PhaseSet
  <2>2. <<Phase("accumulate", d - 1), Barrier>> \in Guarded(instr)
    BY <2>1, GuardedParts
  <2> QED BY <2>2
<1>4. Closing \in Guarded(instr)
  <2>1. Phase("collect", 0) \in PhaseSet
    BY DEF PhaseSet
  <2> QED BY <2>1, GuardedParts
<1>5. FlattenSeq(T) \in Guarded(instr)
  <2>1. T = [d \in 1 .. Turns(instr) |-> T[d]]
    OBVIOUS
  <2> HIDE DEF T
  <2> QED BY <1>3, <2>1, GuardedFlatten
<1> HIDE DEF T, Closing
<1>6. FlattenSeq(T) \o Closing \in Guarded(instr)
  BY <1>4, <1>5, GuardedConcat
<1>7. /\ <<Phase("reduce_warp", 0)>> \o (FlattenSeq(T) \o Closing) \in Guarded(instr)
      /\ <<Phase("reduce_warp", 0)>> \o <<Phase("broadcast", 0)>> \in Guarded(instr)
  BY <1>2, <1>6, GuardedConcat
<1>8. ReducePhases(instr) =
        <<Phase("reduce_warp", 0)>> \o
        (IF RequiresInterWarp(instr) THEN FlattenSeq(T) \o Closing ELSE <<Phase("broadcast", 0)>>)
  BY DEF ReducePhases, T, Closing
<1> QED BY <1>7, <1>8

LEMMA FourAre ==
  ASSUME NEW S, NEW a \in S, NEW b \in S, NEW c \in S, NEW d \in S
  PROVE  <<a, b>> \o <<c, d>> = <<a, b, c, d>>
<1> DEFINE s == <<a, b>>
           u == <<c, d>>
           v == <<a, b, c, d>>
<1>1. /\ s \in Seq(S) /\ Len(s) = 2 /\ s[1] = a /\ s[2] = b
      /\ u \in Seq(S) /\ Len(u) = 2 /\ u[1] = c /\ u[2] = d
      /\ v \in Seq(S) /\ Len(v) = 4 /\ v[1] = a /\ v[2] = b /\ v[3] = c /\ v[4] = d
  OBVIOUS
<1> HIDE DEF s, u, v
<1>2. /\ s \o u \in Seq(S) /\ Len(s \o u) = Len(s) + Len(u)
      /\ \A i \in 1 .. Len(s) + Len(u) : (s \o u)[i] = IF i <= Len(s) THEN s[i] ELSE u[i - Len(s)]
  BY <1>1, ConcatProperties
<1>3. \A i \in 1 .. 4 : (s \o u)[i] = v[i]
  <2>1. (s \o u)[1] = s[1] /\ (s \o u)[2] = s[2]
    BY <1>1, <1>2
  <2>2. (s \o u)[3] = u[1] /\ (s \o u)[4] = u[2]
    BY <1>1, <1>2
  <2>3. \A i \in 1 .. 4 : i = 1 \/ i = 2 \/ i = 3 \/ i = 4
    OBVIOUS
  <2> QED BY <1>1, <2>1, <2>2, <2>3
<1>4. s \o u = v
  BY <1>1, <1>2, <1>3, SeqEqual
<1> QED BY <1>4 DEF s, u, v

LEMMA RoundGuarded ==
  ASSUME NEW instr, NEW d \in Int, NEW direction \in {"up", "down"}
  PROVE  RoundPhases(Emitted[instr].bits, d, direction) \in Guarded(instr)
<1> DEFINE bits == Emitted[instr].bits
           ph == Phase(direction, d)
<1>1. ph \in PhaseSet /\ ph.do = direction /\ ph.n = d /\ Phase("publish", 0) \in PhaseSet
  BY DEF Phase, PhaseSet
<1>2. CASE bits[d].level = "warp"
  <2> DEFINE a == <<Phase("publish", 0), Barrier>>
             b == <<ph, Barrier>>
  <2>1. a \in Guarded(instr) /\ b \in Guarded(instr)
    BY <1>1, GuardedParts
  <2>2. a \o b = <<Phase("publish", 0), Barrier, ph, Barrier>>
    <3> HIDE DEF ph
    <3>1. {Phase("publish", 0), Barrier, ph} \subseteq PhaseSet
      BY <1>1, BarrierIs
    <3> QED BY <3>1, FourAre
  <2>3. RoundPhases(bits, d, direction) = a \o b
    BY <1>2, <2>2 DEF RoundPhases
  <2> QED BY <2>1, <2>3, GuardedConcat
<1>3. CASE bits[d].level # "warp"
  <2>1. ~UsesWorkspace(instr, ph)
    BY <1>1, <1>3 DEF UsesWorkspace, Crosses
  <2>2. <<ph>> \in Guarded(instr)
    BY <1>1, <2>1, GuardedParts
  <2>3. RoundPhases(bits, d, direction) = <<ph>>
    BY <1>3 DEF RoundPhases
  <2> QED BY <2>2, <2>3
<1> QED BY <1>2, <1>3

LEMMA ScanGuarded ==
  ASSUME NEW instr, NEW X, ClassifyDimBits(instr) \in Seq(X),
         Emitted[instr].bits = ClassifyDimBits(instr)
  PROVE  ScanPhases(instr) \in Guarded(instr)
<1> DEFINE bits == Emitted[instr].bits
           m == Len(bits)
           Up == [d \in DOMAIN bits |-> RoundPhases(bits, d, "up")]
           Down == [d \in DOMAIN bits |-> RoundPhases(bits, Len(bits) + 1 - d, "down")]
           id == <<Phase("identity", 0)>>
           inc == <<Phase("inclusive", 0)>>
           Closing == IF instr.exclusive THEN <<>> ELSE inc
<1>1. m \in Nat /\ DOMAIN bits = 1 .. m
  OBVIOUS
<1>2. id \in Guarded(instr) /\ Closing \in Guarded(instr)
  <2>1. \A do \in {"identity", "inclusive"} :
          Phase(do, 0) \in PhaseSet /\ ~UsesWorkspace(instr, Phase(do, 0))
    BY DEF Phase, PhaseSet, UsesWorkspace, Crosses
  <2>2. id \in Guarded(instr) /\ inc \in Guarded(instr) /\ <<>> \in Guarded(instr)
    BY <2>1, GuardedParts
  <2> HIDE DEF inc
  <2> QED BY <2>2
<1>3. FlattenSeq(Up) \in Guarded(instr)
  <2>1. \A d \in 1 .. m : Up[d] \in Guarded(instr)
    <3> SUFFICES ASSUME NEW d \in 1 .. m PROVE Up[d] \in Guarded(instr)
      OBVIOUS
    <3>1. d \in Int /\ d \in DOMAIN bits
      BY <1>1
    <3> QED BY <3>1, RoundGuarded
  <2>2. Up = [d \in 1 .. m |-> Up[d]]
    BY <1>1
  <2> HIDE DEF Up
  <2> QED BY <1>1, <2>1, <2>2, GuardedFlatten
<1>4. FlattenSeq(Down) \in Guarded(instr)
  <2>1. \A d \in 1 .. m : Down[d] \in Guarded(instr)
    <3> SUFFICES ASSUME NEW d \in 1 .. m PROVE Down[d] \in Guarded(instr)
      OBVIOUS
    <3>1. m + 1 - d \in Int /\ d \in DOMAIN bits
      BY <1>1
    <3> QED BY <3>1, RoundGuarded
  <2>2. Down = [d \in 1 .. m |-> Down[d]]
    BY <1>1
  <2> HIDE DEF Down
  <2> QED BY <1>1, <2>1, <2>2, GuardedFlatten
<1>5. ScanPhases(instr) = ((FlattenSeq(Up) \o id) \o FlattenSeq(Down)) \o Closing
  BY DEF ScanPhases
<1> HIDE DEF Up, Down, id, Closing
<1>6. FlattenSeq(Up) \o id \in Guarded(instr)
  BY <1>2, <1>3, GuardedConcat
<1>7. (FlattenSeq(Up) \o id) \o FlattenSeq(Down) \in Guarded(instr)
  BY <1>4, <1>6, GuardedConcat
<1>8. ((FlattenSeq(Up) \o id) \o FlattenSeq(Down)) \o Closing \in Guarded(instr)
  BY <1>2, <1>7, GuardedConcat
<1> QED BY <1>5, <1>8

LEMMA PhasesGuarded ==
  ASSUME NEW instr \in Instrs, instr.op \in {"reduce", "scan"}
  PROVE  Emitted[instr].phases \in Guarded(instr)
<1>1. Emitted[instr] = Emit(instr)
  BY DEF Emitted
<1>2. CASE instr.op = "reduce"
  <2>1. Emitted[instr].phases = ReducePhases(instr)
    BY <1>1, <1>2 DEF Emit
  <2>2. Turns(instr) \in Nat
    BY LayoutAssumption
  <2> QED BY <2>1, <2>2, ReduceGuarded
<1>3. CASE instr.op = "scan"
  <2>1. Emitted[instr].phases = ScanPhases(instr) /\ Emitted[instr].bits = ClassifyDimBits(instr)
    BY <1>1, <1>3 DEF Emit
  <2>2. ClassifyDimBits(instr) \in Seq([level : {"local", "lane", "warp"}, delta : Nat])
    BY LayoutAssumption
  <2> QED BY <2>1, <2>2, ScanGuarded
<1> QED BY <1>2, <1>3

-----------------------------------------------------------------------------
(* The run in step.  A place in it is the number of steps made. *)

At(P, q) == InStep(P)[q]
InstrAt(P, q) == P[At(P, q).instr]
PhaseAt(P, q) == Emitted[InstrAt(P, q)].phases[At(P, q).phase]
EndedAt(P, q) == StepEnded(P, At(P, q))

BarrierAt(P, q) == ~EndedAt(P, q) /\ PhaseAt(P, q) = Barrier
UsesAt(P, q) == ~EndedAt(P, q) /\ UsesWorkspace(InstrAt(P, q), PhaseAt(P, q))
WritesAt(P, q, w, i) == ~EndedAt(P, q) /\ Writes(InstrAt(P, q), PhaseAt(P, q), w, i)

LEMMA Instructions ==
  ASSUME NEW P \in Programs
  PROVE  /\ Len(P) \in Nat /\ Len(P) > 0
         /\ \A k \in 1 .. Len(P) : P[k] \in Instrs /\ Emitted[P[k]].phases \in Guarded(P[k])
<1>1. P \in Seq(ToSet(P)) /\ Len(P) > 0 /\ \A k \in 1 .. Len(P) : P[k].op \in {"reduce", "scan"}
  BY CollectivesAssumption
<1>2. \A k \in 1 .. Len(P) : P[k] \in Instrs
  <2> SUFFICES ASSUME NEW k \in 1 .. Len(P) PROVE P[k] \in Instrs
    OBVIOUS
  <2>1. P[k] \in ToSet(P)
    BY <1>1
  <2> QED BY <2>1 DEF Instrs
<1> QED BY <1>1, <1>2, PhasesGuarded

LEMMA StepTypes ==
  ASSUME NEW P \in Programs
  PROVE  \A q \in Nat :
           /\ At(P, q).instr \in 1 .. Len(P) /\ At(P, q).phase \in Nat \ {0}
           /\ At(P, q).smem = [i \in WorkspaceIndex |-> At(P, q).smem[i]]
<1> DEFINE Typed(s) == /\ s.instr \in 1 .. Len(P) /\ s.phase \in Nat \ {0}
                       /\ s.smem = [i \in WorkspaceIndex |-> s.smem[i]]
           A == {q \in Nat : Typed(At(P, q))}
<1>1. 0 \in A
  <2>1. At(P, 0) = StepStart(P)
    BY InStepRuns DEF At
  <2>2. Typed(StepStart(P))
    BY Instructions DEF StepStart
  <2> HIDE DEF Typed
  <2> QED BY <2>1, <2>2
<1>2. ASSUME NEW q \in Nat, q \in A PROVE q + 1 \in A
  <2> DEFINE s == At(P, q)
  <2>1. At(P, q + 1) = StepNext(P, s) /\ Typed(s)
    BY <1>2, InStepRuns DEF At
  <2> HIDE DEF s
  <2>2. Typed(StepPhase(s.instr, P[s.instr], s.phase, s))
    BY <2>1 DEF StepPhase
  <2>3. CASE StepEnded(P, s) /\ s.instr < Len(P)
    <3> DEFINE next == [instr |-> s.instr + 1, phase |-> 1,
                        regs |-> Fresh(s.instr + 1, P[s.instr + 1]), smem |-> s.smem]
    <3>1. Typed(next)
      BY <2>1, <2>3, Instructions
    <3>2. StepNext(P, s) = next
      BY <2>3 DEF StepNext
    <3> HIDE DEF Typed, next
    <3> QED BY <2>1, <3>1, <3>2
  <2>4. CASE StepEnded(P, s) /\ ~(s.instr < Len(P))
    <3>1. StepNext(P, s) = s
      BY <2>4 DEF StepNext
    <3> HIDE DEF Typed
    <3> QED BY <2>1, <3>1
  <2>5. CASE ~StepEnded(P, s)
    <3>1. StepNext(P, s) = StepPhase(s.instr, P[s.instr], s.phase, s)
      BY <2>5 DEF StepNext
    <3> HIDE DEF Typed
    <3> QED BY <2>1, <2>2, <3>1
  <2> QED BY <2>3, <2>4, <2>5
<1> HIDE DEF A
<1>3. \A q \in Nat : q \in A
  BY <1>1, <1>2, Reach
<1> QED BY <1>3 DEF A

\* A phase that is to be run.
LEMMA PhaseIs ==
  ASSUME NEW P \in Programs, NEW q \in Nat, ~EndedAt(P, q)
  PROVE  /\ InstrAt(P, q) \in Instrs
         /\ At(P, q).phase \in DOMAIN Emitted[InstrAt(P, q)].phases
         /\ PhaseAt(P, q) \in PhaseSet
         /\ At(P, q + 1) = StepPhase(At(P, q).instr, InstrAt(P, q), At(P, q).phase, At(P, q))
<1> DEFINE s == At(P, q)
           phases == Emitted[InstrAt(P, q)].phases
<1>1. s.instr \in 1 .. Len(P) /\ s.phase \in Nat \ {0}
  BY StepTypes
<1>2. InstrAt(P, q) \in Instrs /\ phases \in Seq(PhaseSet)
  BY <1>1, Instructions DEF Guarded, InstrAt
<1>3. s.phase \in 1 .. Len(phases)
  BY <1>1, <1>2 DEF EndedAt, StepEnded, InstrAt
<1>4. s.phase \in DOMAIN phases /\ phases[s.phase] \in PhaseSet
  <2> HIDE DEF phases
  <2> QED BY <1>2, <1>3
<1>5. At(P, q + 1) = StepNext(P, s)
  BY InStepRuns DEF At
<1>6. StepNext(P, s) = StepPhase(s.instr, P[s.instr], s.phase, s)
  BY DEF StepNext, EndedAt
<1> QED BY <1>2, <1>4, <1>5, <1>6 DEF InstrAt, PhaseAt

LEMMA UsesThenBarrier ==
  ASSUME NEW P \in Programs, NEW q \in Nat, UsesAt(P, q)
  PROVE  BarrierAt(P, q + 1) /\ ~BarrierAt(P, q)
<1> DEFINE s == At(P, q)
           phases == Emitted[InstrAt(P, q)].phases
<1>1. ~EndedAt(P, q)
  BY DEF UsesAt
<1>2. At(P, q + 1).instr = s.instr /\ At(P, q + 1).phase = s.phase + 1
  <2>1. At(P, q + 1) = StepPhase(s.instr, InstrAt(P, q), s.phase, s)
    BY <1>1, PhaseIs
  <2> HIDE DEF s
  <2>2. \A k, instr, p : /\ StepPhase(k, instr, p, s).instr = k
                        /\ StepPhase(k, instr, p, s).phase = p + 1
    BY DEF StepPhase
  <2> QED BY <2>1, <2>2
<1>3. InstrAt(P, q + 1) = InstrAt(P, q)
  BY <1>2 DEF InstrAt
<1>4. s.instr \in 1 .. Len(P) /\ s.phase \in Nat \ {0}
  BY StepTypes
<1>5. phases \in Guarded(InstrAt(P, q))
  BY <1>4, Instructions DEF InstrAt
<1>6. s.phase \in 1 .. Len(phases)
  BY <1>1, <1>4, <1>5 DEF EndedAt, StepEnded, InstrAt, Guarded
<1>7. s.phase + 1 \in 1 .. Len(phases) /\ phases[s.phase + 1] = Barrier
  BY <1>5, <1>6 DEF Guarded, UsesAt, PhaseAt
<1>8. BarrierAt(P, q + 1)
  <2>1. ~EndedAt(P, q + 1)
    <3>1. Emitted[P[At(P, q + 1).instr]].phases = phases
      BY <1>2 DEF InstrAt
    <3> HIDE DEF phases
    <3>2. Len(phases) \in Nat
      BY <1>5 DEF Guarded
    <3> QED BY <1>2, <1>4, <1>7, <3>1, <3>2 DEF EndedAt, StepEnded
  <2>2. PhaseAt(P, q + 1) = phases[s.phase + 1]
    BY <1>2, <1>3 DEF PhaseAt
  <2> QED BY <1>7, <2>1, <2>2 DEF BarrierAt
<1> QED BY <1>8, BarrierIs DEF UsesAt, BarrierAt

LEMMA WritesUse ==
  ASSUME NEW P, NEW q, NEW w, NEW i, WritesAt(P, q, w, i)
  PROVE  UsesAt(P, q) /\ PhaseAt(P, q).do \in {"accumulate", "publish"}
  BY DEF WritesAt, UsesAt, Writes, UsesWorkspace

LEMMA OneWriter ==
  ASSUME NEW P \in Programs, NEW q \in Nat, NEW i \in WorkspaceIndex,
         NEW u \in Warp, NEW w \in Warp, WritesAt(P, q, u, i), WritesAt(P, q, w, i)
  PROVE  u = w
<1>1. ~EndedAt(P, q)
  BY DEF WritesAt
<1>2. InstrAt(P, q) \in Instrs /\ At(P, q).phase \in DOMAIN Emitted[InstrAt(P, q)].phases
  BY <1>1, PhaseIs
<1> QED BY <1>2, LayoutAssumption DEF WritesAt, PhaseAt

\* A place nobody writes keeps its value.
LEMMA SmemStays ==
  ASSUME NEW P \in Programs, NEW q \in Nat, NEW i \in WorkspaceIndex,
         \A w \in Warp : ~WritesAt(P, q, w, i)
  PROVE  At(P, q + 1).smem[i] = At(P, q).smem[i]
<1>1. CASE ~EndedAt(P, q)
  <2>1. At(P, q + 1) = StepPhase(At(P, q).instr, InstrAt(P, q), At(P, q).phase, At(P, q))
    BY <1>1, PhaseIs
  <2>2. \A w \in Warp : ~Writes(InstrAt(P, q), PhaseAt(P, q), w, i)
    BY <1>1 DEF WritesAt
  <2> QED BY <2>1, <2>2 DEF StepPhase, PhaseAt
<1>2. CASE EndedAt(P, q)
  <2>1. At(P, q + 1) = StepNext(P, At(P, q))
    BY InStepRuns DEF At
  <2> QED BY <1>2, <2>1 DEF StepNext, EndedAt
<1> QED BY <1>1, <1>2

\* The places a warp writes get what it writes.
LEMMA SmemWritten ==
  ASSUME NEW P \in Programs, NEW q \in Nat, NEW i \in WorkspaceIndex, NEW w \in Warp,
         WritesAt(P, q, w, i)
  PROVE  At(P, q + 1).smem[i] =
           Written(InstrAt(P, q), PhaseAt(P, q), w, Own(At(P, q).regs, w), At(P, q).smem, i)
<1> DEFINE Writer == CHOOSE u \in Warp : Writes(InstrAt(P, q), PhaseAt(P, q), u, i)
<1>1. ~EndedAt(P, q) /\ Writes(InstrAt(P, q), PhaseAt(P, q), w, i)
  BY DEF WritesAt
<1>2. Writer \in Warp /\ Writes(InstrAt(P, q), PhaseAt(P, q), Writer, i)
  BY <1>1
<1>3. Writer = w
  BY <1>1, <1>2, OneWriter DEF WritesAt
<1>4. At(P, q + 1) = StepPhase(At(P, q).instr, InstrAt(P, q), At(P, q).phase, At(P, q))
  BY <1>1, PhaseIs
<1>5. At(P, q + 1).smem[i] =
        Written(InstrAt(P, q), PhaseAt(P, q), Writer, Own(At(P, q).regs, Writer), At(P, q).smem, i)
  BY <1>1, <1>4 DEF StepPhase, PhaseAt
<1> QED BY <1>3, <1>5

\* A thread's registers come from its own warp's.
LEMMA RegsAfter ==
  ASSUME NEW P \in Programs, NEW q \in Nat, ~EndedAt(P, q), NEW w, NEW t \in Threads(w)
  PROVE  At(P, q + 1).regs[t] =
           RegistersAfter(At(P, q).instr, InstrAt(P, q), PhaseAt(P, q),
                          Own(At(P, q).regs, w), At(P, q).smem)[t]
<1>1. t \in GroupThreads /\ WarpOf(t) = w
  BY DEF Threads
<1>2. At(P, q + 1) = StepPhase(At(P, q).instr, InstrAt(P, q), At(P, q).phase, At(P, q))
  BY PhaseIs
<1> QED BY <1>1, <1>2 DEF StepPhase, PhaseAt

\* Writing and waiting change no register.
LEMMA RegsStay ==
  ASSUME NEW P \in Programs, NEW q \in Nat, ~EndedAt(P, q), NEW w, NEW t \in Threads(w),
         PhaseAt(P, q).do \in {"sync", "accumulate", "publish"}
  PROVE  At(P, q + 1).regs[t] = At(P, q).regs[t]
<1>1. ASSUME NEW k, NEW instr, NEW ph, NEW r, NEW smem, ph.do \in {"sync", "accumulate", "publish"}
      PROVE  RegistersAfter(k, instr, ph, r, smem) = r
  <2>1. ~Crosses(instr, ph)
    BY <1>1 DEF Crosses
  <2> QED BY <1>1, <2>1 DEF RegistersAfter
<1>2. Own(At(P, q).regs, w)[t] = At(P, q).regs[t]
  BY DEF Own
<1> QED BY <1>1, <1>2, RegsAfter

-----------------------------------------------------------------------------
(* Warps at different places.  A group runs program P, a and r are where its  *)
(* warps are and what its registers hold, m is the workspace; n is how many   *)
(* steps each warp has made.                                                  *)

\* The steps some warps have made and others have not.
Between(n) == {q \in Nat : \E u, w \in Warp : n[u] <= q /\ q < n[w]}

\* Of the writes of a place that are between, all are by warp w.
SpeaksFor(P, n, w, i) ==
  \A q \in Between(n), u \in Warp : WritesAt(P, q, u, i) => u = w

Follows(P, a, r, m, n) ==
  /\ n \in [Warp -> Nat]
  /\ \A w \in Warp : a[w] = [instr |-> At(P, n[w]).instr, phase |-> At(P, n[w]).phase]
  /\ \A w \in Warp : \A t \in Threads(w) : r[t] = At(P, n[w]).regs[t]
  /\ \A q \in Between(n) : ~BarrierAt(P, q)
  /\ \A i \in WorkspaceIndex, w \in Warp : SpeaksFor(P, n, w, i) => m[i] = At(P, n[w]).smem[i]

\* While a warp uses the workspace, nobody is past the barrier behind it, and
\* nobody has yet to use the workspace before it.
LEMMA Alone ==
  ASSUME NEW P \in Programs, NEW n \in [Warp -> Nat], \A q \in Between(n) : ~BarrierAt(P, q),
         NEW w \in Warp, UsesAt(P, n[w])
  PROVE  /\ \A u \in Warp : n[u] <= n[w] + 1
         /\ \A q \in Between(n) : UsesAt(P, q) => q = n[w]
<1> DEFINE c == n[w]
<1>1. c \in Nat /\ BarrierAt(P, c + 1) /\ ~BarrierAt(P, c)
  BY UsesThenBarrier
<1>2. ASSUME NEW u \in Warp PROVE n[u] <= c + 1
  <2> SUFFICES ASSUME n[u] > c + 1 PROVE FALSE
    BY <1>1
  <2>1. c + 1 \in Nat /\ n[w] <= c + 1 /\ c + 1 < n[u]
    BY <1>1
  <2> QED BY <1>1, <2>1 DEF Between
<1>3. ASSUME NEW q \in Between(n), UsesAt(P, q) PROVE q = c
  <2>1. PICK u \in Warp, v \in Warp : n[u] <= q /\ q < n[v]
    BY DEF Between
  <2>2. q \in Nat /\ n[u] \in Nat /\ n[v] \in Nat
    BY DEF Between
  <2>3. q <= c
    BY <1>1, <1>2, <2>1, <2>2
  <2>4. BarrierAt(P, q + 1)
    BY <1>3, <2>2, UsesThenBarrier
  <2> SUFFICES ASSUME q # c PROVE FALSE
    OBVIOUS
  <2>5. q + 1 # c
    BY <1>1, <2>4
  <2>6. q + 1 \in Nat /\ n[u] <= q + 1 /\ q + 1 < n[w]
    BY <1>1, <2>1, <2>2, <2>3, <2>5
  <2>7. q + 1 \in Between(n)
    BY <2>6 DEF Between
  <2> QED BY <2>4, <2>7
<1> QED BY <1>2, <1>3

\* A warp finds at the places it writes what it would find in step.
LEMMA OwnPlaces ==
  ASSUME NEW P \in Programs, NEW a, NEW r, NEW m, NEW n, Follows(P, a, r, m, n),
         NEW w \in Warp, NEW i \in WorkspaceIndex, WritesAt(P, n[w], w, i)
  PROVE  m[i] = At(P, n[w]).smem[i]
<1>1. n \in [Warp -> Nat] /\ n[w] \in Nat /\ \A q \in Between(n) : ~BarrierAt(P, q)
  BY DEF Follows
<1>2. UsesAt(P, n[w])
  BY WritesUse
<1>3. SpeaksFor(P, n, w, i)
  <2> SUFFICES ASSUME NEW q \in Between(n), NEW u \in Warp, WritesAt(P, q, u, i) PROVE u = w
    BY DEF SpeaksFor
  <2>1. q = n[w]
    BY <1>1, <1>2, WritesUse, Alone
  <2> QED BY <1>1, <2>1, OneWriter
<1> QED BY <1>3 DEF Follows

\* A warp that reads finds all of the workspace as it would find it in step.
LEMMA ReadsAll ==
  ASSUME NEW P \in Programs, NEW a, NEW r, NEW m, NEW n, Follows(P, a, r, m, n),
         m = [i \in WorkspaceIndex |-> m[i]], NEW w \in Warp, UsesAt(P, n[w]),
         PhaseAt(P, n[w]).do \notin {"accumulate", "publish"}
  PROVE  m = At(P, n[w]).smem
<1>1. n \in [Warp -> Nat] /\ n[w] \in Nat /\ \A q \in Between(n) : ~BarrierAt(P, q)
  BY DEF Follows
<1>2. ASSUME NEW i \in WorkspaceIndex PROVE m[i] = At(P, n[w]).smem[i]
  <2>1. SpeaksFor(P, n, w, i)
    <3> SUFFICES ASSUME NEW q \in Between(n), NEW u \in Warp, WritesAt(P, q, u, i) PROVE FALSE
      BY DEF SpeaksFor
    <3>1. q = n[w]
      BY <1>1, WritesUse, Alone
    <3> QED BY <3>1, WritesUse
  <2> QED BY <2>1 DEF Follows
<1>3. At(P, n[w]).smem = [i \in WorkspaceIndex |-> At(P, n[w]).smem[i]]
  BY <1>1, StepTypes
<1> QED BY <1>2, <1>3

\* One warp makes a step that is not a barrier.
Advanced(P, a, r, m, n, w, a2, r2, m2) ==
  /\ a2 = [a EXCEPT ![w] = [instr |-> At(P, n[w] + 1).instr, phase |-> At(P, n[w] + 1).phase]]
  /\ \A t \in GroupThreads : r2[t] = IF WarpOf(t) = w THEN At(P, n[w] + 1).regs[t] ELSE r[t]
  /\ \A i \in WorkspaceIndex :
       m2[i] = IF WritesAt(P, n[w], w, i) THEN At(P, n[w] + 1).smem[i] ELSE m[i]

\* The steps made after it.
More(n, w) == [n EXCEPT ![w] = n[w] + 1]

LEMMA SmemAdvances ==
  ASSUME NEW P \in Programs, NEW a, NEW r, NEW m, NEW n, Follows(P, a, r, m, n),
         NEW w \in Warp, ~BarrierAt(P, n[w]), NEW a2, NEW r2, NEW m2,
         Advanced(P, a, r, m, n, w, a2, r2, m2),
         NEW i \in WorkspaceIndex, NEW v \in Warp, SpeaksFor(P, More(n, w), v, i)
  PROVE  m2[i] = At(P, More(n, w)[v]).smem[i]
<1> DEFINE c == n[w]
           n2 == More(n, w)
<1>1. /\ n \in [Warp -> Nat] /\ c \in Nat /\ \A q \in Between(n) : ~BarrierAt(P, q)
      /\ n2[w] = c + 1 /\ \A u \in Warp : u # w => n2[u] = n[u]
  BY DEF Follows, More
<1>2. SpeaksFor(P, n2, v, i)
  OBVIOUS
<1> SUFFICES m2[i] = At(P, n2[v]).smem[i]
  OBVIOUS
<1> HIDE DEF n2
<1>3. c \notin Between(n2) => \A u \in Warp : n2[u] >= c + 1
  <2> SUFFICES ASSUME c \notin Between(n2), NEW u \in Warp PROVE n2[u] >= c + 1
    OBVIOUS
  <2>1. ~(n2[u] <= c /\ c < n2[w])
    BY <1>1 DEF Between
  <2>2. n2[u] \in Nat
    BY <1>1
  <2> QED BY <1>1, <2>1, <2>2
<1>4. ASSUME UsesAt(P, c), c \notin Between(n2)
      PROVE  \A u \in Warp : n2[u] = c + 1
  <2>1. \A u \in Warp : n[u] <= c + 1
    BY <1>1, <1>4, Alone
  <2> QED BY <1>1, <1>3, <1>4, <2>1
<1>5. CASE WritesAt(P, c, w, i)
  <2>1. m2[i] = At(P, c + 1).smem[i]
    BY <1>5 DEF Advanced
  <2>2. CASE v = w
    BY <1>1, <2>1, <2>2
  <2>3. CASE v # w
    <3>1. c \notin Between(n2)
      BY <1>2, <1>5, <2>3 DEF SpeaksFor
    <3>2. n2[v] = c + 1
      BY <1>4, <1>5, <3>1, WritesUse
    <3> QED BY <2>1, <3>2
  <2> QED BY <2>2, <2>3
<1>6. CASE ~WritesAt(P, c, w, i) /\ \E u \in Warp : WritesAt(P, c, u, i)
  <2>1. PICK u \in Warp : WritesAt(P, c, u, i)
    BY <1>6
  <2>2. u # w /\ n2[u] = n[u] /\ UsesAt(P, c)
    BY <1>1, <1>6, <2>1, WritesUse
  <2>3. SpeaksFor(P, n, u, i)
    <3> SUFFICES ASSUME NEW q \in Between(n), NEW x \in Warp, WritesAt(P, q, x, i) PROVE x = u
      BY DEF SpeaksFor
    <3>1. q = c
      BY <1>1, <2>2, WritesUse, Alone
    <3> QED BY <1>1, <2>1, <3>1, OneWriter
  <2>4. m2[i] = At(P, n[u]).smem[i]
    BY <1>6, <2>3 DEF Advanced, Follows
  <2>5. CASE c \in Between(n2)
    <3>1. u = v
      BY <1>2, <2>1, <2>5 DEF SpeaksFor
    <3> QED BY <2>2, <2>4, <3>1
  <2>6. CASE c \notin Between(n2)
    <3>1. n2[u] = c + 1 /\ n2[v] = c + 1
      BY <1>4, <2>2, <2>6
    <3> QED BY <2>2, <2>4, <3>1
  <2> QED BY <2>5, <2>6
<1>7. CASE \A u \in Warp : ~WritesAt(P, c, u, i)
  <2>1. At(P, c + 1).smem[i] = At(P, c).smem[i] /\ m2[i] = m[i]
    BY <1>1, <1>7, SmemStays DEF Advanced
  <2>2. SpeaksFor(P, n, v, i)
    <3> SUFFICES ASSUME NEW q \in Between(n), NEW u \in Warp, WritesAt(P, q, u, i), q # c PROVE u = v
      BY <1>7 DEF SpeaksFor
    <3>1. PICK x \in Warp, y \in Warp : n[x] <= q /\ q < n[y]
      BY DEF Between
    <3>2. q \in Nat /\ n[x] \in Nat /\ n[y] \in Nat
      BY <1>1 DEF Between
    <3>3. n2[x] <= q
      BY <1>1, <3>1, <3>2
    <3>4. q < n2[y]
      BY <1>1, <3>1, <3>2
    <3>5. q \in Between(n2)
      BY <3>2, <3>3, <3>4 DEF Between
    <3> QED BY <1>2, <3>5 DEF SpeaksFor
  <2>3. m[i] = At(P, n[v]).smem[i]
    BY <2>2 DEF Follows
  <2> QED BY <1>1, <2>1, <2>3
<1> QED BY <1>5, <1>6, <1>7

LEMMA Advance ==
  ASSUME NEW P \in Programs, NEW a, NEW r, NEW m, NEW n, Follows(P, a, r, m, n),
         a \in [Warp -> [instr : Nat, phase : Nat]],
         NEW w \in Warp, ~BarrierAt(P, n[w]), NEW a2, NEW r2, NEW m2,
         Advanced(P, a, r, m, n, w, a2, r2, m2)
  PROVE  Follows(P, a2, r2, m2, More(n, w))
<1> DEFINE c == n[w]
           n2 == More(n, w)
<1>1. n \in [Warp -> Nat] /\ c \in Nat /\ \A q \in Between(n) : ~BarrierAt(P, q)
  BY DEF Follows
<1>2. n2 \in [Warp -> Nat] /\ n2[w] = c + 1 /\ \A u \in Warp : u # w => n2[u] = n[u]
  BY <1>1 DEF More
<1> HIDE DEF n2
<1>3. \A u \in Warp : a2[u] = [instr |-> At(P, n2[u]).instr, phase |-> At(P, n2[u]).phase]
  BY <1>2 DEF Follows, Advanced
<1>4. \A u \in Warp : \A t \in Threads(u) : r2[t] = At(P, n2[u]).regs[t]
  BY <1>2 DEF Follows, Advanced, Threads
<1>5. \A q \in Between(n2) : ~BarrierAt(P, q)
  <2> SUFFICES ASSUME NEW q \in Between(n2), q # c PROVE q \in Between(n)
    BY <1>1
  <2>1. PICK x \in Warp, y \in Warp : n2[x] <= q /\ q < n2[y]
    BY DEF Between
  <2>2. q \in Nat /\ n[x] \in Nat /\ n[y] \in Nat
    BY <1>1 DEF Between
  <2>3. n[x] <= q
    <3>1. n[x] <= n2[x] /\ n2[x] \in Nat
      BY <1>1, <1>2
    <3> QED BY <2>1, <2>2, <3>1
  <2>4. q < n[y]
    <3>1. CASE y = w
      <4>1. n2[y] = c + 1 /\ n[y] = c
        BY <1>2, <3>1
      <4> HIDE DEF c
      <4> QED BY <1>1, <2>1, <2>2, <4>1
    <3>2. CASE y # w
      BY <1>2, <2>1, <3>2
    <3> QED BY <3>1, <3>2
  <2> QED BY <2>2, <2>3, <2>4 DEF Between
<1>6. ASSUME NEW i \in WorkspaceIndex, NEW v \in Warp, SpeaksFor(P, n2, v, i)
      PROVE  m2[i] = At(P, n2[v]).smem[i]
  <2>1. SpeaksFor(P, More(n, w), v, i)
    BY <1>6 DEF n2
  <2>2. m2[i] = At(P, More(n, w)[v]).smem[i]
    BY <2>1, SmemAdvances
  <2> QED BY <2>2 DEF n2
<1>7. Follows(P, a2, r2, m2, n2)
  BY <1>2, <1>3, <1>4, <1>5, <1>6 DEF Follows
<1> QED BY <1>7 DEF n2

-----------------------------------------------------------------------------
(* The steps of the specification. *)

OneGroup == \A g, h \in Groups : g = h

CollectiveTypes ==
  /\ program \in [Groups -> Programs]
  /\ at \in [Groups -> [Warp -> [instr : Nat, phase : Nat]]]
  /\ regs = [g \in Groups |-> [t \in GroupThreads |-> regs[g][t]]]
  /\ workspace = [i \in WorkspaceIndex |-> workspace[i]]

\* Every warp is where it would be in step, with the registers it would have.
InStepInvariant ==
  /\ CollectiveTypes
  /\ \A g \in Groups : \E n : Follows(program[g], at[g], regs[g], workspace, n)

\* Where a warp of the specification is.
LEMMA Corresponds ==
  ASSUME CollectiveTypes, NEW g \in Groups, NEW n,
         Follows(program[g], at[g], regs[g], workspace, n), NEW w \in Warp
  PROVE  /\ program[g] \in Programs /\ n[w] \in Nat
         /\ at[g][w].instr = At(program[g], n[w]).instr
         /\ at[g][w].phase = At(program[g], n[w]).phase
         /\ Instr(g, w) = InstrAt(program[g], n[w])
         /\ Current(g, w) = PhaseAt(program[g], n[w])
         /\ Done(g, w) <=> EndedAt(program[g], n[w])
         /\ Own(regs[g], w) = Own(At(program[g], n[w]).regs, w)
<1>1. program[g] \in Programs /\ n[w] \in Nat
  BY DEF CollectiveTypes, Follows
<1>2. /\ at[g][w].instr = At(program[g], n[w]).instr
      /\ at[g][w].phase = At(program[g], n[w]).phase
  <2>1. at[g][w] = [instr |-> At(program[g], n[w]).instr, phase |-> At(program[g], n[w]).phase]
    BY DEF Follows
  <2> QED BY <2>1
<1>3. Instr(g, w) = InstrAt(program[g], n[w])
  BY <1>2 DEF Instr, InstrAt
<1>4. Current(g, w) = PhaseAt(program[g], n[w])
  BY <1>2, <1>3 DEF Current, PhaseAt, Phases
<1>5. Done(g, w) <=> EndedAt(program[g], n[w])
  BY <1>2, <1>3 DEF Done, EndedAt, StepEnded, Phases, InstrAt
<1>6. Own(regs[g], w) = Own(At(program[g], n[w]).regs, w)
  BY DEF Follows, Own
<1> QED BY <1>1, <1>2, <1>3, <1>4, <1>5, <1>6

LEMMA AdvanceKeeps ==
  ASSUME OneGroup, CollectiveTypes, CollectiveTypes', program' = program,
         NEW g \in Groups, NEW n, Follows(program[g], at[g], regs[g], workspace, n),
         NEW w \in Warp, ~BarrierAt(program[g], n[w]),
         Advanced(program[g], at[g], regs[g], workspace, n, w, at'[g], regs'[g], workspace')
  PROVE  InStepInvariant'
<1>1. program[g] \in Programs /\ at[g] \in [Warp -> [instr : Nat, phase : Nat]]
  BY DEF CollectiveTypes
<1>2. Follows(program[g], at'[g], regs'[g], workspace', More(n, w))
  BY <1>1, Advance
<1>3. \A h \in Groups : h = g
  BY DEF OneGroup
<1> QED BY <1>2, <1>3 DEF InStepInvariant

LEMMA NextPhaseIs ==
  ASSUME CollectiveTypes, NEW g \in Groups, NEW w \in Warp, NextPhase(g, w)
  PROVE  /\ at' \in [Groups -> [Warp -> [instr : Nat, phase : Nat]]]
         /\ at'[g] = [at[g] EXCEPT ![w] = [instr |-> at[g][w].instr, phase |-> at[g][w].phase + 1]]
<1>1. at[g] \in [Warp -> [instr : Nat, phase : Nat]] /\ at[g][w] \in [instr : Nat, phase : Nat]
  BY DEF CollectiveTypes
<1>2. [at[g][w] EXCEPT !.phase = @ + 1] = [instr |-> at[g][w].instr, phase |-> at[g][w].phase + 1]
  BY <1>1
<1>3. at' = [at EXCEPT ![g] = [at[g] EXCEPT ![w] = [at[g][w] EXCEPT !.phase = @ + 1]]]
  BY DEF NextPhase
<1>4. [instr |-> at[g][w].instr, phase |-> at[g][w].phase + 1] \in [instr : Nat, phase : Nat]
  BY <1>1
<1> QED BY <1>1, <1>2, <1>3, <1>4 DEF CollectiveTypes

LEMMA PhaseAdvances ==
  ASSUME CollectiveTypes, NEW g \in Groups, NEW n,
         Follows(program[g], at[g], regs[g], workspace, n), NEW w \in Warp,
         ~Done(g, w), NextPhase(g, w)
  PROVE  at'[g] = [at[g] EXCEPT ![w] = [instr |-> At(program[g], n[w] + 1).instr,
                                        phase |-> At(program[g], n[w] + 1).phase]]
<1> DEFINE P == program[g]
           s == At(P, n[w])
<1>1. At(P, n[w] + 1) = StepPhase(s.instr, InstrAt(P, n[w]), s.phase, s)
  BY Corresponds, PhaseIs
<1>2. \A k, instr, p, x : /\ StepPhase(k, instr, p, x).instr = k
                          /\ StepPhase(k, instr, p, x).phase = p + 1
  BY DEF StepPhase
<1>3. At(P, n[w] + 1).instr = at[g][w].instr /\ At(P, n[w] + 1).phase = at[g][w].phase + 1
  <2> HIDE DEF s
  <2>1. at[g][w].instr = s.instr /\ at[g][w].phase = s.phase
    BY Corresponds DEF s
  <2> QED BY <1>1, <1>2, <2>1
<1> QED BY <1>3, NextPhaseIs

\* A phase without the workspace does not depend on it.
LEMMA Unshared ==
  ASSUME NEW k, NEW instr, NEW ph, NEW r, NEW m, NEW s, ~UsesWorkspace(instr, ph)
  PROVE  RegistersAfter(k, instr, ph, r, m) = RegistersAfter(k, instr, ph, r, s)
<1>1. ph.do # "collect" /\ ~Crosses(instr, ph)
  BY DEF UsesWorkspace
<1> QED BY <1>1 DEF RegistersAfter

\* What a warp writes depends on no other place.
LEMMA WrittenHere ==
  ASSUME NEW instr, NEW ph, NEW w, NEW r, NEW i, NEW m, NEW s, m[i] = s[i]
  PROVE  Written(instr, ph, w, r, m, i) = Written(instr, ph, w, r, s, i)
  BY DEF Written, Accumulated, Combine

LEMMA RegistersTyped ==
  ASSUME CollectiveTypes, NEW g \in Groups, NEW w \in Warp, NEW r, TakeRegisters(g, w, r)
  PROVE  /\ regs' = [h \in Groups |-> [t \in GroupThreads |-> regs'[h][t]]]
         /\ \A t \in GroupThreads : regs'[g][t] = IF WarpOf(t) = w THEN r[t] ELSE regs[g][t]
<1> DEFINE new == [t \in GroupThreads |-> IF WarpOf(t) = w THEN r[t] ELSE regs[g][t]]
<1>1. regs' = [regs EXCEPT ![g] = new]
  BY DEF TakeRegisters
<1>2. DOMAIN regs = Groups /\ \A h \in Groups : regs[h] = [t \in GroupThreads |-> regs[h][t]]
  BY DEF CollectiveTypes
<1>3. new = [t \in GroupThreads |-> new[t]]
  OBVIOUS
<1>4. \A t \in GroupThreads : new[t] = IF WarpOf(t) = w THEN r[t] ELSE regs[g][t]
  OBVIOUS
<1> HIDE DEF new
<1>5. regs'[g] = new /\ \A h \in Groups : h # g => regs'[h] = regs[h]
  BY <1>1, <1>2
<1>6. \A h \in Groups : regs'[h] = [t \in GroupThreads |-> regs'[h][t]]
  BY <1>2, <1>3, <1>5
<1>7. DOMAIN regs' = Groups /\ regs' = [h \in Groups |-> regs'[h]]
  BY <1>1, <1>2
<1> QED BY <1>4, <1>5, <1>6, <1>7

\* A phase that computes registers, from those of the warp and, if it reads the
\* workspace, from all of that.
LEMMA RegistersKeep ==
  ASSUME OneGroup, InStepInvariant, NEW g \in Groups, NEW w \in Warp,
         ~Done(g, w), Current(g, w) # Barrier, Current(g, w).do \notin {"accumulate", "publish"},
         RunRegisters(g, w), NextPhase(g, w), UNCHANGED <<program, workspace>>
  PROVE  InStepInvariant'
<1>1. PICK n : Follows(program[g], at[g], regs[g], workspace, n)
  BY DEF InStepInvariant
<1> DEFINE P == program[g]
           q == n[w]
           s == At(P, q)
           r == RegistersAfter(at[g][w].instr, Instr(g, w), Current(g, w), Own(regs[g], w), workspace)
<1>2. CollectiveTypes
  BY DEF InStepInvariant
<1>3. /\ P \in Programs /\ q \in Nat /\ at[g][w].instr = s.instr
      /\ Instr(g, w) = InstrAt(P, q) /\ Current(g, w) = PhaseAt(P, q)
      /\ ~EndedAt(P, q) /\ Own(regs[g], w) = Own(s.regs, w)
  BY <1>1, <1>2, Corresponds
<1>4. r = RegistersAfter(s.instr, InstrAt(P, q), PhaseAt(P, q), Own(s.regs, w), s.smem)
  <2>1. CASE UsesWorkspace(InstrAt(P, q), PhaseAt(P, q))
    <3>1. workspace = s.smem
      BY <1>1, <1>2, <1>3, <2>1, ReadsAll DEF UsesAt, CollectiveTypes
    <3> QED BY <1>3, <3>1
  <2>2. CASE ~UsesWorkspace(InstrAt(P, q), PhaseAt(P, q))
    BY <1>3, <2>2, Unshared
  <2> QED BY <2>1, <2>2
<1>5. TakeRegisters(g, w, r)
  BY DEF RunRegisters
<1> HIDE DEF r
<1>6. \A t \in GroupThreads : regs'[g][t] = IF WarpOf(t) = w THEN At(P, q + 1).regs[t] ELSE regs[g][t]
  <2> SUFFICES ASSUME NEW t \in GroupThreads, WarpOf(t) = w PROVE r[t] = At(P, q + 1).regs[t]
    BY <1>2, <1>5, RegistersTyped
  <2>1. t \in Threads(w)
    BY DEF Threads
  <2> QED BY <1>3, <1>4, <2>1, RegsAfter
<1>7. \A i \in WorkspaceIndex : ~WritesAt(P, q, w, i)
  BY <1>3, WritesUse
<1>8. Advanced(P, at[g], regs[g], workspace, n, w, at'[g], regs'[g], workspace')
  BY <1>1, <1>2, <1>6, <1>7, PhaseAdvances DEF Advanced
<1>9. CollectiveTypes'
  BY <1>2, <1>5, RegistersTyped, NextPhaseIs DEF CollectiveTypes
<1>10. ~BarrierAt(P, q)
  BY <1>3 DEF BarrierAt
<1> QED BY <1>1, <1>2, <1>8, <1>9, <1>10, AdvanceKeeps

\* A phase that writes the workspace.
LEMMA WorkspaceKeep ==
  ASSUME OneGroup, InStepInvariant, NEW g \in Groups, NEW w \in Warp,
         ~Done(g, w), Current(g, w).do \in {"accumulate", "publish"},
         RunWorkspace(g, w), NextPhase(g, w), UNCHANGED <<program, regs>>
  PROVE  InStepInvariant'
<1>1. PICK n : Follows(program[g], at[g], regs[g], workspace, n)
  BY DEF InStepInvariant
<1> DEFINE P == program[g]
           q == n[w]
           s == At(P, q)
<1>2. CollectiveTypes
  BY DEF InStepInvariant
<1>3. /\ P \in Programs /\ q \in Nat /\ Instr(g, w) = InstrAt(P, q) /\ Current(g, w) = PhaseAt(P, q)
      /\ ~EndedAt(P, q) /\ Own(regs[g], w) = Own(s.regs, w)
  BY <1>1, <1>2, Corresponds
<1>4. \A t \in GroupThreads : regs'[g][t] = IF WarpOf(t) = w THEN At(P, q + 1).regs[t] ELSE regs[g][t]
  <2> SUFFICES ASSUME NEW t \in GroupThreads, WarpOf(t) = w PROVE regs[g][t] = At(P, q + 1).regs[t]
    OBVIOUS
  <2>1. t \in Threads(w)
    BY DEF Threads
  <2>2. regs[g][t] = s.regs[t]
    BY <1>1, <2>1 DEF Follows
  <2> QED BY <1>3, <2>1, <2>2, RegsStay
<1>5. \A i \in WorkspaceIndex :
        workspace'[i] = IF WritesAt(P, q, w, i) THEN At(P, q + 1).smem[i] ELSE workspace[i]
  <2> SUFFICES ASSUME NEW i \in WorkspaceIndex
               PROVE  workspace'[i] = IF WritesAt(P, q, w, i) THEN At(P, q + 1).smem[i] ELSE workspace[i]
    OBVIOUS
  <2>1. WritesAt(P, q, w, i) <=> Writes(Instr(g, w), Current(g, w), w, i)
    BY <1>3 DEF WritesAt
  <2>2. CASE WritesAt(P, q, w, i)
    <3>1. workspace[i] = s.smem[i]
      BY <1>1, <1>3, <2>2, OwnPlaces
    <3>2. workspace'[i] = Written(InstrAt(P, q), PhaseAt(P, q), w, Own(s.regs, w), workspace, i)
      BY <1>3, <2>1, <2>2 DEF RunWorkspace
    <3>3. workspace'[i] = Written(InstrAt(P, q), PhaseAt(P, q), w, Own(s.regs, w), s.smem, i)
      BY <3>1, <3>2, WrittenHere
    <3> QED BY <1>3, <2>2, <3>3, SmemWritten
  <2>3. CASE ~WritesAt(P, q, w, i)
    BY <2>1, <2>3 DEF RunWorkspace
  <2> QED BY <2>2, <2>3
<1>6. Advanced(P, at[g], regs[g], workspace, n, w, at'[g], regs'[g], workspace')
  <2>1. at'[g] = [at[g] EXCEPT ![w] = [instr |-> At(P, q + 1).instr, phase |-> At(P, q + 1).phase]]
    BY <1>1, <1>2, PhaseAdvances, ZenonT(60)
  <2> QED BY <1>4, <1>5, <2>1 DEF Advanced
<1>7. CollectiveTypes'
  <2>1. workspace' = [i \in WorkspaceIndex |-> workspace'[i]]
    BY DEF RunWorkspace
  <2> QED BY <1>2, <2>1, NextPhaseIs DEF CollectiveTypes
<1>8. ~BarrierAt(P, q)
  BY <1>3, BarrierIs DEF BarrierAt
<1> QED BY <1>1, <1>2, <1>6, <1>7, <1>8, AdvanceKeeps

LEMMA NextInstrKeeps ==
  ASSUME OneGroup, InStepInvariant, NEW g \in Groups, NEW w \in Warp, NextInstr(g, w)
  PROVE  InStepInvariant'
<1>1. PICK n : Follows(program[g], at[g], regs[g], workspace, n)
  BY DEF InStepInvariant
<1> DEFINE P == program[g]
           q == n[w]
           s == At(P, q)
           k == at[g][w].instr + 1
           next == [instr |-> k, phase |-> 1, regs |-> Fresh(k, P[k]), smem |-> s.smem]
<1>2. CollectiveTypes
  BY DEF InStepInvariant
<1>3. P \in Programs /\ q \in Nat /\ at[g][w].instr = s.instr /\ EndedAt(P, q) /\ s.instr < Len(P)
  BY <1>1, <1>2, Corresponds DEF NextInstr
<1>4. At(P, q + 1) = next
  <2>1. At(P, q + 1) = StepNext(P, s)
    BY <1>3, InStepRuns DEF At
  <2> QED BY <1>3, <2>1 DEF StepNext, EndedAt
<1>5. /\ at' = [at EXCEPT ![g] = [at[g] EXCEPT ![w] = [instr |-> k, phase |-> 1]]]
      /\ TakeRegisters(g, w, Fresh(k, P[k])) /\ UNCHANGED <<program, workspace>>
  BY DEF NextInstr
<1>6. at[g] \in [Warp -> [instr : Nat, phase : Nat]] /\ [instr |-> k, phase |-> 1] \in [instr : Nat, phase : Nat]
  BY <1>2 DEF CollectiveTypes
<1>7. CollectiveTypes'
  <2>1. at' \in [Groups -> [Warp -> [instr : Nat, phase : Nat]]]
    BY <1>2, <1>5, <1>6 DEF CollectiveTypes
  <2> QED BY <1>2, <1>5, <2>1, RegistersTyped DEF CollectiveTypes
<1>8. Advanced(P, at[g], regs[g], workspace, n, w, at'[g], regs'[g], workspace')
  <2>1. at'[g] = [at[g] EXCEPT ![w] = [instr |-> k, phase |-> 1]]
    BY <1>2, <1>5 DEF CollectiveTypes
  <2>2. At(P, q + 1).instr = k /\ At(P, q + 1).phase = 1 /\ At(P, q + 1).regs = Fresh(k, P[k])
    BY <1>4
  <2>3. \A t \in GroupThreads : regs'[g][t] = IF WarpOf(t) = w THEN Fresh(k, P[k])[t] ELSE regs[g][t]
    BY <1>2, <1>5, RegistersTyped
  <2>4. \A i \in WorkspaceIndex : ~WritesAt(P, q, w, i)
    BY <1>3 DEF WritesAt
  <2> HIDE DEF k
  <2> QED BY <1>5, <2>1, <2>2, <2>3, <2>4 DEF Advanced
<1>9. ~BarrierAt(P, q)
  BY <1>3 DEF BarrierAt
<1> QED BY <1>1, <1>2, <1>5, <1>7, <1>8, <1>9, AdvanceKeeps

\* All warps wait: then they are at one place, and go on together.
LEMMA SyncKeeps ==
  ASSUME OneGroup, InStepInvariant, NEW g \in Groups, SyncWarps(g)
  PROVE  InStepInvariant'
<1>1. PICK n : Follows(program[g], at[g], regs[g], workspace, n)
  BY DEF InStepInvariant
<1> DEFINE P == program[g]
           n2 == [w \in Warp |-> n[w] + 1]
<1>2. CollectiveTypes
  BY DEF InStepInvariant
<1>3. P \in Programs /\ n \in [Warp -> Nat] /\ n2 \in [Warp -> Nat] /\ \A w \in Warp : n2[w] = n[w] + 1
  BY <1>1, <1>2 DEF Follows, CollectiveTypes
<1> HIDE DEF n2
<1>4. \A w \in Warp : /\ BarrierAt(P, n[w]) /\ ~EndedAt(P, n[w]) /\ PhaseAt(P, n[w]) = Barrier
                      /\ at[g][w].instr = At(P, n[w]).instr /\ at[g][w].phase = At(P, n[w]).phase
  BY <1>1, <1>2, Corresponds DEF SyncWarps, BarrierAt
<1>5. \A u, w \in Warp : n[u] = n[w]
  <2>1. ASSUME NEW u \in Warp, NEW w \in Warp, n[u] < n[w] PROVE FALSE
    <3>1. n[u] \in Nat /\ n[u] <= n[u]
      BY <1>3
    <3>2. n[u] \in Between(n)
      BY <2>1, <3>1 DEF Between
    <3> QED BY <1>1, <1>4, <3>2 DEF Follows
  <2> QED BY <1>3, <2>1
<1>6. Between(n) = {} /\ Between(n2) = {}
  <2>1. \A u, w \in Warp : n2[u] = n2[w]
    BY <1>3, <1>5
  <2>2. ASSUME NEW f \in [Warp -> Nat], \A u, w \in Warp : f[u] = f[w] PROVE Between(f) = {}
    <3> SUFFICES ASSUME NEW q \in Nat, NEW u \in Warp, NEW w \in Warp, f[u] <= q, q < f[w] PROVE FALSE
      BY DEF Between
    <3>1. f[u] = f[w] /\ f[u] \in Nat
      BY <2>2
    <3> QED BY <3>1
  <2>3. Between(n) = {}
    BY <1>3, <1>5, <2>2
  <2>4. Between(n2) = {}
    BY <1>3, <2>1, <2>2
  <2> QED BY <2>3, <2>4
<1>7. at' = [at EXCEPT ![g] = [w \in Warp |-> [at[g][w] EXCEPT !.phase = @ + 1]]]
  BY DEF SyncWarps
<1>8. \A w \in Warp : at[g][w] \in [instr : Nat, phase : Nat]
  BY <1>2 DEF CollectiveTypes
<1>9. \A w \in Warp : at'[g][w] = [instr |-> at[g][w].instr, phase |-> at[g][w].phase + 1]
  <2> SUFFICES ASSUME NEW w \in Warp
               PROVE  at'[g][w] = [instr |-> at[g][w].instr, phase |-> at[g][w].phase + 1]
    OBVIOUS
  <2>1. at'[g][w] = [at[g][w] EXCEPT !.phase = @ + 1]
    BY <1>2, <1>7 DEF CollectiveTypes
  <2> QED BY <1>8, <2>1
<1>10. \A w \in Warp : at'[g][w] = [instr |-> At(P, n2[w]).instr, phase |-> At(P, n2[w]).phase]
  <2> SUFFICES ASSUME NEW w \in Warp
               PROVE  at'[g][w] = [instr |-> At(P, n2[w]).instr, phase |-> At(P, n2[w]).phase]
    OBVIOUS
  <2> DEFINE s == At(P, n[w])
  <2>1. At(P, n2[w]) = StepPhase(s.instr, InstrAt(P, n[w]), s.phase, s)
    BY <1>3, <1>4, PhaseIs
  <2>2. at[g][w].instr = s.instr /\ at[g][w].phase = s.phase
    BY <1>4
  <2> HIDE DEF s
  <2>3. \A k, instr, p, x : /\ StepPhase(k, instr, p, x).instr = k
                            /\ StepPhase(k, instr, p, x).phase = p + 1
    BY DEF StepPhase
  <2> QED BY <1>9, <2>1, <2>2, <2>3
<1>11. \A w \in Warp : \A t \in Threads(w) : regs[g][t] = At(P, n2[w]).regs[t]
  <2> SUFFICES ASSUME NEW w \in Warp, NEW t \in Threads(w) PROVE regs[g][t] = At(P, n2[w]).regs[t]
    OBVIOUS
  <2>1. regs[g][t] = At(P, n[w]).regs[t]
    BY <1>1 DEF Follows
  <2>2. PhaseAt(P, n[w]).do \in {"sync", "accumulate", "publish"}
    BY <1>4, BarrierIs
  <2>3. n[w] \in Nat /\ ~EndedAt(P, n[w])
    BY <1>3, <1>4
  <2>4. At(P, n[w] + 1).regs[t] = At(P, n[w]).regs[t]
    BY <1>3, <2>2, <2>3, RegsStay
  <2> QED BY <1>3, <2>1, <2>4
<1>12. \A i \in WorkspaceIndex, w \in Warp : workspace[i] = At(P, n2[w]).smem[i]
  <2> SUFFICES ASSUME NEW i \in WorkspaceIndex, NEW w \in Warp PROVE workspace[i] = At(P, n2[w]).smem[i]
    OBVIOUS
  <2>1. workspace[i] = At(P, n[w]).smem[i]
    BY <1>1, <1>6 DEF Follows, SpeaksFor
  <2>2. \A u \in Warp : ~WritesAt(P, n[w], u, i)
    BY <1>4, BarrierIs, WritesUse
  <2>3. n[w] \in Nat
    BY <1>3
  <2> QED BY <1>3, <2>1, <2>2, <2>3, SmemStays
<1>13. Follows(P, at'[g], regs[g], workspace, n2)
  BY <1>3, <1>6, <1>10, <1>11, <1>12 DEF Follows
<1>14. CollectiveTypes'
  <2>1. [w \in Warp |-> [at[g][w] EXCEPT !.phase = @ + 1]] \in [Warp -> [instr : Nat, phase : Nat]]
    BY <1>8
  <2>2. at' \in [Groups -> [Warp -> [instr : Nat, phase : Nat]]]
    BY <1>2, <1>7, <2>1 DEF CollectiveTypes
  <2> QED BY <1>2, <2>2 DEF CollectiveTypes, SyncWarps
<1>15. UNCHANGED <<program, regs, workspace>> /\ \A h \in Groups : h = g
  BY DEF SyncWarps, OneGroup
<1> QED BY <1>13, <1>14, <1>15 DEF InStepInvariant

LEMMA InStepInit ==
  ASSUME CollectiveInit
  PROVE  InStepInvariant
<1>1. /\ program \in [Groups -> Programs]
      /\ at = [g \in Groups |-> [w \in Warp |-> [instr |-> 1, phase |-> 1]]]
      /\ regs = [g \in Groups |-> Fresh(1, program[g][1])]
      /\ workspace = [i \in WorkspaceIndex |-> <<>>]
  BY DEF CollectiveInit
<1>2. CollectiveTypes
  <2>1. [w \in Warp |-> [instr |-> 1, phase |-> 1]] \in [Warp -> [instr : Nat, phase : Nat]]
    OBVIOUS
  <2>2. at \in [Groups -> [Warp -> [instr : Nat, phase : Nat]]]
    BY <1>1, <2>1
  <2>3. \A g \in Groups : regs[g] = [t \in GroupThreads |-> regs[g][t]]
    BY <1>1 DEF Fresh
  <2>4. regs = [g \in Groups |-> [t \in GroupThreads |-> regs[g][t]]]
    BY <1>1, <2>3
  <2> QED BY <1>1, <2>2, <2>4 DEF CollectiveTypes
<1>3. ASSUME NEW g \in Groups
      PROVE  Follows(program[g], at[g], regs[g], workspace, [w \in Warp |-> 0])
  <2> DEFINE P == program[g]
             n == [w \in Warp |-> 0]
  <2>1. n \in [Warp -> Nat] /\ Between(n) = {} /\ \A w \in Warp : n[w] = 0
    BY DEF Between
  <2>2. At(P, 0) = StepStart(P)
    BY InStepRuns DEF At
  <2>3. /\ At(P, 0).instr = 1 /\ At(P, 0).phase = 1
        /\ At(P, 0).regs = Fresh(1, P[1]) /\ At(P, 0).smem = [i \in WorkspaceIndex |-> <<>>]
    BY <2>2 DEF StepStart
  <2>4. \A w \in Warp : at[g][w] = [instr |-> 1, phase |-> 1]
    BY <1>1
  <2>5. regs[g] = Fresh(1, P[1])
    BY <1>1
  <2> HIDE DEF n
  <2>6. Follows(P, at[g], regs[g], workspace, n)
    BY <1>1, <2>1, <2>3, <2>4, <2>5 DEF Follows
  <2> QED BY <2>6 DEF n
<1> QED BY <1>2, <1>3 DEF InStepInvariant

\* Where one thread group uses the workspace (OneGroup), whatever the speeds of
\* its warps, each warp has at every phase the registers it has there when all run
\* in step: the barriers and the places of the workspace leave no race
\* (efficient_reduce, _sweep_round).
THEOREM WarpsAsInStep ==
  ASSUME OneGroup
  PROVE  CollectiveSpec => []InStepInvariant
<1>1. CollectiveInit => InStepInvariant
  BY InStepInit
<1>2. InStepInvariant /\ [CollectiveNext]_collectiveVars => InStepInvariant'
  <2> SUFFICES ASSUME InStepInvariant, [CollectiveNext]_collectiveVars PROVE InStepInvariant'
    OBVIOUS
  <2>1. ASSUME NEW g \in Groups, SyncWarps(g) PROVE InStepInvariant'
    BY <2>1, SyncKeeps
  <2>2. ASSUME NEW g \in Groups, NEW w \in Warp, Compute(g, w) PROVE InStepInvariant'
    BY <2>2, RegistersKeep DEF Compute, UsesWorkspace
  <2>3. ASSUME NEW g \in Groups, NEW w \in Warp, Accumulate(g, w) PROVE InStepInvariant'
    BY <2>3, WorkspaceKeep DEF Accumulate
  <2>4. ASSUME NEW g \in Groups, NEW w \in Warp, Collect(g, w) PROVE InStepInvariant'
    BY <2>4, RegistersKeep, BarrierIs DEF Collect
  <2>5. ASSUME NEW g \in Groups, NEW w \in Warp, Publish(g, w) PROVE InStepInvariant'
    BY <2>5, WorkspaceKeep DEF Publish
  <2>6. ASSUME NEW g \in Groups, NEW w \in Warp, Exchange(g, w) PROVE InStepInvariant'
    BY <2>6, RegistersKeep, BarrierIs DEF Exchange, Crosses
  <2>7. ASSUME NEW g \in Groups, NEW w \in Warp, NextInstr(g, w) PROVE InStepInvariant'
    BY <2>7, NextInstrKeeps
  <2>8. CASE UNCHANGED collectiveVars
    BY <2>8 DEF collectiveVars, InStepInvariant, CollectiveTypes
  <2> QED BY <2>1, <2>2, <2>3, <2>4, <2>5, <2>6, <2>7, <2>8 DEF CollectiveNext
<1> QED BY <1>1, <1>2, PTL DEF CollectiveSpec

\* So with one thread group a program that is right when its warps run in step
\* (RightInStep, a fact about the sequential program) is right: each result combines
\* every element once, whatever the other warps do (emit).
THEOREM CollectivesAreRight ==
  ASSUME OneGroup, \A m \in Nat : RightInStep(m)
  PROVE  CollectiveSpec => []ResultsRight
<1>1. InStepInvariant => ResultsRight
  <2> SUFFICES ASSUME InStepInvariant, NEW g \in Groups, NEW w \in Warp, Done(g, w),
                      NEW t \in Threads(w), NEW l \in 0 .. LocalSize(Instr(g, w)) - 1
               PROVE  Holds(at[g][w].instr, Instr(g, w), t, l, regs[g][t])
    BY DEF ResultsRight
  <2>1. PICK n : Follows(program[g], at[g], regs[g], workspace, n)
    BY DEF InStepInvariant
  <2> DEFINE P == program[g]
             s == At(P, n[w])
  <2>2. /\ P \in Programs /\ n[w] \in Nat /\ at[g][w].instr = s.instr
        /\ Instr(g, w) = InstrAt(P, n[w]) /\ EndedAt(P, n[w])
    BY <2>1, Corresponds DEF InStepInvariant
  <2>3. regs[g][t] = s.regs[t] /\ t \in GroupThreads
    BY <2>1 DEF Follows, Threads
  <2>4. RightInStep(n[w]) /\ n[w] \in 0 .. n[w]
    BY <2>2
  <2>5. Holds(s.instr, P[s.instr], t, l, s.regs[t])
    BY <2>2, <2>3, <2>4 DEF RightInStep, StepRight, EndedAt, At, InstrAt
  <2> QED BY <2>2, <2>3, <2>5 DEF InstrAt
<1> QED BY <1>1, WarpsAsInStep, PTL
-----------------------------------------------------------------------------
(* Thread groups. *)

\* The groups that run where they should: those of whole warps begin at a multiple
\* of their size, elections are of one thread or of part of a warp, and in a group
\* that begins a warp.
Regular == Straddles = FALSE /\ ElectsWarps = FALSE /\ ElectsOffWarp = FALSE

Numbered(b, n) == [t \in b .. b + n - 1 |-> t - b]

RangeLevel(b, n, e) == [begin |-> b, num |-> n, tid |-> Numbered(b, n), elected |-> e]

LaneLevel(t, b) == [begin |-> b, num |-> 1, tid |-> [x \in {t} |-> 0], elected |-> TRUE]

IsRange(l, b, n, e) ==
    /\ b \in Nat /\ n \in Nat \ {0} /\ b + n <= NumThreads /\ e \in BOOLEAN
    /\ l = RangeLevel(b, n, e)

IsLane(l, t, b) == t \in BlockThreads /\ b \in Nat /\ b < NumThreads /\ l = LaneLevel(t, b)

IsLevel(l) == (\E b, n, e : IsRange(l, b, n, e)) \/ (\E t, b : IsLane(l, t, b))

Levels ==
    {l \in {RangeLevel(b, n, e) : b \in Nat, n \in Nat, e \in BOOLEAN}
             \cup {LaneLevel(t, b) : t \in BlockThreads, b \in Nat} : IsLevel(l)}

LEMMA LevelsAre ==
  ASSUME NEW l
  PROVE  l \in Levels <=> IsLevel(l)
  BY DEF Levels, IsLevel, IsRange, IsLane
-----------------------------------------------------------------------------
(* Warps and multiples. *)

LEMMA Sizes ==
  /\ WarpSize \in Nat \ {0, 1} /\ NumThreads \in Nat \ {0} /\ NumThreads >= WarpSize
  /\ MaxNamed \in Nat
<1>1. WarpSize \in Nat \ {0, 1} /\ NumThreads \in Nat \ {0} /\ MaxNamed \in Nat
  BY WarpAssumption DEF PowersOfTwo
<1>2. NumThreads % WarpSize = 0
  BY WarpAssumption
<1>3. ASSUME NumThreads < WarpSize PROVE FALSE
  <2>1. NumThreads % WarpSize = NumThreads
    BY <1>1, <1>3
  <2> QED BY <2>1, <1>1, <1>2
<1> QED BY <1>1, <1>3

LEMMA Powers ==
  ASSUME NEW p \in PowersOfTwo, NEW q \in PowersOfTwo, p <= q
  PROVE  q % p = 0
  BY DEF PowersOfTwo

LEMMA GroupDivision ==
  ASSUME NEW a \in Nat, NEW n \in Nat \ {0}
  PROVE  /\ a \div n \in Nat /\ a % n \in 0..(n - 1)
         /\ a = (a % n) + (a \div n) * n
  OBVIOUS

LEMMA MonotoneBy ==
  ASSUME NEW n \in Nat \ {0}, NEW p \in Nat, NEW q \in Nat
  PROVE  (p < q => p * n + n <= q * n) /\ (p <= q => p * n <= q * n)
<1>1. ASSUME NEW d \in Nat PROVE (p + d) * n = p * n + d * n /\ d * n \in Nat
  OBVIOUS
<1>2. ASSUME p < q PROVE p * n + n <= q * n
  <2>1. PICK d \in Nat : q = (p + 1) + d
    <3>1. q - (p + 1) \in Nat /\ q = (p + 1) + (q - (p + 1))
      BY <1>2
    <3> QED BY <3>1
  <2>2. q * n = p * n + n + d * n /\ d * n \in Nat /\ p * n \in Nat
    BY <2>1
  <2> QED BY <2>2
<1>3. ASSUME p <= q PROVE p * n <= q * n
  <2>1. PICK d \in Nat : q = p + d
    <3>1. q - p \in Nat /\ q = p + (q - p)
      BY <1>3
    <3> QED BY <3>1
  <2>2. q * n = p * n + d * n /\ d * n \in Nat /\ p * n \in Nat
    BY <2>1
  <2> QED BY <2>2
<1> QED BY <1>2, <1>3

\* The numbers with one quotient are the n from its multiple on.
LEMMA QuotientIs ==
  ASSUME NEW x \in Nat, NEW n \in Nat \ {0}, NEW c \in Nat
  PROVE  /\ x \div n = c <=> c * n <= x /\ x < c * n + n
         /\ x \div n = c => x % n = x - c * n
<1>1. PICK q \in Nat, r \in 0..(n - 1) : q = x \div n /\ r = x % n /\ x = r + q * n
  BY GroupDivision
<1>2. c * n \in Nat /\ q * n \in Nat
  OBVIOUS
<1>3. q = c => c * n <= x /\ x < c * n + n /\ r = x - c * n
  BY <1>1, <1>2
<1>4. ASSUME c * n <= x, x < c * n + n PROVE q = c
  <2>1. ~(q < c)
    <3>1. SUFFICES ASSUME q < c PROVE FALSE
      OBVIOUS
    <3>2. q * n + n <= c * n
      BY <3>1, MonotoneBy
    <3> QED BY <3>2, <1>1, <1>2, <1>4
  <2>2. ~(c < q)
    <3>1. SUFFICES ASSUME c < q PROVE FALSE
      OBVIOUS
    <3>2. c * n + n <= q * n
      BY <3>1, MonotoneBy
    <3> QED BY <3>2, <1>1, <1>2, <1>4
  <2> QED BY <2>1, <2>2
<1> QED BY <1>1, <1>3, <1>4

LEMMA Interval ==
  ASSUME NEW x \in Nat, NEW n \in Nat \ {0}, NEW c \in Nat, c * n <= x, x < c * n + n
  PROVE  x \div n = c /\ x % n = x - c * n
<1>1. x \div n = c
  BY QuotientIs
<1>2. x % n = x - c * n
  BY <1>1, QuotientIs
<1> QED BY <1>1, <1>2

LEMMA Divides ==
  ASSUME NEW x \in Nat, NEW n \in Nat \ {0}, NEW c \in Nat, x = c * n
  PROVE  x \div n = c /\ x % n = 0
<1>1. x \div n = c /\ x % n = x - c * n
  BY Interval
<1> QED BY <1>1

LEMMA Multiple ==
  ASSUME NEW x \in Nat, NEW n \in Nat \ {0}, x % n = 0
  PROVE  x \div n \in Nat /\ \E c \in Nat : c = x \div n /\ x = c * n
<1>1. x \div n \in Nat /\ x = (x % n) + (x \div n) * n /\ (x \div n) * n \in Nat
  BY GroupDivision
<1> QED BY <1>1

\* A multiple of the warp size is above a thread when it is above its warp.
LEMMA WarpBelow ==
  ASSUME NEW t \in Nat, NEW m \in Nat, m % WarpSize = 0
  PROVE  Lane0(t) \in Nat /\ Lane0(t) <= t /\ (m <= Lane0(t) <=> m <= t)
<1>1. WarpSize \in Nat \ {0}
  BY Sizes
<1>2. PICK q \in Nat, k \in Nat : q = t \div WarpSize /\ m = k * WarpSize
  BY <1>1, GroupDivision, Multiple
<1>3. q * WarpSize \in Nat /\ q * WarpSize <= t /\ t < q * WarpSize + WarpSize
  BY <1>1, <1>2, QuotientIs
<1>4. Lane0(t) = q * WarpSize
  BY <1>2 DEF Lane0, BlockWarpOf
<1>5. ASSUME m <= t PROVE m <= q * WarpSize
  <2>1. ~(q < k)
    <3>1. SUFFICES ASSUME q < k PROVE FALSE
      OBVIOUS
    <3>2. q * WarpSize + WarpSize <= k * WarpSize
      BY <3>1, <1>1, MonotoneBy
    <3> QED BY <3>2, <1>1, <1>2, <1>3, <1>5
  <2>2. k <= q
    BY <2>1
  <2> QED BY <2>2, <1>1, <1>2, MonotoneBy
<1> QED BY <1>1, <1>2, <1>3, <1>4, <1>5

LEMMA SumOfMultiples ==
  ASSUME NEW a \in Nat, NEW b \in Nat, NEW n \in Nat \ {0}, a % n = 0, b % n = 0
  PROVE  (a + b) % n = 0
<1>1. PICK p \in Nat, q \in Nat : a = p * n /\ b = q * n
  BY Multiple
<1>2. PICK s \in Nat, c \in Nat : s = a + b /\ c = p + q
  BY <1>1
<1>3. s = c * n
  BY <1>1, <1>2
<1>4. s \div n = c
  BY <1>3, QuotientIs
<1>5. s % n = s - c * n
  BY <1>4, QuotientIs
<1>6. s % n = 0
  BY <1>3, <1>5
<1> QED BY <1>2, <1>6
-----------------------------------------------------------------------------
(* Whole warps. *)

LEMMA NoSplit ==
  ASSUME NEW l, NEW b, NEW n, NEW e, IsRange(l, b, n, e), b % WarpSize = 0, n % WarpSize = 0
  PROVE  ~SplitsWarp(l)
<1>1. WarpSize \in Nat \ {0} /\ b \in Nat /\ n \in Nat
  BY Sizes DEF IsRange
<1>2. PICK p \in Nat, q \in Nat : b = p * WarpSize /\ b + n = q * WarpSize
  <2>1. (b + n) % WarpSize = 0 /\ b + n \in Nat
    <3>1. (b + n) % WarpSize = 0
      BY <1>1, SumOfMultiples, Zenon
    <3> QED BY <3>1, <1>1
  <2>2. \E q \in Nat : b + n = q * WarpSize
    BY <1>1, <2>1, Multiple, Zenon
  <2>3. \E p \in Nat : b = p * WarpSize
    BY <1>1, Multiple, Zenon
  <2> QED BY <2>2, <2>3, Zenon
<1>3. \A t : t \in Executing(l) <=> t \in Nat /\ b <= t /\ t < b + n
  BY <1>1 DEF IsRange, RangeLevel, Numbered, Executing
<1>4. ASSUME NEW w \in BlockWarps
      PROVE  WarpLanes(w) \cap Executing(l) \in {{}, WarpLanes(w)}
  <2>1. w \in Nat
    BY <1>1, Sizes DEF BlockWarps
  <2>2. PICK low \in Nat, high \in Nat :
          low = w * WarpSize /\ high = low + WarpSize /\ high = (w + 1) * WarpSize
    BY <1>1, <2>1
  <2>3. \A t : t \in WarpLanes(w) <=> t \in Nat /\ low <= t /\ t < high
    BY <2>2 DEF WarpLanes
  <2>4. CASE w < p
    <3>1. high <= b
      BY <2>1, <2>2, <2>4, <1>1, <1>2, MonotoneBy
    <3>2. WarpLanes(w) \cap Executing(l) = {}
      BY <3>1, <2>3, <1>1, <1>3
    <3> QED BY <3>2
  <2>5. CASE q <= w
    <3>1. b + n <= low
      BY <2>1, <2>2, <2>5, <1>1, <1>2, MonotoneBy
    <3>2. WarpLanes(w) \cap Executing(l) = {}
      BY <3>1, <2>3, <1>1, <1>3
    <3> QED BY <3>2
  <2>6. CASE p <= w /\ w < q
    <3>1. b <= low /\ high <= b + n
      BY <2>1, <2>2, <2>6, <1>1, <1>2, MonotoneBy
    <3>2. WarpLanes(w) \cap Executing(l) = WarpLanes(w)
      BY <3>1, <2>3, <1>1, <1>3
    <3> QED BY <3>2
  <2> QED BY <2>1, <2>4, <2>5, <2>6, <1>2
<1> QED BY <1>4 DEF SplitsWarp

\* The group index of a thread, read from lane 0 of its warp.
LEMMA FromLane0Is ==
  ASSUME NEW l, NEW b, NEW n, NEW e, IsRange(l, b, n, e), b % WarpSize = 0,
         NEW t \in b .. b + n - 1, NEW size \in Nat \ {0}, size % WarpSize = 0, NEW c \in Nat, NEW junk
  PROVE  FromLane0(l, size, t, junk) = c <=> b + c * size <= t /\ t < b + c * size + size
<1>1. WarpSize \in Nat \ {0} /\ b \in Nat /\ n \in Nat \ {0} /\ t \in Nat /\ b <= t
  BY Sizes DEF IsRange
<1>2. Lane0(t) \in Nat /\ Lane0(t) <= t /\ b <= Lane0(t)
  BY <1>1, WarpBelow
<1>3. Lane0(t) \in Executing(l) /\ l.tid[Lane0(t)] = Lane0(t) - b
  BY <1>1, <1>2 DEF IsRange, RangeLevel, Numbered, Executing
<1>4. PICK x \in Nat, m \in Nat : x = Lane0(t) - b /\ m = c * size
  BY <1>2, <1>1
<1>5. FromLane0(l, size, t, junk) = x \div size
  BY <1>3, <1>4 DEF FromLane0
<1>6. x \div size = c <=> m <= x /\ x < m + size
  BY <1>4, QuotientIs
<1>7. (b + m) % WarpSize = 0 /\ (b + m + size) % WarpSize = 0
  <2>1. m % WarpSize = 0
    <3>1. PICK k \in Nat : size = k * WarpSize
      BY <1>1, Multiple
    <3>2. PICK d \in Nat : d = c * k
      BY <3>1
    <3>3. m = d * WarpSize
      BY <3>1, <3>2, <1>1, <1>4
    <3> QED BY <3>2, <3>3, <1>1, <1>4, Divides
  <2>2. (b + m) % WarpSize = 0
    BY <2>1, <1>1, SumOfMultiples
  <2>3. b + m \in Nat
    BY <1>1
  <2> QED BY <2>2, <2>3, <1>1, SumOfMultiples
<1>8. /\ b + m <= Lane0(t) <=> b + m <= t
      /\ b + m + size <= Lane0(t) <=> b + m + size <= t
  <2>1. b + m \in Nat /\ b + m + size \in Nat
    BY <1>1
  <2> QED BY <2>1, <1>1, <1>7, WarpBelow
<1>9. m <= x /\ x < m + size <=> b + m <= t /\ t < b + m + size
  BY <1>1, <1>2, <1>4, <1>8
<1> QED BY <1>4, <1>5, <1>6, <1>9
-----------------------------------------------------------------------------
(* The threads a condition selects. *)

\* The levels that visit_ThreadGroupStmt makes of level l.
WarpPart(l, b, n, junk) ==
    Narrow(l, LAMBDA t : FromLane0(l, n, t, junk) = b \div n, LAMBDA t : l.tid[t] % n)
MultiplePart(l, b, n) ==
    Narrow(l, LAMBDA t : l.tid[t] \div n = b \div n, LAMBDA t : l.tid[t] % n)
TestedPart(l, b, n) ==
    Narrow(l, LAMBDA t : l.tid[t] \in b .. b + n - 1, LAMBDA t : l.tid[t] - b)
FirstPart(l) == Narrow(l, LAMBDA t : l.tid[t] = 0, LAMBDA t : 0)
FewPart(l, n) == Narrow(l, LAMBDA t : l.tid[t] < n, LAMBDA t : l.tid[t] % n)
LanePart(l, f, junk) ==
    Narrow(l, LAMBDA t : /\ l.num = WarpSize \/ FromLane0(l, WarpSize, t, junk) = 0
                         /\ f[BlockWarpOf(t)] = t,
              LAMBDA t : 0)

LEMMA WarpRange ==
  ASSUME NEW l, NEW B, NEW N, NEW e, IsRange(l, B, N, e),
         NEW b \in Nat, NEW n \in Nat \ {0}, b + n <= N,
         IsWarpAligned(l, b, n), b % n = 0, NEW junk
  PROVE  /\ WarpPart(l, b, n, junk)
              = Numbered(B + b, n)
         /\ ~SplitsWarp(l)
<1>1. /\ B \in Nat /\ N \in Nat \ {0} /\ l.begin = B /\ l.num = N
      /\ Executing(l) = B .. B + N - 1
      /\ \A t \in B .. B + N - 1 : l.tid[t] = t - B
  BY DEF IsRange, RangeLevel, Numbered, Executing
<1>2. /\ n >= WarpSize /\ n % WarpSize = 0 /\ b % WarpSize = 0 /\ B % WarpSize = 0
      /\ n \in PowersOfTwo /\ N \in PowersOfTwo
  BY <1>1 DEF IsWarpAligned
<1>3. PICK c \in Nat : c = b \div n /\ b = c * n
  BY Multiple
<1>4. ~SplitsWarp(l)
  <2>1. N % n = 0
    BY <1>1, <1>2, Powers
  <2>3. WarpSize \in Nat \ {0} /\ N \in Nat /\ n \in Nat
    BY Sizes, <1>1
  <2>2. PICK k \in Nat, m \in Nat : N = k * n /\ n = m * WarpSize
    <3>1. \E k \in Nat : N = k * n
      BY <2>1, <2>3, Multiple, Zenon
    <3>2. \E m \in Nat : n = m * WarpSize
      BY <1>2, <2>3, Multiple, Zenon
    <3> QED BY <3>1, <3>2, Zenon
  <2>4. PICK d \in Nat : d = k * m
    BY <2>2
  <2>5. N = d * WarpSize
    BY <2>2, <2>3, <2>4
  <2>8. N % WarpSize = 0
    BY <2>3, <2>4, <2>5, Divides
  <2> QED BY <2>8, <1>2, NoSplit
<1>5. ASSUME NEW t \in B .. B + N - 1
      PROVE  FromLane0(l, n, t, junk) = b \div n <=> B + b <= t /\ t < B + b + n
  <2>1. FromLane0(l, n, t, junk) = c <=> B + c * n <= t /\ t < B + c * n + n
    BY <1>2, FromLane0Is
  <2> QED BY <2>1, <1>3
<1>6. ASSUME NEW t \in B + b .. B + b + n - 1
      PROVE  t \in B .. B + N - 1 /\ l.tid[t] % n = t - (B + b)
  <2>1. t \in B .. B + N - 1 /\ t - B \in Nat /\ b <= t - B /\ t - B < b + n
    BY <1>1
  <2>2. PICK x \in Nat : x = t - B /\ c * n <= x /\ x < c * n + n
    BY <2>1, <1>3
  <2>4. x % n = x - c * n
    BY <2>2, Interval
  <2>5. x - b = t - (B + b)
    BY <2>2, <1>1
  <2> QED BY <2>1, <2>2, <2>4, <2>5, <1>1, <1>3
<1>7. {x \in Executing(l) : FromLane0(l, n, x, junk) = b \div n} = B + b .. B + b + n - 1
  BY <1>1, <1>5, <1>6, SMTT(30)
<1>8. WarpPart(l, b, n, junk)
        = [t \in {x \in Executing(l) : FromLane0(l, n, x, junk) = b \div n} |-> l.tid[t] % n]
  BY DEF Narrow, WarpPart, MultiplePart, TestedPart, FirstPart, FewPart, LanePart
<1> QED BY <1>4, <1>6, <1>7, <1>8 DEF Numbered

LEMMA MultipleRange ==
  ASSUME NEW l, NEW B, NEW N, NEW e, IsRange(l, B, N, e),
         NEW b \in Nat, NEW n \in Nat \ {0}, b + n <= N, b % n = 0
  PROVE  MultiplePart(l, b, n)
           = Numbered(B + b, n)
<1>1. /\ B \in Nat /\ N \in Nat \ {0} /\ Executing(l) = B .. B + N - 1
      /\ \A t \in B .. B + N - 1 : l.tid[t] = t - B
  BY DEF IsRange, RangeLevel, Numbered, Executing
<1>2. PICK c \in Nat : c = b \div n /\ b = c * n
  BY Multiple
<1>3. ASSUME NEW t \in B .. B + N - 1
      PROVE  /\ l.tid[t] \div n = b \div n <=> B + b <= t /\ t < B + b + n
             /\ l.tid[t] \div n = b \div n => l.tid[t] % n = t - (B + b)
  <2>1. PICK x \in Nat : x = t - B /\ x = l.tid[t]
    BY <1>1
  <2>2. /\ x \div n = c <=> c * n <= x /\ x < c * n + n
        /\ x \div n = c => x % n = x - c * n
    BY QuotientIs
  <2>3. /\ b <= x <=> B + b <= t
        /\ x < b + n <=> t < B + b + n
        /\ x - b = t - (B + b)
    BY <2>1, <1>1
  <2> QED BY <2>1, <2>2, <2>3, <1>2
<1>4. {x \in Executing(l) : l.tid[x] \div n = b \div n} = B + b .. B + b + n - 1
  <2>1. \A t : t \in B + b .. B + b + n - 1 <=> t \in B .. B + N - 1 /\ B + b <= t /\ t < B + b + n
    BY <1>1
  <2>2. \A t \in B .. B + N - 1 : l.tid[t] \div n = b \div n <=> t \in B + b .. B + b + n - 1
    BY <1>3, <2>1
  <2> QED BY <2>1, <2>2, <1>1, Zenon
<1>5. \A t \in B + b .. B + b + n - 1 : l.tid[t] % n = t - (B + b)
  <2> SUFFICES ASSUME NEW t \in B + b .. B + b + n - 1
               PROVE  l.tid[t] % n = t - (B + b)
    OBVIOUS
  <2>1. t \in B .. B + N - 1 /\ B + b <= t /\ t < B + b + n
    BY <1>1
  <2> QED BY <2>1, <1>3, Zenon
<1>6. MultiplePart(l, b, n)
        = [t \in {x \in Executing(l) : l.tid[x] \div n = b \div n} |-> l.tid[t] % n]
  BY DEF Narrow, WarpPart, MultiplePart, TestedPart, FirstPart, FewPart, LanePart
<1> QED BY <1>4, <1>5, <1>6 DEF Numbered

LEMMA TestedRange ==
  ASSUME NEW l, NEW B, NEW N, NEW e, IsRange(l, B, N, e),
         NEW b \in Nat, NEW n \in Nat \ {0}, b + n <= N
  PROVE  TestedPart(l, b, n)
           = Numbered(B + b, n)
<1>1. /\ B \in Nat /\ N \in Nat \ {0} /\ Executing(l) = B .. B + N - 1
      /\ \A t \in B .. B + N - 1 : l.tid[t] = t - B
  BY DEF IsRange, RangeLevel, Numbered, Executing
<1>2. ASSUME NEW t \in B .. B + N - 1
      PROVE  /\ l.tid[t] \in b .. b + n - 1 <=> B + b <= t /\ t < B + b + n
             /\ l.tid[t] - b = t - (B + b)
  BY <1>1, SMTT(30)
<1>3. {x \in Executing(l) : l.tid[x] \in b .. b + n - 1} = B + b .. B + b + n - 1
  BY <1>1, <1>2, SMTT(30)
<1>4. \A t \in B + b .. B + b + n - 1 : l.tid[t] - b = t - (B + b)
  BY <1>1, <1>2
<1>5. TestedPart(l, b, n)
        = [t \in {x \in Executing(l) : l.tid[x] \in b .. b + n - 1} |-> l.tid[t] - b]
  BY DEF Narrow, WarpPart, MultiplePart, TestedPart, FirstPart, FewPart, LanePart
<1> QED BY <1>3, <1>4, <1>5 DEF Numbered

\* The threads of one warp of the level, one elected in each warp.
ElectsOne(tid) == \E lane \in BlockThreads : tid = [t \in {lane} |-> 0]

LEMMA ElectedLane ==
  ASSUME NEW l, NEW B, NEW N, NEW e, IsRange(l, B, N, e), B % WarpSize = 0, N % WarpSize = 0,
         NEW f \in Elections(l), NEW junk
  PROVE  ElectsOne(LanePart(l, f, junk))
<1>1. /\ B \in Nat /\ N \in Nat \ {0} /\ B + N <= NumThreads /\ l.num = N
      /\ Executing(l) = B .. B + N - 1
      /\ WarpSize \in Nat \ {0} /\ NumThreads \in Nat
  BY Sizes DEF IsRange, RangeLevel, Numbered, Executing
<1>2. PICK w \in Nat : w = BlockWarpOf(B) /\ B = w * WarpSize
  <2>1. \E c \in Nat : c = B \div WarpSize /\ B = c * WarpSize
    BY <1>1, Multiple, Zenon
  <2> QED BY <2>1 DEF BlockWarpOf
<1>3. N >= WarpSize
  <2>1. PICK c \in Nat : N = c * WarpSize
    <3>1. N \in Nat
      BY <1>1
    <3> QED BY <3>1, <1>1, Multiple, Zenon
  <2>2. ~(c < 1)
    <3>1. c = 0 => c * WarpSize = 0
      BY <1>1
    <3> QED BY <3>1, <2>1, <1>1
  <2>3. 1 <= c => 1 * WarpSize <= c * WarpSize
    BY <1>1, MonotoneBy
  <2> QED BY <2>1, <2>2, <2>3, <1>1
<1>4. ASSUME NEW t \in B .. B + N - 1
      PROVE  BlockWarpOf(t) = w <=> t < B + WarpSize
  <2>1. t \in Nat /\ B <= t
    BY <1>1
  <2>2. t \div WarpSize = w <=> w * WarpSize <= t /\ t < w * WarpSize + WarpSize
    BY <2>1, <1>1, QuotientIs
  <2> QED BY <2>1, <2>2, <1>2 DEF BlockWarpOf
<1>5. ASSUME NEW t \in B .. B + N - 1
      PROVE  N = WarpSize \/ FromLane0(l, WarpSize, t, junk) = 0 <=> t < B + WarpSize
  <2>1. N = WarpSize => t < B + WarpSize
    BY <1>1
  <2>2. WarpSize % WarpSize = 0
    BY <1>1
  <2>3. FromLane0(l, WarpSize, t, junk) = 0 <=> B + 0 * WarpSize <= t /\ t < B + 0 * WarpSize + WarpSize
    BY <2>2, <1>1, FromLane0Is
  <2>4. 0 * WarpSize = 0 /\ B + 0 = B /\ B <= t
    BY <1>1
  <2> QED BY <2>1, <2>3, <2>4
<1>6. w \in {BlockWarpOf(t) : t \in Executing(l)}
  BY <1>1, <1>2, SMTT(30)
<1>7. PICK lane : lane = f[w] /\ lane \in Executing(l) /\ lane \in WarpLanes(w)
  BY <1>6 DEF Elections
<1>8. lane \in B .. B + N - 1 /\ lane < B + WarpSize /\ lane \in BlockThreads
  <2>1. lane \in B .. B + N - 1
    BY <1>1, <1>7
  <2>2. PICK low \in Nat, high \in Nat : low = w * WarpSize /\ high = (w + 1) * WarpSize /\ high = low + WarpSize
    BY <1>1
  <2>3. lane \in low .. high - 1
    BY <2>2, <1>7 DEF WarpLanes
  <2>4. lane \in Nat /\ B <= lane /\ lane < B + N /\ lane < high
    BY <2>1, <2>2, <2>3, <1>1
  <2>5. B = low
    BY <2>2, <1>2
  <2>6. lane < B + WarpSize /\ lane < NumThreads
    BY <2>2, <2>4, <2>5, <1>1
  <2> QED BY <2>1, <2>4, <2>6, <1>1 DEF BlockThreads
<1> DEFINE S == {t \in Executing(l) : /\ \/ l.num = WarpSize
                                         \/ FromLane0(l, WarpSize, t, junk) = 0
                                      /\ f[BlockWarpOf(t)] = t}
<1>9. \A t \in B .. B + N - 1 :
        ((N = WarpSize \/ FromLane0(l, WarpSize, t, junk) = 0) /\ f[BlockWarpOf(t)] = t) <=> t = lane
  BY <1>4, <1>5, <1>7, <1>8
<1>10. S = {lane}
  BY <1>1, <1>8, <1>9
<1>11. LanePart(l, f, junk) = [t \in S |-> 0]
  BY DEF Narrow, WarpPart, MultiplePart, TestedPart, FirstPart, FewPart, LanePart
<1> QED BY <1>8, <1>10, <1>11 DEF ElectsOne

LEMMA FirstThread ==
  ASSUME NEW l, NEW B, NEW N, NEW e, IsRange(l, B, N, e)
  PROVE  FirstPart(l) = Numbered(B, 1)
<1>1. /\ B \in Nat /\ N \in Nat \ {0} /\ Executing(l) = B .. B + N - 1
      /\ \A t \in B .. B + N - 1 : l.tid[t] = t - B
  BY DEF IsRange, RangeLevel, Numbered, Executing
<1>2. {x \in Executing(l) : l.tid[x] = 0} = B .. B + 1 - 1
  <2>1. \A t \in B .. B + N - 1 : t - B = 0 <=> t = B
    BY <1>1
  <2>2. B \in B .. B + N - 1 /\ B .. B + 1 - 1 = {B}
    BY <1>1
  <2>3. \A t \in B .. B + N - 1 : l.tid[t] = 0 <=> t = B
    BY <1>1, <2>1
  <2> QED BY <1>1, <2>2, <2>3, Zenon
<1>3. FirstPart(l) = [t \in {x \in Executing(l) : l.tid[x] = 0} |-> 0]
  BY DEF Narrow, WarpPart, MultiplePart, TestedPart, FirstPart, FewPart, LanePart
<1>4. \A t \in B .. B + 1 - 1 : t - B = 0
  BY <1>1
<1> QED BY <1>2, <1>3, <1>4 DEF Numbered

LEMMA FirstThreads ==
  ASSUME NEW l, NEW B, NEW N, NEW e, IsRange(l, B, N, e), NEW n \in Nat \ {0}, n <= N
  PROVE  FewPart(l, n) = Numbered(B, n)
<1>1. /\ B \in Nat /\ N \in Nat \ {0} /\ Executing(l) = B .. B + N - 1
      /\ \A t \in B .. B + N - 1 : l.tid[t] = t - B
  BY DEF IsRange, RangeLevel, Numbered, Executing
<1>2. {x \in Executing(l) : l.tid[x] < n} = B .. B + n - 1
  BY <1>1
<1>3. FewPart(l, n)
        = [t \in {x \in Executing(l) : l.tid[x] < n} |-> l.tid[t] % n]
  BY DEF Narrow, WarpPart, MultiplePart, TestedPart, FirstPart, FewPart, LanePart
<1>4. ASSUME NEW t \in B .. B + n - 1 PROVE l.tid[t] % n = t - B
  <2>1. PICK x \in Nat : x = t - B /\ x = l.tid[t] /\ x < n
    BY <1>1
  <2>2. x % n = x
    BY <2>1
  <2> QED BY <2>1, <2>2
<1> QED BY <1>2, <1>3, <1>4 DEF Numbered
-----------------------------------------------------------------------------
(* The stack of levels. *)

StackOK == stack \in Seq(Levels) /\ stack # <<>>

LEMMA TopIs ==
  ASSUME StackOK
  PROVE  IsLevel(Top) /\ Top = stack[Len(stack)] /\ Len(stack) \in Nat \ {0}
<1>1. Len(stack) \in Nat \ {0} /\ Top = stack[Len(stack)]
  BY EmptySeq DEF StackOK, Top, Last
<1>2. stack[Len(stack)] \in Levels
  BY <1>1 DEF StackOK
<1> QED BY <1>1, <1>2, LevelsAre

LEMMA LevelAt ==
  ASSUME StackOK, NEW i \in DOMAIN stack
  PROVE  IsLevel(stack[i])
<1>1. stack[i] \in Levels
  BY DEF StackOK
<1> QED BY <1>1, LevelsAre

LEMMA PushKeeps ==
  ASSUME StackOK, NEW x, IsLevel(x), stack' = Append(stack, x)
  PROVE  StackOK'
<1>1. x \in Levels
  BY LevelsAre
<1>2. Append(stack, x) \in Seq(Levels) /\ Append(stack, x) # <<>>
  BY <1>1, AppendProperties DEF StackOK
<1>3. stack' \in Seq(Levels) /\ stack' # <<>>
  BY <1>2
<1> QED BY <1>3 DEF StackOK

LEMMA RangePush ==
  ASSUME StackOK, NEW B, NEW N, NEW e, IsRange(Top, B, N, e),
         NEW b \in Nat, NEW n \in Nat \ {0}, b + n <= N, NEW e2 \in BOOLEAN, NEW tid,
         PushLevel(b, n, tid, e2), tid = Numbered(B + b, n)
  PROVE  StackOK'
<1>1. B \in Nat /\ N \in Nat /\ B + N <= NumThreads /\ Top.begin = B /\ NumThreads \in Nat
  BY Sizes DEF IsRange, RangeLevel
<1>2. PICK c \in Nat : c = B + b /\ c + n <= NumThreads
  BY <1>1
<1>3. stack' = Append(stack, RangeLevel(c, n, e2))
  BY <1>1, <1>2 DEF PushLevel, RangeLevel
<1>4. IsLevel(RangeLevel(c, n, e2))
  BY <1>2 DEF IsLevel, IsRange
<1> QED BY <1>3, <1>4, PushKeeps

LEMMA LanePush ==
  ASSUME StackOK, NEW c \in Nat, c < NumThreads, Top.begin = c, NEW lane \in BlockThreads,
         NEW tid, PushLevel(0, 1, tid, TRUE), tid = [t \in {lane} |-> 0]
  PROVE  StackOK'
<1>1. c + 0 = c
  OBVIOUS
<1>2. stack' = Append(stack, LaneLevel(lane, c))
  BY <1>1 DEF PushLevel, LaneLevel
<1>3. IsLevel(LaneLevel(lane, c))
  BY DEF IsLevel, IsLane
<1> QED BY <1>2, <1>3, PushKeeps

LEMMA GroupInputs ==
  /\ \A n \in GroupSizes : n \in Nat \ {0} /\ n <= NumThreads
  /\ \A b \in GroupBegins : b \in Nat
  BY WarpAssumption, Sizes DEF BlockThreads

LEMMA EnterFixedKeeps ==
  ASSUME Regular, StackOK, NEW n \in GroupSizes, NEW b \in GroupBegins, EnterFixed(b, n)
  PROVE  StackOK' /\ (~partial => ~partial')
<1>1. n \in Nat \ {0} /\ b \in Nat /\ b + n <= Top.num
  BY GroupInputs DEF EnterFixed, FitsIn
<1>2. IsWarpAligned(Top, b, n) => b % n = 0
  BY DEF EnterFixed, Regular
<1>3. ASSUME NEW B, NEW N, NEW e, IsRange(Top, B, N, e)
      PROVE  StackOK' /\ (~partial => ~partial')
  <2>1. b + n <= N /\ Top.elected = e /\ e \in BOOLEAN
    BY <1>1, <1>3 DEF IsRange, RangeLevel
  <2>2. CASE IsWarpAligned(Top, b, n)
    <3>1. PICK junk \in {0, 1} :
            Push(b, n, WarpPart(Top, b, n, junk))
      BY <2>2 DEF EnterFixed, WarpPart, MultiplePart, TestedPart
    <3>2. /\ WarpPart(Top, b, n, junk)
               = Numbered(B + b, n)
          /\ ~SplitsWarp(Top)
      BY <2>1, <2>2, <1>1, <1>2, <1>3, WarpRange
    <3>3. StackOK'
      BY <3>1, <3>2, <2>1, <1>1, <1>3, RangePush DEF Push
    <3>4. partial' = (partial \/ SplitsWarp(Top))
      BY <2>2 DEF EnterFixed, WarpPart, MultiplePart, TestedPart
    <3> QED BY <3>2, <3>3, <3>4
  <2>3. CASE ~IsWarpAligned(Top, b, n) /\ SameMultiple(Top, b, n)
    <3>1. /\ Push(b, n, MultiplePart(Top, b, n))
          /\ partial' = partial
      BY <2>3 DEF EnterFixed, WarpPart, MultiplePart, TestedPart
    <3>2. b % n = 0
      BY <2>3 DEF SameMultiple
    <3>3. MultiplePart(Top, b, n)
            = Numbered(B + b, n)
      BY <3>2, <2>1, <1>1, <1>3, MultipleRange
    <3> QED BY <3>1, <3>3, <2>1, <1>1, <1>3, RangePush DEF Push
  <2>4. CASE ~IsWarpAligned(Top, b, n) /\ ~SameMultiple(Top, b, n)
    <3>1. /\ Push(b, n, TestedPart(Top, b, n))
          /\ partial' = partial
      BY <2>4 DEF EnterFixed, WarpPart, MultiplePart, TestedPart
    <3>2. TestedPart(Top, b, n)
            = Numbered(B + b, n)
      BY <2>1, <1>1, <1>3, TestedRange
    <3> QED BY <3>1, <3>2, <2>1, <1>1, <1>3, RangePush DEF Push
  <2> QED BY <2>2, <2>3, <2>4
<1>4. ASSUME NEW t0, NEW B, IsLane(Top, t0, B)
      PROVE  StackOK' /\ partial' = partial
  <2>1. /\ t0 \in BlockThreads /\ B \in Nat /\ B < NumThreads
        /\ Top.begin = B /\ Top.num = 1 /\ Top.elected = TRUE /\ Top.tid = [x \in {t0} |-> 0]
        /\ Executing(Top) = {t0}
    BY <1>4 DEF IsLane, LaneLevel, Executing
  <2>2. b = 0 /\ n = 1
    BY <1>1, <2>1
  <2>3. ~IsWarpAligned(Top, b, n)
    BY <2>2, Sizes DEF IsWarpAligned
  <2>4. CASE SameMultiple(Top, b, n)
    <3>1. /\ Push(b, n, MultiplePart(Top, b, n))
          /\ partial' = partial
      BY <2>3, <2>4 DEF EnterFixed, WarpPart, MultiplePart, TestedPart
    <3>2. MultiplePart(Top, b, n)
            = [t \in {x \in {t0} : Top.tid[x] \div n = b \div n} |-> Top.tid[t] % n]
      BY <2>1 DEF Narrow, MultiplePart, TestedPart
    <3>3. 0 \div 1 = 0 /\ 0 % 1 = 0
      OBVIOUS
    <3>4. MultiplePart(Top, b, n)
            = [t \in {t0} |-> 0]
      BY <3>2, <3>3, <2>1, <2>2
    <3> QED BY <3>1, <3>4, <2>1, <2>2, LanePush DEF Push
  <2>5. CASE ~SameMultiple(Top, b, n)
    <3>1. /\ Push(b, n, TestedPart(Top, b, n))
          /\ partial' = partial
      BY <2>3, <2>5 DEF EnterFixed, WarpPart, MultiplePart, TestedPart
    <3>2. TestedPart(Top, b, n)
            = [t \in {x \in {t0} : Top.tid[x] \in b .. b + n - 1} |-> Top.tid[t] - b]
      BY <2>1 DEF Narrow, MultiplePart, TestedPart
    <3>3. 0 \in 0 .. 0 + 1 - 1 /\ 0 - 0 = 0
      OBVIOUS
    <3>4. TestedPart(Top, b, n)
            = [t \in {t0} |-> 0]
      BY <3>2, <3>3, <2>1, <2>2
    <3> QED BY <3>1, <3>4, <2>1, <2>2, LanePush DEF Push
  <2> QED BY <2>4, <2>5
<1> QED BY <1>3, <1>4, TopIs DEF IsLevel

LEMMA EnterElectKeeps ==
  ASSUME Regular, StackOK, NEW n \in GroupSizes, EnterElect(n)
  PROVE  StackOK' /\ (~partial => ~partial')
<1>1. n \in Nat \ {0} /\ n <= Top.num
  BY GroupInputs DEF EnterElect
<1>2. CASE n = Top.num
  <2>1. Push(0, n, Top.tid) /\ partial' = partial
    BY <1>2 DEF EnterElect
  <2>2. ASSUME NEW B, NEW N, NEW e, IsRange(Top, B, N, e) PROVE StackOK'
    <3>1. /\ B \in Nat /\ N = n /\ 0 + n <= N /\ e \in BOOLEAN /\ Top.elected = e
          /\ Top.tid = Numbered(B, n) /\ B + 0 = B
      BY <2>2, <1>1, <1>2 DEF IsRange, RangeLevel
    <3> QED BY <3>1, <2>1, <2>2, <1>1, RangePush DEF Push
  <2>3. ASSUME NEW t0, NEW B, IsLane(Top, t0, B) PROVE StackOK'
    <3>1. /\ t0 \in BlockThreads /\ B \in Nat /\ B < NumThreads /\ n = 1
          /\ Top.begin = B /\ Top.elected = TRUE /\ Top.tid = [x \in {t0} |-> 0]
      BY <2>3, <1>2 DEF IsLane, LaneLevel
    <3> QED BY <3>1, <2>1, LanePush DEF Push
  <2> QED BY <2>1, <2>2, <2>3, TopIs DEF IsLevel
<1>3. CASE n # Top.num
  <2>1. PICK B, N, e : IsRange(Top, B, N, e)
    <3>1. ASSUME NEW t0, NEW B, IsLane(Top, t0, B) PROVE FALSE
      BY <3>1, <1>1, <1>3 DEF IsLane, LaneLevel
    <3> QED BY <3>1, TopIs DEF IsLevel
  <2>2. /\ B \in Nat /\ N \in Nat \ {0} /\ B + N <= NumThreads /\ NumThreads \in Nat
        /\ Top.begin = B /\ Top.num = N /\ n <= N /\ B + 0 = B /\ 0 + n <= N
    BY <2>1, <1>1, Sizes DEF IsRange, RangeLevel
  <2>3. CASE n = 1
    <3>1. ElectOne(Top) /\ B % WarpSize = 0
      BY <1>3, <2>2, <2>3 DEF EnterElect, Regular
    <3>2. CASE N % WarpSize # 0 \/ ~HasElect
      <4>1. PushElected(1, FirstPart(Top)) /\ partial' = partial
        BY <3>1, <3>2, <2>2 DEF ElectOne, FirstPart, LanePart
      <4>2. FirstPart(Top) = Numbered(B + 0, 1)
        BY <2>1, <2>2, FirstThread
      <4>3. 0 + 1 <= N
        BY <2>2
      <4>4. PushLevel(0, 1, FirstPart(Top), TRUE)
        BY <4>1, Zenon DEF PushElected
      <4>6. 0 \in Nat /\ 1 \in Nat \ {0} /\ TRUE \in BOOLEAN
        OBVIOUS
      <4>5. StackOK'
        BY <4>2, <4>3, <4>4, <4>6, <2>1, RangePush, Zenon
      <4> QED BY <4>1, <4>5
    <3>3. CASE N % WarpSize = 0 /\ HasElect
      <4>1. PICK f \in Elections(Top), junk \in {0, 1} :
              /\ PushElected(1, LanePart(Top, f, junk))
              /\ partial' = (partial \/ SplitsWarp(Top))
        BY <3>1, <3>3, <2>2 DEF ElectOne, FirstPart, LanePart
      <4>2. ~SplitsWarp(Top)
        BY <3>1, <3>3, <2>1, NoSplit
      <4>3. PICK lane \in BlockThreads : LanePart(Top, f, junk) = [t \in {lane} |-> 0]
        <5>1. ElectsOne(LanePart(Top, f, junk))
          BY <3>1, <3>3, <2>1, ElectedLane
        <5> QED BY <5>1 DEF ElectsOne
      <4>4. B < NumThreads
        BY <2>2
      <4>5. StackOK'
        BY <4>1, <4>3, <4>4, <2>2, LanePush DEF PushElected
      <4> QED BY <4>1, <4>2, <4>5
    <3> QED BY <3>2, <3>3
  <2>4. CASE n # 1
    <3>1. ElectMany(Top, n) /\ ~(n % WarpSize = 0 /\ N % WarpSize = 0)
      BY <1>3, <2>2, <2>4 DEF EnterElect, Regular
    <3>2. /\ PushElected(n, FewPart(Top, n))
          /\ partial' = partial
      BY <3>1, <2>2 DEF ElectMany, FewPart
    <3>3. FewPart(Top, n) = Numbered(B + 0, n)
      BY <2>1, <2>2, <1>1, FirstThreads
    <3> QED BY <3>2, <3>3, <2>1, <2>2, <1>1, RangePush DEF PushElected
  <2> QED BY <2>3, <2>4
<1> QED BY <1>2, <1>3

LEMMA FrontIs ==
  ASSUME NEW S, NEW seq \in Seq(S), Len(seq) > 1
  PROVE  Front(seq) \in Seq(S) /\ Front(seq) # <<>>
<1>1. PICK n \in Nat : n = Len(seq) - 1 /\ n >= 1
  BY LenProperties
<1>2. \A k \in 1 .. n : seq[k] \in S
  BY <1>1
<1>3. SubSeq(seq, 1, n) \in Seq(S) /\ Len(SubSeq(seq, 1, n)) = n
  <2>1. Len(SubSeq(seq, 1, n)) = IF 1 <= n THEN n - 1 + 1 ELSE 0
    BY <1>1, <1>2, SubSeqProperties
  <2>2. SubSeq(seq, 1, n) \in Seq(S)
    BY <1>1, <1>2, SubSeqProperties
  <2> QED BY <2>1, <2>2, <1>1
<1>4. Front(seq) = SubSeq(seq, 1, n)
  BY <1>1 DEF Front
<1>5. SubSeq(seq, 1, n) # <<>>
  BY <1>1, <1>3, EmptySeq, SMTT(30)
<1> QED BY <1>3, <1>4, <1>5

LEMMA LeaveKeeps ==
  ASSUME StackOK, Leave
  PROVE  StackOK'
<1>1. stack' = Front(stack) /\ Len(stack) > 1
  BY DEF Leave
<1>2. stack' \in Seq(Levels) /\ stack' # <<>>
  BY <1>1, FrontIs DEF StackOK
<1> QED BY <1>2 DEF StackOK
-----------------------------------------------------------------------------
(* The barriers, whatever threads execute the groups. *)

\* Levels as far as the barriers know them.
Numbers ==
    \E S : /\ stack \in Seq(S) /\ stack # <<>>
           /\ \A l \in S : l.begin \in Nat /\ l.num \in Nat

\* The ranges that take a named barrier while there are any.
Shaped(r) ==
    r[2] - r[1] > WarpSize /\ r[2] - r[1] # NumThreads /\ SyncByWarp(r[1], r[2] - r[1])

NamedOK ==
    /\ IsFiniteSet(DOMAIN named) /\ Cardinality(DOMAIN named) <= MaxNamed
    /\ \A r \in DOMAIN named : named[r] \in 1 .. Cardinality(DOMAIN named) /\ Shaped(r)
    /\ \A r, s \in DOMAIN named : r # s => named[r] # named[s]

MbarsOK ==
    /\ \A r \in DOMAIN mbars : mbars[r] = r[2] - r[1]
    /\ \A r \in DOMAIN mbars :
         r \notin DOMAIN named /\ (Shaped(r) => Cardinality(DOMAIN named) >= MaxNamed)

BInv == Numbers /\ NamedOK /\ MbarsOK

LEMMA NumbersTop ==
  ASSUME Numbers
  PROVE  Top.begin \in Nat /\ Top.num \in Nat
<1>1. PICK S : /\ stack \in Seq(S) /\ stack # <<>>
               /\ \A l \in S : l.begin \in Nat /\ l.num \in Nat
  BY DEF Numbers
<1>2. Len(stack) \in Nat \ {0}
  BY <1>1, EmptySeq
<1>3. stack[Len(stack)] \in S
  BY <1>1, <1>2
<1> QED BY <1>1, <1>3 DEF Top, Last

LEMMA NumbersPush ==
  ASSUME Numbers, NEW b \in Nat, NEW n \in Nat, NEW tid, NEW e, PushLevel(b, n, tid, e)
  PROVE  Numbers'
<1>1. PICK S : /\ stack \in Seq(S) /\ stack # <<>>
               /\ \A l \in S : l.begin \in Nat /\ l.num \in Nat
  BY DEF Numbers
<1>2. PICK x : /\ stack' = Append(stack, x)
               /\ x = [begin |-> Top.begin + b, num |-> n, tid |-> tid, elected |-> e]
  BY DEF PushLevel
<1>3. x.begin \in Nat /\ x.num \in Nat
  <2>1. Top.begin + b \in Nat
    BY NumbersTop
  <2> QED BY <2>1, <1>2
<1>4. stack \in Seq(S \cup {x})
  BY <1>1, SeqMonotonic
<1>5. x \in S \cup {x}
  OBVIOUS
<1>6. stack' \in Seq(S \cup {x}) /\ stack' # <<>>
  BY <1>2, <1>4, <1>5, AppendProperties
<1>7. \A l \in S \cup {x} : l.begin \in Nat /\ l.num \in Nat
  BY <1>1, <1>3
<1> QED BY <1>6, <1>7 DEF Numbers

LEMMA NumbersLeave ==
  ASSUME Numbers, Leave
  PROVE  Numbers'
<1>1. PICK S : /\ stack \in Seq(S) /\ stack # <<>>
               /\ \A l \in S : l.begin \in Nat /\ l.num \in Nat
  BY DEF Numbers
<1>2. stack' \in Seq(S) /\ stack' # <<>>
  BY <1>1, FrontIs DEF Leave
<1> QED BY <1>1, <1>2 DEF Numbers

LEMMA EnterNumbers ==
  ASSUME Numbers, NEW n \in GroupSizes,
         EnterElect(n) \/ \E b \in GroupBegins : EnterFixed(b, n)
  PROVE  Numbers' /\ named' = named /\ mbars' = mbars
<1>1. named' = named /\ mbars' = mbars
  BY DEF EnterElect, EnterFixed
<1>2. n \in Nat /\ \A b \in GroupBegins : b \in Nat
  BY GroupInputs
<1>3. \E b \in Nat, m \in Nat : \E tid, e : PushLevel(b, m, tid, e)
  <2>1. ASSUME NEW b \in GroupBegins, EnterFixed(b, n) PROVE \E tid, e : PushLevel(b, n, tid, e)
    BY <2>1, Zenon DEF EnterFixed, Push
  <2>2. ASSUME EnterElect(n)
        PROVE  \/ Push(0, n, Top.tid)
               \/ ElectOne(Top)
               \/ ElectMany(Top, n)
    BY <2>2, Zenon DEF EnterElect
  <2>3. ASSUME ElectOne(Top) PROVE \E tid, e : PushLevel(0, 1, tid, e)
    BY <2>3, Zenon DEF ElectOne, PushElected
  <2>4. ASSUME ElectMany(Top, n) PROVE \E tid, e : PushLevel(0, n, tid, e)
    BY <2>4, Zenon DEF ElectMany, PushElected
  <2>5. Push(0, n, Top.tid) => \E tid, e : PushLevel(0, n, tid, e)
    BY Zenon DEF Push
  <2>6. 0 \in Nat /\ 1 \in Nat
    OBVIOUS
  <2> QED BY <2>1, <2>2, <2>3, <2>4, <2>5, <2>6, <1>2, Zenon
<1> QED BY <1>1, <1>3, NumbersPush

\* The groups that get each kind of synchronisation.
Fits(kind, l) ==
    LET b == l.begin
        n == l.num
    IN  CASE kind = "cta" -> n = NumThreads
          [] kind = "single" -> n = 1
          [] kind = "warp" -> n = WarpSize /\ b % WarpSize = 0
          [] kind = "lanes" -> n \in 2 .. WarpSize - 1 /\ b % WarpSize = 0
          [] kind = "named" -> n > WarpSize /\ b % WarpSize = 0 /\ n % WarpSize = 0

LEMMA SyncCases ==
  ASSUME Numbers, SyncGroup
  PROVE  LET r == RangeOf(Top) IN
         /\ stack' = stack /\ partial' = partial
         /\ \/ /\ named' = named /\ mbars' = mbars
               /\ \E kind \in {"cta", "single", "warp", "lanes"} :
                    Fits(kind, Top) /\ synced' = [kind |-> kind, level |-> Top]
            \/ /\ NamedSync(r) /\ Shaped(r) /\ Fits("named", Top)
               /\ r \in DOMAIN named \/ Cardinality(DOMAIN named) < MaxNamed
            \/ /\ MbarrierSync(r)
               /\ Shaped(r) => r \notin DOMAIN named /\ ~(Cardinality(DOMAIN named) < MaxNamed)
<1>1. PICK b, n, r :
        /\ b \in Nat /\ n \in Nat
        /\ b = Top.begin /\ n = Top.num /\ r = RangeOf(Top) /\ r[1] = b /\ r[2] - r[1] = n
  <2>1. PICK b \in Nat, n \in Nat : b = Top.begin /\ n = Top.num
    BY NumbersTop
  <2>2. PICK r : r = <<b, b + n>>
    OBVIOUS
  <2>3. r[1] = b /\ r[2] - r[1] = n
    BY <2>2
  <2>4. r = RangeOf(Top)
    BY <2>1, <2>2 DEF RangeOf
  <2> QED BY <2>1, <2>3, <2>4
<1>2. Shaped(r) <=> n > WarpSize /\ n # NumThreads /\ SyncByWarp(b, n)
  BY <1>1 DEF Shaped
<1>3. stack' = stack /\ partial' = partial
  BY DEF SyncGroup
<1>4. CASE n = NumThreads
  <2>1. Primitive("cta")
    <3>1. Top.num = NumThreads /\ NumThreads # 1 /\ NumThreads \notin 2 .. WarpSize - 1
      BY <1>1, <1>4, Sizes
    <3>2. ~(Top.num = 1 /\ Top.num # NumThreads)
      BY <3>1
    <3> QED BY <3>1, <3>2 DEF SyncGroup
  <2>2. Fits("cta", Top)
    BY <1>1, <1>4 DEF Fits
  <2> QED BY <2>1, <2>2, <1>3 DEF Primitive
<1>5. CASE n = 1 /\ n # NumThreads
  <2>1. Primitive("single")
    BY <1>1, <1>5, Sizes DEF SyncGroup
  <2>2. Fits("single", Top)
    BY <1>1, <1>5 DEF Fits
  <2> QED BY <2>1, <2>2, <1>3 DEF Primitive
<1>6. CASE n = WarpSize /\ n # NumThreads /\ SyncByWarp(b, n)
  <2>1. Primitive("warp")
    BY <1>1, <1>6, Sizes DEF SyncGroup
  <2>2. Fits("warp", Top)
    BY <1>1, <1>6 DEF Fits, SyncByWarp
  <2> QED BY <2>1, <2>2, <1>3 DEF Primitive
<1>7. CASE n \in 2 .. WarpSize - 1 /\ b % WarpSize = 0
  <2>1. Primitive("lanes")
    BY <1>1, <1>7, Sizes DEF SyncGroup
  <2>2. Fits("lanes", Top)
    BY <1>1, <1>7 DEF Fits
  <2> QED BY <2>1, <2>2, <1>3 DEF Primitive
<1>8. CASE n > WarpSize /\ n # NumThreads /\ SyncByWarp(b, n)
  <2>1. IF r \in DOMAIN named \/ Cardinality(DOMAIN named) < MaxNamed
          THEN NamedSync(r) ELSE MbarrierSync(r)
    BY <1>1, <1>8, Sizes DEF SyncGroup
  <2>2. Fits("named", Top)
    BY <1>1, <1>8 DEF Fits, SyncByWarp
  <2> QED BY <2>1, <2>2, <1>1, <1>2, <1>3, <1>8
<1>9. CASE /\ n # NumThreads /\ n # 1 /\ ~(n = WarpSize /\ SyncByWarp(b, n))
           /\ ~(n \in 2 .. WarpSize - 1 /\ b % WarpSize = 0)
           /\ ~(n > WarpSize /\ SyncByWarp(b, n))
  <2>1. MbarrierSync(r)
    BY <1>1, <1>9 DEF SyncGroup
  <2> QED BY <2>1, <1>1, <1>2, <1>3, <1>9
<1> QED BY <1>4, <1>5, <1>6, <1>7, <1>8, <1>9

LEMMA NamedSyncKeeps ==
  ASSUME NamedOK, MbarsOK, NEW r, NamedSync(r), Shaped(r),
         r \in DOMAIN named \/ Cardinality(DOMAIN named) < MaxNamed
  PROVE  NamedOK' /\ MbarsOK'
<1>1. mbars' = mbars
  BY DEF NamedSync
<1>2. CASE r \in DOMAIN named
  <2>1. named' = named
    BY <1>2 DEF NamedSync
  <2> QED BY <1>1, <2>1 DEF NamedOK, MbarsOK, Shaped, SyncByWarp
<1>3. CASE r \notin DOMAIN named
  <2>1. PICK k \in Nat : k = Cardinality(DOMAIN named)
    BY FS_CardinalityType DEF NamedOK
  <2>2. /\ DOMAIN named' = DOMAIN named \cup {r} /\ named'[r] = k + 1
        /\ \A s \in DOMAIN named : s # r /\ named'[s] = named[s]
    BY <1>3, <2>1 DEF NamedSync, Extend
  <2>3. IsFiniteSet(DOMAIN named') /\ Cardinality(DOMAIN named') = k + 1
    BY <1>3, <2>1, <2>2, FS_AddElement DEF NamedOK
  <2>4. k + 1 <= MaxNamed /\ MaxNamed \in Nat
    BY <1>3, <2>1, Sizes
  <2>5. \A s \in DOMAIN named : named[s] \in 1 .. k /\ Shaped(s)
    BY <2>1 DEF NamedOK
  <2>6. \A s \in DOMAIN named' : named'[s] \in 1 .. k + 1
    BY <2>2, <2>5
  <2>7. \A s, u \in DOMAIN named' : s # u => named'[s] # named'[u]
    BY <2>2, <2>5 DEF NamedOK
  <2>8. \A s \in DOMAIN named' : Shaped(s)'
    BY <2>2, <2>5 DEF Shaped, SyncByWarp
  <2>9. NamedOK'
    BY <2>3, <2>4, <2>6, <2>7, <2>8 DEF NamedOK
  <2>10. ASSUME NEW s \in DOMAIN mbars
         PROVE  s \notin DOMAIN named' /\ (Shaped(s) => Cardinality(DOMAIN named') >= MaxNamed)
    <3>1. s \notin DOMAIN named /\ ~Shaped(s)
      BY <2>1, <2>4 DEF MbarsOK
    <3> QED BY <3>1, <2>2
  <2>11. MbarsOK'
    BY <1>1, <2>10 DEF MbarsOK, Shaped, SyncByWarp
  <2> QED BY <2>9, <2>11
<1> QED BY <1>2, <1>3

LEMMA MbarrierSyncKeeps ==
  ASSUME NamedOK, MbarsOK, NEW r, MbarrierSync(r),
         Shaped(r) => r \notin DOMAIN named /\ ~(Cardinality(DOMAIN named) < MaxNamed)
  PROVE  NamedOK' /\ MbarsOK' /\ r \in DOMAIN mbars'
<1>1. named' = named
  BY DEF MbarrierSync
<1>2. NamedOK'
  BY <1>1 DEF NamedOK, Shaped, SyncByWarp
<1>3. r \notin DOMAIN named /\ (Shaped(r) => Cardinality(DOMAIN named) >= MaxNamed)
  <2>1. Cardinality(DOMAIN named) \in Nat /\ MaxNamed \in Nat
    BY FS_CardinalityType, Sizes DEF NamedOK
  <2> QED BY <2>1 DEF NamedOK
<1>4. /\ r \in DOMAIN mbars' /\ DOMAIN mbars' \subseteq DOMAIN mbars \cup {r}
      /\ \A s \in DOMAIN mbars' : mbars'[s] = s[2] - s[1]
  BY DEF MbarrierSync, Extend, MbarsOK
<1>5. MbarsOK'
  BY <1>1, <1>3, <1>4 DEF MbarsOK, Shaped, SyncByWarp
<1> QED BY <1>2, <1>4, <1>5

LEMMA InitBInv ==
  ASSUME GroupInit
  PROVE  BInv
<1>1. Block.begin \in Nat /\ Block.num \in Nat
  BY Sizes DEF Block
<1>2. stack \in Seq({Block}) /\ stack # <<>>
  BY DEF GroupInit
<1>3. Numbers
  BY <1>1, <1>2 DEF Numbers
<1>4. DOMAIN named = {} /\ DOMAIN mbars = {}
  BY DEF GroupInit
<1>5. IsFiniteSet({}) /\ Cardinality({}) = 0
  BY FS_EmptySet
<1> QED BY <1>3, <1>4, <1>5, Sizes DEF BInv, NamedOK, MbarsOK

LEMMA NextBInv ==
  ASSUME BInv, [GroupNext]_groupVars
  PROVE  BInv'
<1>1. ASSUME stack' = stack PROVE Numbers'
  BY <1>1 DEF BInv, Numbers
<1>2. ASSUME named' = named, mbars' = mbars PROVE NamedOK' /\ MbarsOK'
  BY <1>2 DEF BInv, NamedOK, MbarsOK, Shaped, SyncByWarp
<1>3. ASSUME NEW n \in GroupSizes, EnterElect(n) \/ \E b \in GroupBegins : EnterFixed(b, n)
      PROVE  BInv'
  BY <1>2, <1>3, EnterNumbers DEF BInv
<1>4. CASE Leave
  <2>1. Numbers' /\ named' = named /\ mbars' = mbars
    BY <1>4, NumbersLeave DEF Leave, BInv
  <2> QED BY <2>1, <1>2 DEF BInv
<1>5. CASE SyncGroup
  <2>1. Numbers'
    BY <1>1, <1>5 DEF SyncGroup
  <2>2. NamedOK' /\ MbarsOK'
    BY <1>2, <1>5, SyncCases, NamedSyncKeeps, MbarrierSyncKeeps DEF BInv
  <2> QED BY <2>1, <2>2 DEF BInv
<1>6. CASE UNCHANGED groupVars
  BY <1>1, <1>2, <1>6 DEF groupVars, BInv
<1> QED BY <1>3, <1>4, <1>5, <1>6 DEF GroupNext

\* The inductive invariant of the barriers, whatever threads execute the groups.
THEOREM BarrierInvariant == GroupSpec => []BInv
<1>1. GroupInit => BInv
  BY InitBInv
<1>2. BInv /\ [GroupNext]_groupVars => BInv'
  BY NextBInv
<1> QED BY <1>1, <1>2, PTL DEF GroupSpec

\* Different ranges of threads never share a barrier, and a range keeps its own.
THEOREM BarriersStaySeparate == GroupSpec => []BarriersSeparate
<1>1. BInv => BarriersSeparate
  <2> SUFFICES ASSUME BInv PROVE BarriersSeparate
    OBVIOUS
  <2>1. Cardinality(DOMAIN named) \in Nat /\ MaxNamed \in Nat
    BY FS_CardinalityType, Sizes DEF BInv, NamedOK
  <2>2. \A r \in DOMAIN named : named[r] \in 1 .. MaxNamed
    BY <2>1 DEF BInv, NamedOK
  <2> QED BY <2>2 DEF BInv, NamedOK, MbarsOK, BarriersSeparate
<1> QED BY <1>1, BarrierInvariant, PTL
-----------------------------------------------------------------------------
(* The threads that execute a group. *)

SyncedOK ==
    \/ synced.kind = "none"
    \/ /\ IsLevel(synced.level)
       /\ \/ /\ synced.kind \in {"cta", "single", "warp", "lanes", "named"}
             /\ Fits(synced.kind, synced.level)
          \/ /\ synced.kind = "mbarrier"
             /\ RangeOf(synced.level) \in DOMAIN mbars

GInv == StackOK /\ SyncedOK /\ ~partial /\ BInv

LEMMA RangeFacts ==
  ASSUME NEW l, NEW b, NEW n, NEW e, IsRange(l, b, n, e)
  PROVE  /\ b \in Nat /\ n \in Nat \ {0} /\ b + n <= NumThreads
         /\ l.begin = b /\ l.num = n /\ l.elected = e
         /\ Executing(l) = b .. b + n - 1
         /\ \A t \in b .. b + n - 1 : l.tid[t] = t - b
         /\ Cardinality(Executing(l)) = n
<1>1. /\ b \in Nat /\ n \in Nat \ {0} /\ b + n <= NumThreads
      /\ l.begin = b /\ l.num = n /\ l.elected = e
      /\ Executing(l) = b .. b + n - 1
      /\ \A t \in b .. b + n - 1 : l.tid[t] = t - b
  BY DEF IsRange, RangeLevel, Numbered, Executing
<1>2. PICK high \in Int : high = b + n - 1
  BY <1>1
<1>3. Cardinality(b .. high) = IF b > high THEN 0 ELSE high - b + 1
  BY <1>1, <1>2, FS_Interval
<1>4. Cardinality(b .. high) = n
  BY <1>1, <1>2, <1>3
<1> QED BY <1>1, <1>2, <1>4

LEMMA LaneFacts ==
  ASSUME NEW l, NEW t, NEW b, IsLane(l, t, b)
  PROVE  /\ Executing(l) = {t} /\ l.num = 1 /\ l.elected = TRUE
         /\ l.tid[t] = 0 /\ Cardinality(Executing(l)) = 1
<1>1. /\ Executing(l) = {t} /\ l.num = 1 /\ l.elected = TRUE /\ l.tid[t] = 0
  BY DEF IsLane, LaneLevel, Executing
<1>2. Cardinality({t}) = 1
  BY FS_Singleton
<1> QED BY <1>1, <1>2

\* A group has as many threads as its size says, numbered from 0.
LEMMA LevelThreads ==
  ASSUME NEW l, IsLevel(l)
  PROVE  /\ Cardinality(Executing(l)) = l.num
         /\ {l.tid[t] : t \in Executing(l)} = 0 .. l.num - 1
         /\ ~l.elected => Executing(l) = RangeThreads(RangeOf(l))
<1>1. ASSUME NEW b, NEW n, NEW e, IsRange(l, b, n, e)
      PROVE  /\ Cardinality(Executing(l)) = l.num
             /\ {l.tid[t] : t \in Executing(l)} = 0 .. l.num - 1
             /\ Executing(l) = RangeThreads(RangeOf(l))
  <2>1. /\ b \in Nat /\ n \in Nat \ {0}
        /\ l.begin = b /\ l.num = n
        /\ Executing(l) = b .. b + n - 1
        /\ \A t \in b .. b + n - 1 : l.tid[t] = t - b
        /\ Cardinality(Executing(l)) = n
    BY <1>1, RangeFacts
  <2>2. {l.tid[t] : t \in Executing(l)} = {t - b : t \in b .. b + n - 1}
    BY <2>1
  <2>3. {t - b : t \in b .. b + n - 1} = 0 .. n - 1
    <3>1. ASSUME NEW x \in 0 .. n - 1 PROVE x \in {t - b : t \in b .. b + n - 1}
      <4>1. x + b \in b .. b + n - 1 /\ x = (x + b) - b
        BY <2>1
      <4> QED BY <4>1
    <3>2. ASSUME NEW t \in b .. b + n - 1 PROVE t - b \in 0 .. n - 1
      BY <2>1
    <3> QED BY <3>1, <3>2
  <2>4. RangeThreads(RangeOf(l)) = b .. b + n - 1
    BY <2>1 DEF RangeThreads, RangeOf
  <2> QED BY <2>1, <2>2, <2>3, <2>4
<1>2. ASSUME NEW t, NEW b, IsLane(l, t, b)
      PROVE  /\ Cardinality(Executing(l)) = l.num
             /\ {l.tid[x] : x \in Executing(l)} = 0 .. l.num - 1
             /\ l.elected
  <2>1. /\ Executing(l) = {t} /\ l.num = 1 /\ l.elected = TRUE
        /\ l.tid[t] = 0 /\ Cardinality(Executing(l)) = 1
    BY <1>2, LaneFacts
  <2>2. {l.tid[x] : x \in Executing(l)} = {0}
    BY <2>1
  <2>3. 0 .. 1 - 1 = {0}
    OBVIOUS
  <2> QED BY <2>1, <2>2, <2>3
<1> QED BY <1>1, <1>2 DEF IsLevel

LEMMA InitGInv ==
  ASSUME GroupInit
  PROVE  GInv
<1>1. IsRange(Block, 0, NumThreads, FALSE)
  <2>1. 0 .. 0 + NumThreads - 1 = BlockThreads /\ 0 + NumThreads <= NumThreads
    BY Sizes DEF BlockThreads
  <2>2. Numbered(0, NumThreads) = [t \in BlockThreads |-> t]
    <3>1. \A t \in BlockThreads : t - 0 = t
      BY DEF BlockThreads
    <3> QED BY <2>1, <3>1 DEF Numbered
  <2> QED BY <2>1, <2>2, Sizes DEF IsRange, RangeLevel, Block
<1>2. Block \in Levels
  BY <1>1, LevelsAre DEF IsLevel
<1>3. StackOK
  BY <1>2 DEF GroupInit, StackOK
<1>4. SyncedOK /\ ~partial
  BY DEF GroupInit, SyncedOK, NoSync
<1> QED BY <1>3, <1>4, InitBInv DEF GInv

LEMMA GroupSyncKeeps ==
  ASSUME GInv, SyncGroup
  PROVE  StackOK' /\ SyncedOK' /\ partial' = partial
<1>1. stack' = stack /\ partial' = partial
  BY SyncCases DEF GInv, BInv
<1>2. StackOK'
  BY <1>1 DEF GInv, StackOK
<1>3. IsLevel(Top)
  BY TopIs DEF GInv
<1>4. ASSUME NEW kind \in {"cta", "single", "warp", "lanes", "named"}, Fits(kind, Top),
             synced' = [kind |-> kind, level |-> Top]
      PROVE  SyncedOK'
  <2>1. synced'.kind = kind /\ synced'.level = Top
    BY <1>4
  <2> QED BY <1>3, <1>4, <2>1 DEF SyncedOK
<1>5. ASSUME MbarrierSync(RangeOf(Top)), RangeOf(Top) \in DOMAIN mbars' PROVE SyncedOK'
  <2>1. synced'.kind = "mbarrier" /\ synced'.level = Top
    BY <1>5 DEF MbarrierSync
  <2>2. RangeOf(synced'.level) \in DOMAIN mbars'
    BY <2>1, <1>5
  <2> QED BY <1>3, <2>1, <2>2 DEF SyncedOK, RangeOf
<1>6. SyncedOK'
  <2>1. ASSUME NEW r, r = RangeOf(Top), NamedSync(r), Fits("named", Top) PROVE SyncedOK'
    BY <2>1, <1>4 DEF NamedSync
  <2>2. ASSUME MbarrierSync(RangeOf(Top)),
               Shaped(RangeOf(Top)) => /\ RangeOf(Top) \notin DOMAIN named
                                       /\ ~(Cardinality(DOMAIN named) < MaxNamed)
        PROVE  SyncedOK'
    BY <2>2, <1>5, MbarrierSyncKeeps DEF GInv, BInv
  <2> QED BY <1>4, <2>1, <2>2, SyncCases DEF GInv, BInv
<1> QED BY <1>1, <1>2, <1>6

LEMMA NextGInv ==
  ASSUME Regular, GInv, [GroupNext]_groupVars
  PROVE  GInv'
<1>1. BInv'
  BY NextBInv DEF GInv
<1>2. ASSUME synced' = NoSync PROVE SyncedOK'
  BY <1>2 DEF SyncedOK, NoSync
<1>3. ASSUME NEW n \in GroupSizes, EnterElect(n) PROVE StackOK' /\ SyncedOK' /\ ~partial'
  <2>1. synced' = NoSync
    BY <1>3 DEF EnterElect
  <2> QED BY <1>2, <1>3, <2>1, EnterElectKeeps DEF GInv
<1>4. ASSUME NEW n \in GroupSizes, NEW b \in GroupBegins, EnterFixed(b, n)
      PROVE  StackOK' /\ SyncedOK' /\ ~partial'
  <2>1. synced' = NoSync
    BY <1>4 DEF EnterFixed
  <2> QED BY <1>2, <1>4, <2>1, EnterFixedKeeps DEF GInv
<1>5. CASE Leave
  <2>1. synced' = NoSync /\ partial' = partial
    BY <1>5 DEF Leave
  <2> QED BY <1>1, <1>2, <1>5, <2>1, LeaveKeeps DEF GInv
<1>6. CASE SyncGroup
  BY <1>1, <1>6, GroupSyncKeeps DEF GInv
<1>7. CASE UNCHANGED groupVars
  <2>1. stack' = stack /\ synced' = synced /\ mbars' = mbars /\ partial' = partial
    BY <1>7 DEF groupVars
  <2>2. StackOK'
    BY <2>1 DEF GInv, StackOK
  <2>3. SyncedOK'
    BY <2>1 DEF GInv, SyncedOK, RangeOf
  <2> QED BY <1>1, <2>1, <2>2, <2>3 DEF GInv
<1> QED BY <1>1, <1>3, <1>4, <1>5, <1>6, <1>7 DEF GroupNext, GInv

\* The inductive invariant of regular groups (Regular): every level is a range of
\* threads or one elected thread, and the last synchronisation fits the level it
\* was emitted for.
THEOREM GroupInvariant ==
  ASSUME Regular
  PROVE  GroupSpec => []GInv
<1>1. GroupInit => GInv
  BY InitGInv
<1>2. GInv /\ [GroupNext]_groupVars => GInv'
  BY NextGInv
<1> QED BY <1>1, <1>2, PTL DEF GroupSpec

\* However regular groups are nested, the body of a group is executed by exactly as many
\* threads as its size says, numbered from 0 (visit_ThreadGroupStmt).
THEOREM GroupsHaveTheirThreads ==
  ASSUME Regular
  PROVE  GroupSpec => []ExactlyItsThreads
<1>1. GInv => ExactlyItsThreads
  BY LevelAt, LevelThreads DEF GInv, ExactlyItsThreads
<1> QED BY <1>1, GroupInvariant, PTL

\* A regular group with a fixed first thread runs on the threads the compiler has on
\* its stack: no whole-warp group begins off a multiple of its size.
THEOREM FixedGroupsInPlace ==
  ASSUME Regular
  PROVE  GroupSpec => []FixedInPlace
<1>1. GInv => FixedInPlace
  BY LevelAt, LevelThreads DEF GInv, FixedInPlace
<1> QED BY <1>1, GroupInvariant, PTL

\* The shuffles and elections that choose a regular group's threads are executed by
\* whole warps, as their full mask demands.
THEOREM ShufflesWhole ==
  ASSUME Regular
  PROVE  GroupSpec => []WholeWarpsShuffle
<1>1. GInv => WholeWarpsShuffle
  BY DEF GInv, WholeWarpsShuffle
<1> QED BY <1>1, GroupInvariant, PTL
-----------------------------------------------------------------------------
(* What the synchronisation of a group waits for. *)

\* The range of a whole number of warps, as warps.
LEMMA WarpIsLanes ==
  ASSUME NEW b \in Nat, b % WarpSize = 0, b + 1 <= NumThreads
  PROVE  \E w \in BlockWarps : /\ w \in Nat /\ w * WarpSize = b
                               /\ WarpLanes(w) = b .. b + WarpSize - 1
<1>1. WarpSize \in Nat \ {0} /\ NumThreads \in Nat /\ NumThreads % WarpSize = 0
  BY Sizes, WarpAssumption
<1>2. PICK w \in Nat, k \in Nat : b = w * WarpSize /\ NumThreads = k * WarpSize /\ k = NumThreads \div WarpSize
  <2>1. \E w \in Nat : b = w * WarpSize
    BY <1>1, Multiple, Zenon
  <2>2. \E k \in Nat : k = NumThreads \div WarpSize /\ NumThreads = k * WarpSize
    BY <1>1, Multiple, Zenon
  <2> QED BY <2>1, <2>2, Zenon
<1>3. w < k
  <2>1. k <= w => NumThreads <= b
    BY <1>1, <1>2, MonotoneBy
  <2> QED BY <2>1, <1>1, <1>2
<1>4. w \in BlockWarps
  BY <1>2, <1>3 DEF BlockWarps
<1>5. (w + 1) * WarpSize = b + WarpSize
  BY <1>1, <1>2
<1>6. WarpLanes(w) = b .. b + WarpSize - 1
  <2>1. PICK low, high : low = w * WarpSize /\ high = (w + 1) * WarpSize /\ low = b /\ high = b + WarpSize
    BY <1>2, <1>5
  <2>2. WarpLanes(w) = low .. high - 1
    BY <2>1 DEF WarpLanes
  <2>3. low .. high - 1 = b .. (b + WarpSize) - 1
    BY <2>1, Zenon
  <2>4. (b + WarpSize) - 1 = b + WarpSize - 1
    BY <1>1
  <2> QED BY <2>2, <2>3, <2>4
<1> QED BY <1>2, <1>4, <1>6

LEMMA SyncsAll ==
  ASSUME GInv
  PROVE  SyncComplete
<1> DEFINE l == synced.level
           group == Executing(l)
<1>1. CASE synced.kind = "none"
  BY <1>1 DEF SyncComplete
<1>2. ASSUME synced.kind # "none"
      PROVE  /\ IsLevel(l) /\ Cardinality(group) = l.num
             /\ synced.kind \in {"cta", "single", "warp", "lanes", "named", "mbarrier"}
             /\ synced.kind # "mbarrier" => Fits(synced.kind, l)
             /\ synced.kind = "mbarrier" => RangeOf(l) \in DOMAIN mbars
  BY <1>2, LevelThreads DEF GInv, SyncedOK
<1>3. ASSUME IsLevel(l), l.num # 1 PROVE \E b, n, e : IsRange(l, b, n, e)
  BY <1>3, LaneFacts DEF IsLevel
<1>4. CASE synced.kind = "cta"
  <2>1. l.num = NumThreads /\ NumThreads # 1
    BY <1>2, <1>4, Sizes DEF Fits
  <2>2. PICK b, n, e : IsRange(l, b, n, e)
    BY <1>2, <1>3, <1>4, <2>1
  <2>3. b = 0 /\ n = NumThreads /\ group = b .. b + n - 1
    BY <2>1, <2>2, RangeFacts, Sizes
  <2>4. group = BlockThreads
    BY <2>3, Sizes DEF BlockThreads
  <2> QED BY <1>4, <2>4 DEF SyncComplete
<1>5. CASE synced.kind = "single"
  <2>1. Cardinality(group) = 1
    BY <1>2, <1>5 DEF Fits
  <2> QED BY <1>5, <2>1 DEF SyncComplete
<1>6. CASE synced.kind = "warp"
  <2>1. l.num = WarpSize /\ l.begin % WarpSize = 0 /\ WarpSize # 1 /\ WarpSize \in Nat
    BY <1>2, <1>6, Sizes DEF Fits
  <2>2. PICK b, n, e : IsRange(l, b, n, e)
    BY <1>2, <1>3, <1>6, <2>1
  <2>3. b \in Nat /\ b % WarpSize = 0 /\ b + 1 <= NumThreads /\ group = b .. b + WarpSize - 1
    BY <2>1, <2>2, RangeFacts, Sizes
  <2>4. \E w \in BlockWarps : group = WarpLanes(w)
    BY <2>3, WarpIsLanes
  <2> QED BY <1>6, <2>4 DEF SyncComplete
<1>7. CASE synced.kind = "lanes"
  <2>1. l.num \in 2 .. WarpSize - 1 /\ l.begin % WarpSize = 0 /\ WarpSize \in Nat \ {0}
    BY <1>2, <1>7, Sizes DEF Fits
  <2>2. PICK b, n, e : IsRange(l, b, n, e)
    BY <1>2, <1>3, <1>7, <2>1
  <2>3. /\ b \in Nat /\ b % WarpSize = 0 /\ b + 1 <= NumThreads /\ group = b .. b + n - 1
        /\ n \in Nat /\ n < WarpSize /\ l.num = n
    BY <2>1, <2>2, RangeFacts, Sizes
  <2>4. PICK w \in BlockWarps : /\ w \in Nat /\ w * WarpSize = b
                                /\ WarpLanes(w) = b .. b + WarpSize - 1
    BY <2>3, WarpIsLanes
  <2>5. ASSUME NEW t \in WarpLanes(w) PROVE t % WarpSize < n <=> t < b + n
    <3>1. t \in Nat /\ b <= t /\ t < b + WarpSize
      BY <2>1, <2>3, <2>4, SMTT(30)
    <3>2. t % WarpSize = t - b
      <4>1. t % WarpSize = t - w * WarpSize
        BY <3>1, <2>1, <2>4, Interval
      <4> QED BY <4>1, <2>4
    <3> QED BY <3>1, <3>2, <2>3
  <2>6. group = {t \in WarpLanes(w) : t % WarpSize < n}
    <3>1. \A t : t \in group <=> t \in WarpLanes(w) /\ t < b + n
      BY <2>1, <2>3, <2>4
    <3> QED BY <3>1, <2>5
  <2> QED BY <1>7, <2>3, <2>6 DEF SyncComplete
<1>8. CASE synced.kind = "named"
  <2>1. l.num > WarpSize /\ l.begin % WarpSize = 0 /\ l.num % WarpSize = 0
    BY <1>2, <1>8 DEF Fits
  <2>2. l.num # 1
    BY <2>1, Sizes
  <2>3. PICK b, n, e : IsRange(l, b, n, e)
    BY <1>2, <1>3, <1>8, <2>2
  <2>4. ~SplitsWarp(l)
    <3>1. b % WarpSize = 0 /\ n % WarpSize = 0
      BY <2>1, <2>3, RangeFacts
    <3> QED BY <2>3, <3>1, NoSplit
  <2>5. \A w \in BlockWarps : WarpLanes(w) \cap group \in {{}, WarpLanes(w)}
    BY <2>4 DEF SplitsWarp
  <2> QED BY <1>2, <1>8, <2>5 DEF SyncComplete
<1>9. CASE synced.kind = "mbarrier"
  <2>1. RangeOf(l) \in DOMAIN mbars /\ Cardinality(group) = l.num
    BY <1>2, <1>9
  <2>2. mbars[RangeOf(l)] = RangeOf(l)[2] - RangeOf(l)[1]
    BY <2>1 DEF GInv, BInv, MbarsOK
  <2>3. PICK b \in Nat, n \in Nat : b = l.begin /\ n = l.num
    <3>1. ASSUME NEW t, NEW b, IsLane(l, t, b) PROVE l.begin \in Nat /\ l.num \in Nat
      BY <3>1 DEF IsLane, LaneLevel
    <3> QED BY <3>1, <1>2, <1>9, RangeFacts DEF IsLevel
  <2>4. RangeOf(l)[2] - RangeOf(l)[1] = n
    BY <2>3 DEF RangeOf
  <2>5. mbars[<<l.begin, l.begin + l.num>>] = Cardinality(group)
    BY <2>1, <2>2, <2>3, <2>4 DEF RangeOf
  <2> QED BY <1>9, <2>5 DEF SyncComplete
<1> QED BY <1>1, <1>2, <1>4, <1>5, <1>6, <1>7, <1>8, <1>9

\* For regular groups the synchronisation emitted for a group waits for the threads
\* that execute it and for no others (SyncContext.sync).
THEOREM SyncWaitsForTheGroup ==
  ASSUME Regular
  PROVE  GroupSpec => []SyncComplete
<1>1. GInv => SyncComplete
  BY SyncsAll
<1> QED BY <1>1, GroupInvariant, PTL
=============================================================================

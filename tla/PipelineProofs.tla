--------------------------- MODULE PipelineProofs ---------------------------
(***************************************************************************)
(* The pipeline for any numbers of producers, consumers, stages and tiles.  *)
(*                                                                         *)
(* A barrier that has completed T turns is at the tile Due == s + T * N of  *)
(* its stage s.  The argument is by tiles: what the barrier of a stage      *)
(* counts is who has sent, or taken, the tile it is at, and a wait on a     *)
(* phase bit is a wait for a certain tile, because no thread is two turns   *)
(* away from its barrier.                                                   *)
(***************************************************************************)
EXTENDS Pipeline, FiniteSetTheorems, TLAPS

Due(bar, s) == s + bar.turns * NumStages

\* Tiles producer p has arrived for.
Sent(p) ==
    IF tile[p] >= NumTiles THEN NumTiles
    ELSE IF pc[p] \in {"copy", "advance"} THEN tile[p] + 1
    ELSE tile[p]

\* Tiles thread t has passed the wait for.
Begun(t) == IF pc[t] = "acquire" THEN tile[t] ELSE tile[t] + 1

\* Tiles consumer c has released.
Taken(c) == IF pc[c] = "advance" THEN tile[c] + 1 ELSE tile[c]

\* The part of p of the tile that stage s is at is announced and has not landed.
Copying(p, s) ==
    \/ pc[p] = "copy" /\ tile[p] = Due(empty[s], s)
    \/ [by |-> p, stage |-> s, tile |-> Due(empty[s], s)] \in copies

Barrier == [turns : Nat, pending : Nat, tx : Nat]

Types ==
    /\ full \in [Stages -> Barrier] /\ empty \in [Stages -> Barrier]
    /\ stage \in [Agents -> Stages] /\ phase \in [Agents -> {0, 1}]
    /\ tile \in [Agents -> Nat] /\ DOMAIN pc = Agents
    /\ pc = [t \in Agents |-> pc[t]]
    /\ \A p \in Producers :
         /\ pc[p] \in {"acquire", "expect", "copy", "advance"}
         /\ pc[p] \in {"expect", "copy"} => tile[p] < NumTiles
    /\ \A c \in Consumers :
         /\ pc[c] \in {"acquire", "read", "release", "advance"}
         /\ tile[c] <= NumTiles
         /\ pc[c] # "acquire" => tile[c] < NumTiles
    /\ copies \subseteq [by : Producers, stage : Stages, tile : Tiles]
    /\ smem \in [Stages -> [Producers -> Nat \cup {Nothing}]]

\* Stage and phase of a thread are its tile's.
Places ==
    \A t \in Agents :
        /\ stage[t] = tile[t] % NumStages
        /\ phase[t] = (InitialPhase(t) + (tile[t] \div NumStages)) % 2

FullAt(s) ==
    /\ \A c \in Consumers : Taken(c) > Due(full[s], s) - NumStages
    /\ full[s].pending = Cardinality({c \in Consumers : Taken(c) <= Due(full[s], s)})
    /\ full[s].pending # 0 /\ full[s].tx = 0

EmptyAt(s) ==
    /\ \A p \in Producers : Sent(p) > Due(empty[s], s) - NumStages
    /\ empty[s].pending = Cardinality({p \in Producers : Sent(p) <= Due(empty[s], s)})
    /\ empty[s].tx = Cardinality({p \in Producers : Copying(p, s)})
    /\ empty[s].pending # 0 \/ empty[s].tx # 0

StoredAt(s) ==
    \A p \in Producers :
        smem[s][p] = IF Sent(p) > Due(empty[s], s) /\ ~Copying(p, s) THEN Due(empty[s], s)
                     ELSE IF empty[s].turns > 0 THEN Due(empty[s], s) - NumStages
                     ELSE Nothing

\* A copy is into the tile its stage is at, from its announcement to its landing.
CopiesRight ==
    /\ \A p \in Producers : pc[p] = "copy" => tile[p] = Due(empty[stage[p]], stage[p])
    /\ \A copy \in copies :
        /\ copy.tile = Due(empty[copy.stage], copy.stage)
        /\ copy.tile < tile[copy.by] + (IF pc[copy.by] = "advance" THEN 1 ELSE 0)

\* No producer is a round ahead of a consumer, no consumer ahead of what has landed.
Flow ==
    /\ \A p \in Producers, c \in Consumers : Begun(p) <= Taken(c) + NumStages
    /\ \A c \in Consumers, s \in Stages : Begun(c) <= Due(empty[s], s)

PipeInv ==
    /\ Types /\ Places /\ Flow /\ CopiesRight
    /\ \A s \in Stages : FullAt(s) /\ EmptyAt(s) /\ StoredAt(s)
-----------------------------------------------------------------------------
(* Arithmetic of turns. *)

LEMMA Division ==
  ASSUME NEW a \in Nat, NEW n \in Nat \ {0}
  PROVE  /\ a \div n \in Nat /\ a % n \in 0..(n - 1)
         /\ a = (a % n) + (a \div n) * n
  OBVIOUS

LEMMA Monotone ==
  ASSUME NEW n \in Nat, NEW q \in Nat, NEW r \in Nat, q <= r
  PROVE  q * n <= r * n
  OBVIOUS

LEMMA Remainder ==
  ASSUME NEW n \in Nat \ {0}, NEW q \in Nat, NEW r \in 0..(n - 1)
  PROVE  (r + q * n) % n = r /\ (r + q * n) \div n = q
  OBVIOUS

LEMMA NextTile ==
  ASSUME NEW n \in Nat \ {0}, NEW j \in Nat
  PROVE  /\ (j + 1) % n = ((j % n) + 1) % n
         /\ (j + 1) \div n = IF ((j % n) + 1) % n = 0 THEN (j \div n) + 1 ELSE j \div n
<1> DEFINE r == j \div n
           s == j % n
<1>1. r \in Nat /\ s \in 0..(n - 1) /\ j = s + r * n
  BY Division
<1>2. CASE s + 1 < n
  <2>1. s + 1 \in 0..(n - 1) /\ j + 1 = (s + 1) + r * n
    BY <1>1, <1>2
  <2>2. (s + 1) % n = s + 1 /\ s + 1 # 0
    BY <1>1, <1>2
  <2> HIDE DEF r, s
  <2>3. (j + 1) % n = s + 1 /\ (j + 1) \div n = r
    BY <1>1, <2>1, Remainder
  <2> QED BY <2>2, <2>3 DEF r, s
<1>3. CASE s + 1 = n
  <2>1. PICK q \in Nat : q = r + 1
    BY <1>1
  <2>2. (s + 1) % n = 0
    BY <1>3
  <2> HIDE DEF r, s
  <2>3. j + 1 = 0 + q * n
    BY <1>1, <1>3, <2>1
  <2>4. (j + 1) % n = 0 /\ (j + 1) \div n = q
    BY <2>3, Remainder
  <2> QED BY <2>1, <2>2, <2>4 DEF r, s
<1> QED BY <1>1, <1>2, <1>3

LEMMA Parity ==
  ASSUME NEW r \in Nat, NEW T \in Nat
  PROVE  /\ T = r => T % 2 # (1 + r) % 2 /\ T % 2 = (0 + r) % 2
         /\ T + 1 = r => T % 2 = (1 + r) % 2
         /\ T = r + 1 => T % 2 # (0 + r) % 2
         /\ 1 - ((0 + r) % 2) = (0 + (r + 1)) % 2
         /\ 1 - ((1 + r) % 2) = (1 + (r + 1)) % 2
  OBVIOUS

\* The barrier of a stage and a tile: the tile of the barrier is this one, or it
\* is a whole turn away, or the tile is another stage's.
LEMMA BarrierTile ==
  ASSUME NEW s \in Stages, NEW bar \in Barrier, NEW j \in Nat
  PROVE  /\ Due(bar, s) \in Nat
         /\ bar.turns > 0 => Due(bar, s) >= NumStages
         /\ s # j % NumStages => Due(bar, s) # j
         /\ s = j % NumStages =>
              /\ Due(bar, s) < j => Due(bar, s) + NumStages <= j
              /\ Due(bar, s) > j => Due(bar, s) >= j + NumStages
              /\ Due(bar, s) = j <=> bar.turns = j \div NumStages
              /\ Due(bar, s) = j + NumStages <=> bar.turns = j \div NumStages + 1
              /\ Due(bar, s) + NumStages = j <=> bar.turns + 1 = j \div NumStages
              /\ Due(bar, s) > j + NumStages => Due(bar, s) >= j + 2 * NumStages
<1>1. PICK n \in Nat \ {0} : n = NumStages /\ s \in 0..(n - 1)
  BY StagesAssumption DEF Stages
<1>2. PICK T \in Nat : T = bar.turns
  BY DEF Barrier
<1>3. PICK k : k = s + T * n
  OBVIOUS
<1>4. Due(bar, s) = k
  BY <1>1, <1>2, <1>3 DEF Due
<1>5. /\ k \in Nat
      /\ T > 0 => k >= n
      /\ s # j % n => k # j
      /\ s = j % n =>
           /\ k < j => k + n <= j
           /\ k > j => k >= j + n
           /\ k = j <=> T = j \div n
           /\ k = j + n <=> T = j \div n + 1
           /\ k + n = j <=> T + 1 = j \div n
           /\ k > j + n => k >= j + 2 * n
  <2> USE <1>1, <1>2, <1>3
  <2> DEFINE r == j \div n
  <2>1. r \in Nat /\ j % n \in 0..(n - 1) /\ j = (j % n) + r * n
    BY Division
  <2>2. k \in Nat /\ (T > 0 => k >= n)
    <3>1. T > 0 => 1 * n <= T * n
      BY Monotone
    <3> QED BY <3>1
  <2>3. s # j % n => k # j
    <3>1. (s + T * n) % n = s
      BY Remainder
    <3> QED BY <3>1
  <2>4. /\ T < r => (T + 1) * n <= r * n
        /\ T > r => (r + 1) * n <= T * n
        /\ T > r + 1 => (r + 2) * n <= T * n
        /\ T + 1 < r => (T + 2) * n <= r * n
    BY <2>1, Monotone
  <2>5. /\ (T + 1) * n = T * n + n /\ (r + 1) * n = r * n + n
        /\ (T + 2) * n = T * n + 2 * n /\ (r + 2) * n = r * n + 2 * n
    BY <2>1
  <2>6. T * n \in Nat /\ r * n \in Nat
    BY <2>1
  <2>7. ASSUME s = j % n
        PROVE  /\ k < j => k + n <= j
               /\ k > j => k >= j + n
               /\ k = j <=> T = r
               /\ k = j + n <=> T = r + 1
               /\ k + n = j <=> T + 1 = r
               /\ k > j + n => k >= j + 2 * n
    <3> DEFINE a == T * n
               b == r * n
    <3>1. a \in Nat /\ b \in Nat /\ k = s + a /\ j = s + b
      BY <2>1, <2>6, <2>7
    <3>2. /\ T < r => a + n <= b
          /\ T > r => b + n <= a
          /\ T > r + 1 => b + 2 * n <= a
          /\ T + 1 < r => a + 2 * n <= b
          /\ T = r => a = b
          /\ T = r + 1 => a = b + n
          /\ T + 1 = r => a + n = b
      BY <2>4, <2>5
    <3> HIDE DEF a, b, r
    <3> QED BY <2>1, <3>1, <3>2
  <2> QED BY <2>2, <2>3, <2>7
<1> QED BY <1>1, <1>2, <1>4, <1>5

\* A number of waiting threads that is not zero is somebody.
LEMMA SomeoneLeft ==
  ASSUME NEW S, NEW T, IsFiniteSet(T), S \subseteq T
  PROVE  /\ IsFiniteSet(S) /\ Cardinality(S) \in Nat
         /\ Cardinality(S) = 0 <=> S = {}
         /\ \A x \in S : Cardinality(S \ {x}) = Cardinality(S) - 1
         /\ \A x \in T \ S : Cardinality(S \cup {x}) = Cardinality(S) + 1
  BY FS_Subset, FS_EmptySet, FS_CardinalityType, FS_RemoveElement, FS_AddElement
-----------------------------------------------------------------------------
(* What the invariant says of the order of threads. *)

LEMMA Numbers ==
  ASSUME PipeInv
  PROVE  /\ NumStages \in Nat \ {0} /\ NumTiles \in Nat
         /\ \A p \in Producers : tile[p] \in Nat /\ Sent(p) \in Nat /\ Begun(p) \in Nat
         /\ \A c \in Consumers : tile[c] \in Nat /\ Taken(c) \in Nat /\ Begun(c) \in Nat
         /\ \A s \in Stages : /\ full[s] \in Barrier /\ empty[s] \in Barrier
                              /\ Due(full[s], s) \in Nat /\ Due(empty[s], s) \in Nat
         /\ \A t \in Agents : stage[t] \in Stages /\ stage[t] = tile[t] % NumStages
<1>1. NumStages \in Nat \ {0} /\ NumTiles \in Nat
  BY StagesAssumption
<1>2. \A t \in Agents : tile[t] \in Nat /\ Begun(t) \in Nat
  BY DEF PipeInv, Types, Begun
<1>3. (\A p \in Producers : Sent(p) \in Nat) /\ (\A c \in Consumers : Taken(c) \in Nat)
  BY <1>1, <1>2 DEF Sent, Taken, Agents
<1>4. \A s \in Stages : full[s] \in Barrier /\ empty[s] \in Barrier
  BY DEF PipeInv, Types
<1>5. \A s \in Stages : Due(full[s], s) \in Nat /\ Due(empty[s], s) \in Nat
  BY <1>4, BarrierTile
<1> QED BY <1>1, <1>2, <1>3, <1>4, <1>5 DEF Agents, PipeInv, Types, Places

LEMMA Order ==
  ASSUME PipeInv, NEW p \in Producers, NEW c \in Consumers
  PROVE  /\ Sent(p) <= Begun(p) /\ Taken(c) <= Begun(c)
         /\ Begun(c) <= Sent(p) /\ Begun(p) <= Taken(c) + NumStages
<1>1. Sent(p) <= Begun(p) /\ Taken(c) <= Begun(c)
  <2>1. tile[p] \in Nat /\ tile[c] \in Nat /\ NumTiles \in Nat
    BY Numbers
  <2> QED BY <2>1 DEF Sent, Begun, Taken
<1>2. Begun(c) <= Sent(p)
  <2> SUFFICES ASSUME Begun(c) # 0 PROVE Begun(c) <= Sent(p)
    BY Numbers
  <2>1. PICK j \in Nat : Begun(c) = j + 1
    <3>1. Begun(c) - 1 \in Nat /\ Begun(c) = (Begun(c) - 1) + 1
      BY Numbers
    <3> QED BY <3>1
  <2>2. PICK s \in Stages : s = j % NumStages
    BY Numbers, Division DEF Stages
  <2>3. Due(empty[s], s) >= j + 1
    BY <2>1 DEF PipeInv, Flow
  <2>4. Due(empty[s], s) >= j + NumStages
    BY <2>2, <2>3, Numbers, BarrierTile
  <2>5. Sent(p) > Due(empty[s], s) - NumStages
    BY DEF PipeInv, EmptyAt
  <2> QED BY <2>1, <2>4, <2>5, Numbers
<1> QED BY <1>1, <1>2 DEF PipeInv, Flow

\* Where the barrier of a thread can be.
LEMMA ProducerTurn ==
  ASSUME PipeInv, NEW p \in Producers, pc[p] = "acquire"
  PROVE  \/ Due(full[stage[p]], stage[p]) = tile[p]
         \/ Due(full[stage[p]], stage[p]) + NumStages = tile[p]
<1>1. PICK s \in Stages : s = stage[p] /\ s = tile[p] % NumStages
  BY Numbers DEF Agents
<1>2. tile[p] \in Nat /\ Begun(p) = tile[p]
  BY Numbers DEF Begun
<1>3. ASSUME Due(full[s], s) > tile[p] PROVE FALSE
  <2>1. Due(full[s], s) >= tile[p] + NumStages
    BY <1>1, <1>2, <1>3, Numbers, BarrierTile
  <2>2. PICK c \in Consumers : TRUE
    BY StagesAssumption
  <2>3. Taken(c) > Due(full[s], s) - NumStages
    BY DEF PipeInv, FullAt
  <2> QED BY <1>2, <2>1, <2>3, Numbers, Order
<1>4. ASSUME Due(full[s], s) + NumStages < tile[p] PROVE FALSE
  <2>1. PICK c \in Consumers : Taken(c) <= Due(full[s], s)
    BY StagesAssumption, SomeoneLeft, ZenonT(60) DEF PipeInv, FullAt
  <2> QED BY <1>2, <1>4, <2>1, Numbers, Order
<1>5. Due(full[s], s) < tile[p] => Due(full[s], s) + NumStages <= tile[p]
  BY <1>1, <1>2, Numbers, BarrierTile
<1> QED BY <1>1, <1>2, <1>3, <1>4, <1>5, Numbers

LEMMA ConsumerTurn ==
  ASSUME PipeInv, NEW c \in Consumers
  PROVE  /\ pc[c] = "acquire" =>
              \/ Due(empty[stage[c]], stage[c]) = tile[c]
              \/ Due(empty[stage[c]], stage[c]) = tile[c] + NumStages
         /\ pc[c] \in {"read", "release"} => Due(empty[stage[c]], stage[c]) = tile[c] + NumStages
<1>1. PICK s \in Stages : s = stage[c] /\ s = tile[c] % NumStages
  BY Numbers DEF Agents
<1>2. SUFFICES ASSUME pc[c] # "advance"
               PROVE  /\ pc[c] = "acquire" => \/ Due(empty[s], s) = tile[c]
                                             \/ Due(empty[s], s) = tile[c] + NumStages
                      /\ pc[c] # "acquire" => Due(empty[s], s) = tile[c] + NumStages
  BY <1>1
<1>3. tile[c] \in Nat /\ Taken(c) = tile[c]
  BY <1>2, Numbers DEF Taken
<1>4. Begun(c) <= Due(empty[s], s) /\ Begun(c) = tile[c] + (IF pc[c] = "acquire" THEN 0 ELSE 1)
  BY <1>3 DEF PipeInv, Flow, Begun
<1>5. ASSUME Due(empty[s], s) > tile[c] + NumStages PROVE FALSE
  <2>1. Due(empty[s], s) >= tile[c] + 2 * NumStages
    BY <1>1, <1>3, <1>5, Numbers, BarrierTile
  <2>2. PICK p \in Producers : TRUE
    BY StagesAssumption
  <2>3. Sent(p) > Due(empty[s], s) - NumStages
    BY DEF PipeInv, EmptyAt
  <2> QED BY <1>3, <2>1, <2>3, Numbers, Order
<1>6. Due(empty[s], s) > tile[c] => Due(empty[s], s) >= tile[c] + NumStages
  BY <1>1, <1>3, Numbers, BarrierTile
<1> QED BY <1>3, <1>4, <1>5, <1>6, Numbers

LEMMA ExpectTurn ==
  ASSUME PipeInv, NEW p \in Producers, pc[p] = "expect"
  PROVE  Due(empty[stage[p]], stage[p]) = tile[p]
<1>1. PICK s \in Stages : s = stage[p] /\ s = tile[p] % NumStages
  BY Numbers DEF Agents
<1>2. tile[p] \in Nat /\ Begun(p) = tile[p] + 1 /\ Sent(p) = tile[p]
  <2>1. tile[p] \in Nat /\ NumTiles \in Nat /\ tile[p] < NumTiles
    BY Numbers DEF PipeInv, Types
  <2> QED BY <2>1 DEF Begun, Sent
<1>3. ASSUME Due(empty[s], s) > tile[p] PROVE FALSE
  <2>1. Due(empty[s], s) >= tile[p] + NumStages
    BY <1>1, <1>2, <1>3, Numbers, BarrierTile
  <2>2. Sent(p) > Due(empty[s], s) - NumStages
    BY DEF PipeInv, EmptyAt
  <2> QED BY <1>2, <2>1, <2>2, Numbers
<1>4. ASSUME Due(empty[s], s) < tile[p] PROVE FALSE
  <2>1. Due(empty[s], s) + NumStages <= tile[p]
    BY <1>1, <1>2, <1>4, Numbers, BarrierTile
  <2>2. PICK c \in Consumers : TRUE
    BY StagesAssumption
  <2>3. Begun(c) <= Due(empty[s], s)
    BY DEF PipeInv, Flow
  <2> QED BY <1>2, <2>1, <2>3, Numbers, Order
<1> QED BY <1>1, <1>2, <1>3, <1>4, Numbers

LEMMA ReleaseTurn ==
  ASSUME PipeInv, NEW c \in Consumers, pc[c] = "release"
  PROVE  Due(full[stage[c]], stage[c]) = tile[c]
<1>1. PICK s \in Stages : s = stage[c] /\ s = tile[c] % NumStages
  BY Numbers DEF Agents
<1>2. tile[c] \in Nat /\ Taken(c) = tile[c] /\ Begun(c) = tile[c] + 1
  BY Numbers DEF Taken, Begun
<1>3. ASSUME Due(full[s], s) > tile[c] PROVE FALSE
  <2>1. Due(full[s], s) >= tile[c] + NumStages
    BY <1>1, <1>2, <1>3, Numbers, BarrierTile
  <2>2. Taken(c) > Due(full[s], s) - NumStages
    BY DEF PipeInv, FullAt
  <2> QED BY <1>2, <2>1, <2>2, Numbers
<1>4. ASSUME Due(full[s], s) < tile[c] PROVE FALSE
  <2>1. Due(full[s], s) + NumStages <= tile[c]
    BY <1>1, <1>2, <1>4, Numbers, BarrierTile
  <2>2. PICK d \in Consumers : Taken(d) <= Due(full[s], s)
    BY StagesAssumption, SomeoneLeft, ZenonT(60) DEF PipeInv, FullAt
  <2>3. PICK p \in Producers : TRUE
    BY StagesAssumption
  <2>4. Begun(c) <= Sent(p) /\ Sent(p) <= Begun(p) /\ Begun(p) <= Taken(d) + NumStages
    BY Order
  <2> QED BY <1>2, <2>1, <2>2, <2>4, Numbers
<1> QED BY <1>1, <1>2, <1>3, <1>4, Numbers

\* A wait that passes has been passed by the turn it is for.
LEMMA ProducerWaits ==
  ASSUME PipeInv, NEW p \in Producers, pc[p] = "acquire", WaitDone(full[stage[p]], phase[p])
  PROVE  Due(full[stage[p]], stage[p]) = tile[p]
<1>1. PICK s \in Stages : s = stage[p] /\ s = tile[p] % NumStages
  BY Numbers DEF Agents
<1>2. PICK r \in Nat : r = tile[p] \div NumStages
  BY Numbers, Division
<1>3. full[s].turns \in Nat /\ full[s].turns % 2 # (1 + r) % 2
  BY <1>1, <1>2, Numbers DEF PipeInv, Places, InitialPhase, WaitDone, Agents, Barrier
<1>4. full[s].turns + 1 # r
  BY <1>3, Parity
<1>5. Due(full[s], s) + NumStages = tile[p] => full[s].turns + 1 = r
  BY <1>1, <1>2, Numbers, BarrierTile
<1> QED BY <1>1, <1>4, <1>5, ProducerTurn

LEMMA ConsumerWaits ==
  ASSUME PipeInv, NEW c \in Consumers, pc[c] = "acquire", WaitDone(empty[stage[c]], phase[c])
  PROVE  Due(empty[stage[c]], stage[c]) = tile[c] + NumStages
<1>1. PICK s \in Stages : s = stage[c] /\ s = tile[c] % NumStages
  BY Numbers DEF Agents
<1>2. PICK r \in Nat : r = tile[c] \div NumStages
  BY Numbers, Division
<1>3. empty[s].turns \in Nat /\ empty[s].turns % 2 # (0 + r) % 2
  BY <1>1, <1>2, Numbers, StagesAssumption DEF PipeInv, Places, InitialPhase, WaitDone, Agents, Barrier
<1>4. empty[s].turns # r
  BY <1>3, Parity
<1>5. Due(empty[s], s) = tile[c] => empty[s].turns = r
  BY <1>1, <1>2, Numbers, BarrierTile
<1> QED BY <1>1, <1>4, <1>5, ConsumerTurn
-----------------------------------------------------------------------------
(* The invariant is inductive. *)

LEMMA InitInv ==
  ASSUME Init
  PROVE  PipeInv
<1>1. /\ NumStages \in Nat \ {0} /\ NumTiles \in Nat
      /\ IsFiniteSet(Producers) /\ IsFiniteSet(Consumers)
      /\ Producers # {} /\ Consumers # {} /\ Producers \cap Consumers = {}
  BY StagesAssumption
<1>2. /\ Cardinality(Producers) \in Nat \ {0} /\ Cardinality(Consumers) \in Nat \ {0}
  BY <1>1, FS_EmptySet, FS_CardinalityType
<1>3. 0 \in Stages /\ 0 % NumStages = 0 /\ 0 \div NumStages = 0
  BY <1>1 DEF Stages
<1>4. \A t \in Agents : pc[t] = "acquire" /\ tile[t] = 0 /\ stage[t] = 0 /\ phase[t] = InitialPhase(t)
  BY DEF Init
<1>5. \A s \in Stages : Due(full[s], s) = s /\ Due(empty[s], s) = s /\ s \in 0..(NumStages - 1)
  BY <1>1 DEF Init, NewBarrier, Due, Stages
<1>6. Types
  <2>1. full \in [Stages -> Barrier] /\ empty \in [Stages -> Barrier]
    BY <1>2 DEF Init, NewBarrier, Barrier, FullCount, EmptyCount
  <2>2. stage \in [Agents -> Stages] /\ phase \in [Agents -> {0, 1}] /\ tile \in [Agents -> Nat]
    BY <1>3 DEF Init, InitialPhase
  <2>3. DOMAIN pc = Agents /\ pc = [t \in Agents |-> pc[t]]
    BY DEF Init
  <2> QED BY <1>1, <1>4, <2>1, <2>2, <2>3 DEF Types, Agents, Init
<1>7. Places
  BY <1>3, <1>4 DEF Places, InitialPhase
<1>8. /\ \A p \in Producers : Sent(p) = 0 /\ Begun(p) = 0
      /\ \A c \in Consumers : Taken(c) = 0 /\ Begun(c) = 0
  BY <1>1, <1>4 DEF Sent, Begun, Taken, Agents
<1>9. Flow /\ CopiesRight
  BY <1>1, <1>4, <1>5, <1>8 DEF Flow, CopiesRight, Init, Agents
<1>10. \A s \in Stages : FullAt(s)
  <2> SUFFICES ASSUME NEW s \in Stages PROVE FullAt(s)
    OBVIOUS
  <2>1. {c \in Consumers : Taken(c) <= Due(full[s], s)} = Consumers
    BY <1>5, <1>8
  <2>2. full[s].pending = Cardinality(Consumers) /\ full[s].tx = 0
    BY DEF Init, NewBarrier, FullCount
  <2> QED BY <1>1, <1>2, <1>5, <1>8, <2>1, <2>2 DEF FullAt
<1>11. \A s \in Stages : EmptyAt(s) /\ StoredAt(s)
  <2> SUFFICES ASSUME NEW s \in Stages PROVE EmptyAt(s) /\ StoredAt(s)
    OBVIOUS
  <2>1. {p \in Producers : Sent(p) <= Due(empty[s], s)} = Producers
    BY <1>5, <1>8
  <2>2. /\ empty[s].pending = Cardinality(Producers) /\ empty[s].tx = 0 /\ empty[s].turns = 0
        /\ \A p \in Producers : smem[s][p] = Nothing
    BY DEF Init, NewBarrier, EmptyCount
  <2>3. {p \in Producers : Copying(p, s)} = {}
    BY <1>4 DEF Copying, Init, Agents
  <2>4. \A p \in Producers : ~(Sent(p) > Due(empty[s], s))
    BY <1>5, <1>8
  <2>5. \A p \in Producers : Sent(p) > Due(empty[s], s) - NumStages
    BY <1>1, <1>5, <1>8
  <2>6. Cardinality({p \in Producers : Copying(p, s)}) = 0
    BY <2>3, FS_EmptySet
  <2>7. EmptyAt(s)
    BY <1>2, <2>1, <2>2, <2>5, <2>6 DEF EmptyAt
  <2> QED BY <2>2, <2>4, <2>7 DEF StoredAt
<1> QED BY <1>6, <1>7, <1>9, <1>10, <1>11 DEF PipeInv

\* A step that touches no barrier and no tile keeps what the barriers say.
LEMMA QuietStep ==
  ASSUME PipeInv, UNCHANGED <<full, empty, smem>>,
         \A p \in Producers : Sent(p)' = Sent(p),
         \A c \in Consumers : Taken(c)' = Taken(c),
         \A p \in Producers, s \in Stages : Copying(p, s)' <=> Copying(p, s)
  PROVE  (\A s \in Stages : FullAt(s) /\ EmptyAt(s) /\ StoredAt(s))'
<1>1. SUFFICES ASSUME NEW s \in Stages PROVE FullAt(s)' /\ EmptyAt(s)' /\ StoredAt(s)'
  OBVIOUS
<1>2. Due(full[s], s)' = Due(full[s], s) /\ Due(empty[s], s)' = Due(empty[s], s)
  BY DEF Due
<1>3. FullAt(s) /\ EmptyAt(s) /\ StoredAt(s)
  BY DEF PipeInv
<1>4. FullAt(s)'
  BY <1>2, <1>3 DEF FullAt
<1>5. EmptyAt(s)'
  <2>1. {p \in Producers : Copying(p, s)'} = {p \in Producers : Copying(p, s)}
    OBVIOUS
  <2> QED BY <1>2, <1>3, <2>1 DEF EmptyAt
<1>6. StoredAt(s)'
  BY <1>2, <1>3 DEF StoredAt
<1> QED BY <1>4, <1>5, <1>6

LEMMA GotoIs ==
  ASSUME Types, NEW t \in Agents, NEW label, Goto(t, label)
  PROVE  /\ pc'[t] = label
         /\ \A u \in Agents : u # t => pc'[u] = pc[u]
         /\ DOMAIN pc' = Agents /\ pc' = [u \in Agents |-> pc'[u]]
  BY DEF Types, Goto

LEMMA SameFor ==
  ASSUME NEW t, pc'[t] = pc[t], tile'[t] = tile[t]
  PROVE  Sent(t)' = Sent(t) /\ Begun(t)' = Begun(t) /\ Taken(t)' = Taken(t)
  BY DEF Sent, Begun, Taken

LEMMA CopyIs ==
  ASSUME Types, CopiesRight, NEW copy \in copies
  PROVE  /\ copy.by \in Producers /\ copy.by \in Agents /\ copy.stage \in Stages
         /\ copy.tile \in Nat /\ copy.tile < NumTiles
         /\ copy = [by |-> copy.by, stage |-> copy.stage, tile |-> copy.tile]
         /\ copy.tile = Due(empty[copy.stage], copy.stage)
         /\ copy.tile < tile[copy.by] + (IF pc[copy.by] = "advance" THEN 1 ELSE 0)
<1>1. copy \in [by : Producers, stage : Stages, tile : Tiles]
  BY DEF Types
<1>2. /\ copy.by \in Producers /\ copy.stage \in Stages /\ copy.tile \in Tiles
      /\ copy = [by |-> copy.by, stage |-> copy.stage, tile |-> copy.tile]
  BY <1>1
<1>3. copy.tile \in Nat /\ copy.tile < NumTiles
  BY <1>2, StagesAssumption DEF Tiles
<1>4. /\ copy.tile = Due(empty[copy.stage], copy.stage)
      /\ copy.tile < tile[copy.by] + (IF pc[copy.by] = "advance" THEN 1 ELSE 0)
  BY DEF CopiesRight
<1> QED BY <1>2, <1>3, <1>4 DEF Agents

LEMMA AdvanceInv ==
  ASSUME PipeInv, NEW t \in Agents, Advance(t)
  PROVE  PipeInv'
<1>1. /\ NumStages \in Nat \ {0} /\ NumTiles \in Nat /\ Producers \cap Consumers = {}
      /\ tile[t] \in Nat /\ stage[t] \in Stages /\ stage[t] = tile[t] % NumStages
  BY Numbers, StagesAssumption DEF Agents
<1>2. Types /\ Places /\ Flow /\ CopiesRight
  BY DEF PipeInv
<1>3. UNCHANGED <<full, empty, copies, smem>> /\ pc[t] = "advance" /\ Goto(t, "acquire")
  BY DEF Advance
<1>4. /\ pc'[t] = "acquire" /\ \A u \in Agents : u # t => pc'[u] = pc[u]
      /\ DOMAIN pc' = Agents /\ pc' = [u \in Agents |-> pc'[u]]
  BY <1>2, <1>3, GotoIs
<1>5. /\ tile'[t] = tile[t] + 1 /\ \A u \in Agents : u # t => tile'[u] = tile[u]
      /\ tile' \in [Agents -> Nat]
  BY <1>1, <1>2 DEF Advance, Types
<1>6. /\ stage'[t] = (stage[t] + 1) % NumStages /\ \A u \in Agents : u # t => stage'[u] = stage[u]
      /\ stage' \in [Agents -> Stages]
  <2>1. (stage[t] + 1) % NumStages \in Stages
    BY <1>1 DEF Stages
  <2> QED BY <1>1, <1>2, <2>1 DEF Advance, Types
<1>7. /\ phase'[t] = (IF stage'[t] = 0 THEN 1 - phase[t] ELSE phase[t])
      /\ \A u \in Agents : u # t => phase'[u] = phase[u]
      /\ phase' \in [Agents -> {0, 1}]
  BY <1>2 DEF Advance, Types
<1>8. Types'
  <2>1. \A p \in Producers : /\ pc'[p] \in {"acquire", "expect", "copy", "advance"}
                             /\ pc'[p] \in {"expect", "copy"} => tile'[p] < NumTiles
    BY <1>2, <1>4, <1>5 DEF Types, Agents
  <2>2. \A c \in Consumers : /\ pc'[c] \in {"acquire", "read", "release", "advance"}
                             /\ tile'[c] <= NumTiles
                             /\ pc'[c] # "acquire" => tile'[c] < NumTiles
    <3> SUFFICES ASSUME NEW c \in Consumers
                 PROVE  /\ pc'[c] \in {"acquire", "read", "release", "advance"}
                        /\ tile'[c] <= NumTiles
                        /\ pc'[c] # "acquire" => tile'[c] < NumTiles
      OBVIOUS
    <3>1. CASE c = t
      <4>1. tile[t] < NumTiles
        BY <1>2, <1>3, <3>1 DEF Types
      <4> QED BY <1>1, <1>4, <1>5, <3>1, <4>1
    <3>2. CASE c # t
      BY <1>2, <1>4, <1>5, <3>2 DEF Types, Agents
    <3> QED BY <3>1, <3>2
  <2> QED BY <1>2, <1>3, <1>4, <1>5, <1>6, <1>7, <2>1, <2>2 DEF Types
<1>9. Places'
  <2>1. (tile[t] + 1) % NumStages = (stage[t] + 1) % NumStages
    BY <1>1, NextTile
  <2>2. PICK r \in Nat : r = tile[t] \div NumStages
    BY <1>1, Division
  <2>3. (tile[t] + 1) \div NumStages = IF stage'[t] = 0 THEN r + 1 ELSE r
    BY <1>1, <1>6, <2>2, NextTile
  <2>4. PICK i \in {0, 1} : i = InitialPhase(t) /\ phase[t] = (i + r) % 2
    BY <1>2, <2>2 DEF Places, InitialPhase
  <2>5. 1 - ((i + r) % 2) = (i + (r + 1)) % 2
    BY Parity
  <2>6. phase'[t] = (InitialPhase(t) + ((tile[t] + 1) \div NumStages)) % 2
    <3>1. CASE stage'[t] = 0
      BY <1>7, <2>3, <2>4, <2>5, <3>1
    <3>2. CASE stage'[t] # 0
      BY <1>7, <2>3, <2>4, <3>2
    <3> QED BY <3>1, <3>2
  <2>7. stage'[t] = tile'[t] % NumStages
        /\ phase'[t] = (InitialPhase(t) + (tile'[t] \div NumStages)) % 2
    BY <1>5, <1>6, <2>1, <2>6
  <2>8. \A u \in Agents : u # t => /\ stage'[u] = tile'[u] % NumStages
                                   /\ phase'[u] = (InitialPhase(u) + (tile'[u] \div NumStages)) % 2
    BY <1>2, <1>5, <1>6, <1>7 DEF Places
  <2> QED BY <2>7, <2>8 DEF Places, InitialPhase
<1>10. /\ \A p \in Producers : Sent(p)' = Sent(p) /\ Begun(p)' = Begun(p)
       /\ \A c \in Consumers : Taken(c)' = Taken(c) /\ Begun(c)' = Begun(c)
  <2>1. \A u \in Agents : u # t => /\ Sent(u)' = Sent(u) /\ Begun(u)' = Begun(u)
                                   /\ Taken(u)' = Taken(u)
    BY <1>4, <1>5, SameFor
  <2>2. Begun(t)' = Begun(t) /\ Taken(t)' = Taken(t)
    BY <1>1, <1>3, <1>4, <1>5 DEF Begun, Taken
  <2>3. Sent(t)' = Sent(t)
    BY <1>1, <1>3, <1>4, <1>5 DEF Sent
  <2> QED BY <2>1, <2>2, <2>3 DEF Agents
<1>11. \A s : Due(empty[s], s)' = Due(empty[s], s)
  BY <1>3 DEF Due
<1>12. Flow'
  BY <1>2, <1>10, <1>11 DEF Flow
<1>13. CopiesRight'
  <2>1. \A p \in Producers : pc'[p] = "copy" => tile'[p] = Due(empty[stage[p]], stage[p])'
    <3> SUFFICES ASSUME NEW p \in Producers, pc'[p] = "copy"
                 PROVE  tile'[p] = Due(empty[stage[p]], stage[p])'
      OBVIOUS
    <3>1. p \in Agents /\ p # t
      BY <1>4 DEF Agents
    <3> QED BY <1>2, <1>3, <1>4, <1>5, <1>6, <3>1 DEF CopiesRight, Due
  <2>2. ASSUME NEW copy \in copies
        PROVE  /\ copy.tile = Due(empty[copy.stage], copy.stage)'
               /\ copy.tile < tile'[copy.by] + (IF pc'[copy.by] = "advance" THEN 1 ELSE 0)
    <3>1. /\ copy.tile = Due(empty[copy.stage], copy.stage)
          /\ copy.tile < tile[copy.by] + (IF pc[copy.by] = "advance" THEN 1 ELSE 0)
          /\ copy.by \in Agents /\ copy.tile \in Nat
      BY <1>2, CopyIs
    <3>2. CASE copy.by = t
      BY <1>1, <1>3, <1>4, <1>5, <1>11, <3>1, <3>2
    <3>3. CASE copy.by # t
      BY <1>4, <1>5, <1>11, <3>1, <3>3
    <3> QED BY <3>2, <3>3
  <2> QED BY <1>3, <2>1, <2>2 DEF CopiesRight
<1>14. \A p \in Producers, s \in Stages : Copying(p, s)' <=> Copying(p, s)
  <2> SUFFICES ASSUME NEW p \in Producers, NEW s \in Stages PROVE Copying(p, s)' <=> Copying(p, s)
    OBVIOUS
  <2>1. pc'[p] = "copy" /\ tile'[p] = Due(empty[s], s) <=> pc[p] = "copy" /\ tile[p] = Due(empty[s], s)
    BY <1>3, <1>4, <1>5 DEF Agents
  <2> QED BY <1>3, <1>11, <2>1 DEF Copying
<1> QED BY <1>3, <1>8, <1>9, <1>10, <1>12, <1>13, <1>14, QuietStep DEF PipeInv

\* A step that moves one thread to another place of its loop body.
LEMMA MoveStep ==
  ASSUME PipeInv, UNCHANGED <<full, empty, stage, phase, tile, smem>>,
         NEW t \in Agents, NEW label, Goto(t, label),
         t \in Producers =>
            /\ label \in {"acquire", "expect", "copy", "advance"}
            /\ label \in {"expect", "copy"} => tile[t] < NumTiles,
         t \in Consumers =>
            /\ label \in {"acquire", "read", "release", "advance"}
            /\ label # "acquire" => tile[t] < NumTiles,
         copies' \subseteq [by : Producers, stage : Stages, tile : Tiles]
  PROVE  /\ Types' /\ Places' /\ pc'[t] = label
         /\ \A u \in Agents : u # t => /\ pc'[u] = pc[u] /\ Sent(u)' = Sent(u)
                                       /\ Begun(u)' = Begun(u) /\ Taken(u)' = Taken(u)
         /\ \A s \in Stages : Due(full[s], s)' = Due(full[s], s) /\ Due(empty[s], s)' = Due(empty[s], s)
<1>1. Types /\ Places
  BY DEF PipeInv
<1>2. /\ pc'[t] = label /\ \A u \in Agents : u # t => pc'[u] = pc[u]
      /\ DOMAIN pc' = Agents /\ pc' = [u \in Agents |-> pc'[u]]
  BY <1>1, GotoIs
<1>3. Types'
  <2>1. \A p \in Producers : /\ pc'[p] \in {"acquire", "expect", "copy", "advance"}
                             /\ pc'[p] \in {"expect", "copy"} => tile[p] < NumTiles
    BY <1>1, <1>2 DEF Types, Agents
  <2>2. \A c \in Consumers : /\ pc'[c] \in {"acquire", "read", "release", "advance"}
                             /\ tile[c] <= NumTiles
                             /\ pc'[c] # "acquire" => tile[c] < NumTiles
    BY <1>1, <1>2 DEF Types, Agents
  <2> QED BY <1>1, <1>2, <2>1, <2>2 DEF Types
<1>4. Places'
  BY <1>1 DEF Places, InitialPhase
<1>5. \A u \in Agents : u # t => Sent(u)' = Sent(u) /\ Begun(u)' = Begun(u) /\ Taken(u)' = Taken(u)
  BY <1>2, SameFor
<1>6. \A s \in Stages : Due(full[s], s)' = Due(full[s], s) /\ Due(empty[s], s)' = Due(empty[s], s)
  BY DEF Due
<1> QED BY <1>2, <1>3, <1>4, <1>5, <1>6

\* A producer passes a wait, for its next tile or in the drain.
LEMMA ProducerMoves ==
  ASSUME PipeInv, NEW p \in Producers, ProducerAcquire(p) \/ ProducerDrain(p)
  PROVE  PipeInv'
<1>1. PICK label \in {"expect", "advance"} :
         /\ Goto(p, label) /\ UNCHANGED <<full, empty, stage, phase, tile, copies, smem>>
         /\ pc[p] = "acquire" /\ WaitDone(full[stage[p]], phase[p])
         /\ label = "expect" => tile[p] < NumTiles
         /\ label = "advance" => tile[p] >= NumTiles
  <2>1. CASE ProducerAcquire(p)
    BY <2>1 DEF ProducerAcquire
  <2>2. CASE ProducerDrain(p)
    <3>1. tile[p] \in NumTiles .. NumTiles + DrainRounds - 1 => tile[p] >= NumTiles
      OBVIOUS
    <3> QED BY <2>2, <3>1 DEF ProducerDrain
  <2> QED BY <2>1, <2>2
<1>2. /\ NumTiles \in Nat /\ NumStages \in Nat /\ tile[p] \in Nat /\ p \in Agents
      /\ p \notin Consumers /\ stage[p] \in Stages
  BY Numbers, StagesAssumption DEF Agents
<1>3. Types /\ Places /\ Flow /\ CopiesRight
  BY DEF PipeInv
<1>4. /\ Types' /\ Places' /\ pc'[p] = label
      /\ \A u \in Agents : u # p => /\ pc'[u] = pc[u] /\ Sent(u)' = Sent(u)
                                    /\ Begun(u)' = Begun(u) /\ Taken(u)' = Taken(u)
      /\ \A s \in Stages : Due(full[s], s)' = Due(full[s], s) /\ Due(empty[s], s)' = Due(empty[s], s)
  <2>1. copies' \subseteq [by : Producers, stage : Stages, tile : Tiles]
    BY <1>1, <1>3 DEF Types
  <2> QED BY <1>1, <1>2, <2>1, MoveStep
<1>5. Sent(p)' = Sent(p) /\ Begun(p)' = tile[p] + 1
  BY <1>1, <1>2, <1>4 DEF Sent, Begun
<1>6. \A q \in Producers : Sent(q)' = Sent(q)
  BY <1>4, <1>5 DEF Agents
<1>7. \A c \in Consumers : Taken(c)' = Taken(c) /\ Begun(c)' = Begun(c)
  BY <1>2, <1>4 DEF Agents
<1>8. \A c \in Consumers : Taken(c) > tile[p] - NumStages
  BY <1>1, <1>2, ProducerWaits DEF PipeInv, FullAt
<1>9. Flow'
  <2>1. ASSUME NEW q \in Producers, NEW c \in Consumers
        PROVE  Begun(q)' <= Taken(c)' + NumStages
    <3>1. CASE q = p
      BY <1>2, <1>5, <1>7, <1>8, <3>1, Numbers
    <3>2. CASE q # p
      BY <1>3, <1>4, <1>7, <3>2 DEF Flow, Agents
    <3> QED BY <3>1, <3>2
  <2>2. \A c \in Consumers, s \in Stages : Begun(c)' <= Due(empty[s], s)'
    BY <1>3, <1>4, <1>7 DEF Flow
  <2> QED BY <2>1, <2>2 DEF Flow
<1>10. CopiesRight'
  <2>1. \A q \in Producers : pc'[q] = "copy" => tile[q] = Due(empty[stage[q]], stage[q])'
    <3> SUFFICES ASSUME NEW q \in Producers, pc'[q] = "copy"
                 PROVE  tile[q] = Due(empty[stage[q]], stage[q])'
      OBVIOUS
    <3>1. q \in Agents /\ q # p /\ pc[q] = "copy"
      BY <1>4 DEF Agents
    <3> QED BY <1>1, <1>3, <3>1 DEF CopiesRight, Due
  <2>2. ASSUME NEW copy \in copies
        PROVE  /\ copy.tile = Due(empty[copy.stage], copy.stage)'
               /\ copy.tile < tile[copy.by] + (IF pc'[copy.by] = "advance" THEN 1 ELSE 0)
    <3>1. /\ copy.tile = Due(empty[copy.stage], copy.stage)
          /\ copy.tile < tile[copy.by] + (IF pc[copy.by] = "advance" THEN 1 ELSE 0)
          /\ copy.by \in Agents /\ copy.tile \in Nat /\ copy.stage \in Stages
      BY <1>3, CopyIs
    <3>2. CASE copy.by = p
      BY <1>1, <1>2, <1>4, <3>1, <3>2
    <3>3. CASE copy.by # p
      BY <1>4, <3>1, <3>3
    <3> QED BY <3>2, <3>3
  <2> QED BY <1>1, <2>1, <2>2 DEF CopiesRight
<1>11. \A q \in Producers, s \in Stages : Copying(q, s)' <=> Copying(q, s)
  <2> SUFFICES ASSUME NEW q \in Producers, NEW s \in Stages PROVE Copying(q, s)' <=> Copying(q, s)
    OBVIOUS
  <2>1. pc'[q] = "copy" <=> pc[q] = "copy"
    BY <1>1, <1>4 DEF Agents
  <2> QED BY <1>1, <1>4, <2>1 DEF Copying
<1> QED BY <1>1, <1>4, <1>6, <1>7, <1>9, <1>10, <1>11, QuietStep DEF PipeInv

LEMMA StartCopyInv ==
  ASSUME PipeInv, NEW p \in Producers, StartCopy(p)
  PROVE  PipeInv'
<1>1. /\ Goto(p, "advance") /\ UNCHANGED <<full, empty, stage, phase, tile, smem>>
      /\ pc[p] = "copy"
      /\ copies' = copies \union {[by |-> p, stage |-> stage[p], tile |-> tile[p]]}
  BY DEF StartCopy
<1>2. /\ NumTiles \in Nat /\ NumStages \in Nat /\ tile[p] \in Nat /\ p \in Agents
      /\ p \notin Consumers /\ stage[p] \in Stages /\ stage[p] = tile[p] % NumStages
  BY Numbers, StagesAssumption DEF Agents
<1>3. Types /\ Places /\ Flow /\ CopiesRight
  BY DEF PipeInv
<1>4. /\ Types' /\ Places' /\ pc'[p] = "advance"
      /\ \A u \in Agents : u # p => /\ pc'[u] = pc[u] /\ Sent(u)' = Sent(u)
                                    /\ Begun(u)' = Begun(u) /\ Taken(u)' = Taken(u)
      /\ \A s \in Stages : Due(full[s], s)' = Due(full[s], s) /\ Due(empty[s], s)' = Due(empty[s], s)
  <2>1. copies' \subseteq [by : Producers, stage : Stages, tile : Tiles]
    <3>1. tile[p] < NumTiles
      BY <1>1, <1>3 DEF Types
    <3>2. tile[p] \in Tiles
      BY <1>2, <3>1 DEF Tiles
    <3> QED BY <1>1, <1>2, <1>3, <3>2 DEF Types
  <2> QED BY <1>1, <1>2, <2>1, MoveStep
<1>5. Sent(p)' = Sent(p) /\ Begun(p)' = Begun(p)
  BY <1>1, <1>2, <1>4 DEF Sent, Begun
<1>6. \A q \in Producers : Sent(q)' = Sent(q) /\ Begun(q)' = Begun(q)
  BY <1>4, <1>5 DEF Agents
<1>7. \A c \in Consumers : Taken(c)' = Taken(c) /\ Begun(c)' = Begun(c)
  BY <1>2, <1>4 DEF Agents
<1>8. Flow'
  BY <1>3, <1>4, <1>6, <1>7 DEF Flow
<1>9. tile[p] = Due(empty[stage[p]], stage[p])
  BY <1>1, <1>3 DEF CopiesRight
<1>10. CopiesRight'
  <2>1. \A q \in Producers : pc'[q] = "copy" => tile[q] = Due(empty[stage[q]], stage[q])'
    <3> SUFFICES ASSUME NEW q \in Producers, pc'[q] = "copy"
                 PROVE  tile[q] = Due(empty[stage[q]], stage[q])'
      OBVIOUS
    <3>1. q \in Agents /\ q # p /\ pc[q] = "copy"
      BY <1>4 DEF Agents
    <3> QED BY <1>1, <1>3, <3>1 DEF CopiesRight, Due
  <2>2. ASSUME NEW copy \in copies'
        PROVE  /\ copy.tile = Due(empty[copy.stage], copy.stage)'
               /\ copy.tile < tile[copy.by] + (IF pc'[copy.by] = "advance" THEN 1 ELSE 0)
    <3>1. CASE copy \in copies
      <4>1. /\ copy.tile = Due(empty[copy.stage], copy.stage)
            /\ copy.tile < tile[copy.by] + (IF pc[copy.by] = "advance" THEN 1 ELSE 0)
            /\ copy.by \in Agents /\ copy.tile \in Nat /\ copy.stage \in Stages
        BY <1>3, <3>1, CopyIs
      <4>2. CASE copy.by = p
        BY <1>1, <1>2, <1>4, <4>1, <4>2
      <4>3. CASE copy.by # p
        BY <1>4, <4>1, <4>3
      <4> QED BY <4>2, <4>3
    <3>2. CASE copy = [by |-> p, stage |-> stage[p], tile |-> tile[p]]
      <4>1. copy.by = p /\ copy.stage = stage[p] /\ copy.tile = tile[p]
        BY <3>2
      <4>2. tile[p] < tile[p] + 1
        BY <1>2
      <4> QED BY <1>2, <1>4, <1>9, <4>1, <4>2
    <3> QED BY <1>1, <2>2, <3>1, <3>2
  <2> QED BY <1>1, <2>1, <2>2 DEF CopiesRight
<1>11. \A q \in Producers, s \in Stages : Copying(q, s)' <=> Copying(q, s)
  <2> SUFFICES ASSUME NEW q \in Producers, NEW s \in Stages PROVE Copying(q, s)' <=> Copying(q, s)
    OBVIOUS
  <2>1. CASE q # p
    <3>1. pc'[q] = pc[q]
      BY <1>4, <2>1 DEF Agents
    <3>2. \A j : [by |-> q, stage |-> s, tile |-> j] # [by |-> p, stage |-> stage[p], tile |-> tile[p]]
      BY <2>1
    <3> QED BY <1>1, <1>4, <3>1, <3>2 DEF Copying
  <2>2. CASE q = p /\ s = stage[p]
    <3>1. [by |-> q, stage |-> s, tile |-> Due(empty[s], s)] \in copies'
      BY <1>1, <1>9, <2>2
    <3> QED BY <1>1, <1>4, <1>9, <2>2, <3>1 DEF Copying
  <2>3. CASE q = p /\ s # stage[p]
    <3>1. tile[p] # Due(empty[s], s)
      BY <1>2, <2>3, Numbers, BarrierTile
    <3>2. \A j : [by |-> q, stage |-> s, tile |-> j] # [by |-> p, stage |-> stage[p], tile |-> tile[p]]
      BY <2>3
    <3> QED BY <1>1, <1>4, <2>3, <3>1, <3>2 DEF Copying
  <2> QED BY <2>1, <2>2, <2>3
<1> QED BY <1>1, <1>4, <1>6, <1>7, <1>8, <1>10, <1>11, QuietStep DEF PipeInv

LEMMA ConsumerMoves ==
  ASSUME PipeInv, NEW c \in Consumers, ConsumerAcquire(c) \/ Read(c)
  PROVE  PipeInv'
<1>1. PICK label \in {"read", "release"} :
         /\ Goto(c, label) /\ UNCHANGED <<full, empty, stage, phase, tile, copies, smem>>
         /\ label = "read" => /\ pc[c] = "acquire" /\ tile[c] < NumTiles
                              /\ WaitDone(empty[stage[c]], phase[c])
         /\ label = "release" => pc[c] = "read"
  BY DEF ConsumerAcquire, Read
<1>2. /\ NumTiles \in Nat /\ NumStages \in Nat \ {0} /\ tile[c] \in Nat /\ c \in Agents
      /\ c \notin Producers /\ stage[c] \in Stages /\ stage[c] = tile[c] % NumStages
  BY Numbers, StagesAssumption DEF Agents
<1>3. Types /\ Places /\ Flow /\ CopiesRight
  BY DEF PipeInv
<1>4. /\ Types' /\ Places' /\ pc'[c] = label
      /\ \A u \in Agents : u # c => /\ pc'[u] = pc[u] /\ Sent(u)' = Sent(u)
                                    /\ Begun(u)' = Begun(u) /\ Taken(u)' = Taken(u)
      /\ \A s \in Stages : Due(full[s], s)' = Due(full[s], s) /\ Due(empty[s], s)' = Due(empty[s], s)
  <2>1. copies' \subseteq [by : Producers, stage : Stages, tile : Tiles]
    BY <1>1, <1>3 DEF Types
  <2>2. tile[c] < NumTiles
    BY <1>1, <1>3 DEF Types
  <2> QED BY <1>1, <1>2, <2>1, <2>2, MoveStep
<1>5. Taken(c)' = Taken(c) /\ Begun(c)' = tile[c] + 1
  BY <1>1, <1>2, <1>4 DEF Taken, Begun
<1>6. \A q \in Producers : Sent(q)' = Sent(q) /\ Begun(q)' = Begun(q)
  BY <1>2, <1>4 DEF Agents
<1>7. \A d \in Consumers : Taken(d)' = Taken(d)
  BY <1>4, <1>5 DEF Agents
<1>8. \A s \in Stages : tile[c] + 1 <= Due(empty[s], s)
  <2> SUFFICES ASSUME NEW s \in Stages PROVE tile[c] + 1 <= Due(empty[s], s)
    OBVIOUS
  <2>1. CASE label = "release"
    BY <1>1, <1>2, <1>3, <2>1 DEF Flow, Begun
  <2>2. CASE label = "read"
    <3>1. tile[c] <= Due(empty[s], s)
      BY <1>1, <1>3, <2>2 DEF Flow, Begun
    <3>2. Due(empty[stage[c]], stage[c]) = tile[c] + NumStages
      BY <1>1, <2>2, ConsumerWaits
    <3>3. s # stage[c] => Due(empty[s], s) # tile[c]
      BY <1>2, Numbers, BarrierTile
    <3> QED BY <1>2, <3>1, <3>2, <3>3, Numbers
  <2> QED BY <2>1, <2>2
<1>9. Flow'
  <2>1. ASSUME NEW d \in Consumers, NEW s \in Stages
        PROVE  Begun(d)' <= Due(empty[s], s)'
    <3>1. CASE d = c
      BY <1>4, <1>5, <1>8, <3>1
    <3>2. CASE d # c
      BY <1>3, <1>4, <3>2 DEF Flow, Agents
    <3> QED BY <3>1, <3>2
  <2>2. \A q \in Producers, d \in Consumers : Begun(q)' <= Taken(d)' + NumStages
    BY <1>3, <1>6, <1>7 DEF Flow
  <2> QED BY <2>1, <2>2 DEF Flow
<1>10. \A q \in Producers : pc'[q] = pc[q]
  BY <1>2, <1>4 DEF Agents
<1>11. CopiesRight'
  <2>1. \A copy \in copies : copy.stage \in Stages /\ copy.by \in Producers
    BY <1>3 DEF Types
  <2> QED BY <1>1, <1>3, <1>10, <2>1 DEF CopiesRight, Due
<1>12. \A q \in Producers, s \in Stages : Copying(q, s)' <=> Copying(q, s)
  BY <1>1, <1>4, <1>10 DEF Copying
<1> QED BY <1>1, <1>4, <1>6, <1>7, <1>9, <1>11, <1>12, QuietStep DEF PipeInv

\* Stages and barriers a step does not touch.
LEMMA FullKept ==
  ASSUME PipeInv, NEW s \in Stages, full'[s] = full[s],
         \A c \in Consumers : /\ Taken(c)' <= Due(full[s], s) <=> Taken(c) <= Due(full[s], s)
                              /\ Taken(c)' >= Taken(c) /\ Taken(c)' \in Nat
  PROVE  FullAt(s)'
<1>1. Due(full[s], s)' = Due(full[s], s)
  BY DEF Due
<1>2. FullAt(s)
  BY DEF PipeInv
<1>3. \A c \in Consumers : Taken(c)' > Due(full[s], s) - NumStages
  BY <1>2, Numbers DEF FullAt
<1>4. {c \in Consumers : Taken(c)' <= Due(full[s], s)} = {c \in Consumers : Taken(c) <= Due(full[s], s)}
  OBVIOUS
<1> QED BY <1>1, <1>2, <1>3, <1>4 DEF FullAt

LEMMA EmptyKept ==
  ASSUME PipeInv, NEW s \in Stages, empty'[s] = empty[s], smem'[s] = smem[s],
         \A p \in Producers : /\ Sent(p)' <= Due(empty[s], s) <=> Sent(p) <= Due(empty[s], s)
                              /\ Sent(p)' >= Sent(p) /\ Sent(p)' \in Nat
                              /\ Copying(p, s)' <=> Copying(p, s)
  PROVE  EmptyAt(s)' /\ StoredAt(s)'
<1>1. Due(empty[s], s)' = Due(empty[s], s)
  BY DEF Due
<1>2. EmptyAt(s) /\ StoredAt(s)
  BY DEF PipeInv
<1>3. \A p \in Producers : /\ Sent(p)' > Due(empty[s], s) - NumStages
                           /\ Sent(p)' > Due(empty[s], s) <=> Sent(p) > Due(empty[s], s)
  BY <1>2, Numbers DEF EmptyAt
<1>4. /\ {p \in Producers : Sent(p)' <= Due(empty[s], s)} = {p \in Producers : Sent(p) <= Due(empty[s], s)}
      /\ {p \in Producers : Copying(p, s)'} = {p \in Producers : Copying(p, s)}
  OBVIOUS
<1>5. EmptyAt(s)'
  BY <1>1, <1>2, <1>3, <1>4 DEF EmptyAt
<1>6. StoredAt(s)'
  BY <1>1, <1>2, <1>3 DEF StoredAt
<1> QED BY <1>5, <1>6

LEMMA NextDue ==
  ASSUME NEW bar \in Barrier, NEW other \in Barrier, other.turns = bar.turns + 1, NEW s \in Stages
  PROVE  Due(other, s) = Due(bar, s) + NumStages
<1>1. PICK n \in Nat : n = NumStages /\ s \in Nat
  BY StagesAssumption DEF Stages
<1>2. PICK T \in Nat : T = bar.turns
  BY DEF Barrier
<1>3. (T + 1) * n = T * n + n /\ T * n \in Nat
  BY <1>1
<1> QED BY <1>1, <1>2, <1>3 DEF Due

LEMMA ExpectInv ==
  ASSUME PipeInv, NEW p \in Producers, Expect(p)
  PROVE  PipeInv'
<1>1. /\ Goto(p, "copy") /\ UNCHANGED <<full, stage, phase, tile, copies, smem>>
      /\ pc[p] = "expect"
  BY DEF Expect
<1>2. /\ NumTiles \in Nat /\ NumStages \in Nat \ {0} /\ tile[p] \in Nat /\ p \in Agents
      /\ p \notin Consumers
  BY Numbers, StagesAssumption DEF Agents
<1>3. Types /\ Places /\ Flow /\ CopiesRight
  BY DEF PipeInv
<1>4. PICK j \in Nat, s \in Stages : j = tile[p] /\ s = stage[p] /\ s = j % NumStages
  BY <1>2, Numbers
<1>5. Due(empty[s], s) = j /\ j < NumTiles
  BY <1>1, <1>3, <1>4, ExpectTurn DEF Types
<1>6. /\ pc'[p] = "copy" /\ \A u \in Agents : u # p => pc'[u] = pc[u]
      /\ DOMAIN pc' = Agents /\ pc' = [u \in Agents |-> pc'[u]]
  BY <1>1, <1>2, <1>3, GotoIs
<1>7. \A u \in Agents : u # p => Sent(u)' = Sent(u) /\ Begun(u)' = Begun(u) /\ Taken(u)' = Taken(u)
  BY <1>1, <1>6, SameFor
<1>8. Sent(p) = j /\ Sent(p)' = j + 1 /\ Begun(p)' = Begun(p)
  BY <1>1, <1>2, <1>4, <1>5, <1>6 DEF Sent, Begun
<1>9. PICK bar \in Barrier : bar = empty[s]
  BY Numbers
<1>10. EmptyAt(s) /\ StoredAt(s)
  BY DEF PipeInv
<1>11. bar.pending - 1 \in Nat /\ bar.tx + 1 \in Nat \ {0}
  <2>1. p \in {q \in Producers : Sent(q) <= Due(empty[s], s)}
    BY <1>4, <1>5, <1>8
  <2>2. bar.pending # 0 /\ bar.pending \in Nat
    BY <1>9, <1>10, <2>1, StagesAssumption, SomeoneLeft DEF EmptyAt
  <2> QED BY <2>2 DEF Barrier
<1>12. PICK new : new = Settled(bar, 1, 1, EmptyCount)
  OBVIOUS
<1>13. /\ new \in Barrier /\ new.turns = bar.turns
       /\ new.pending = bar.pending - 1 /\ new.tx = bar.tx + 1
       /\ empty' = [empty EXCEPT ![s] = new]
  <2>1. new = [turns |-> bar.turns, pending |-> bar.pending - 1, tx |-> bar.tx + 1]
    BY <1>11, <1>12 DEF Settled
  <2>2. bar.turns \in Nat
    BY <1>9 DEF Barrier
  <2>3. empty' = [empty EXCEPT ![s] = new]
    BY <1>4, <1>9, <1>12 DEF Expect
  <2> QED BY <1>11, <2>1, <2>2, <2>3 DEF Barrier
<1>14. /\ empty' \in [Stages -> Barrier] /\ empty'[s] = new
       /\ \A z \in Stages : z # s => empty'[z] = empty[z]
  BY <1>3, <1>13 DEF Types
<1>15. \A z \in Stages : Due(empty[z], z)' = Due(empty[z], z) /\ Due(full[z], z)' = Due(full[z], z)
  BY <1>1, <1>9, <1>13, <1>14 DEF Due
<1>16. Types'
  <2>1. \A q \in Producers : /\ pc'[q] \in {"acquire", "expect", "copy", "advance"}
                             /\ pc'[q] \in {"expect", "copy"} => tile[q] < NumTiles
    BY <1>3, <1>4, <1>5, <1>6 DEF Types, Agents
  <2>2. \A c \in Consumers : /\ pc'[c] \in {"acquire", "read", "release", "advance"}
                             /\ tile[c] <= NumTiles
                             /\ pc'[c] # "acquire" => tile[c] < NumTiles
    BY <1>2, <1>3, <1>6 DEF Types, Agents
  <2> QED BY <1>1, <1>3, <1>6, <1>14, <2>1, <2>2 DEF Types
<1>17. Places'
  BY <1>1, <1>3 DEF Places, InitialPhase
<1>18. /\ \A c \in Consumers : Taken(c)' = Taken(c) /\ Begun(c)' = Begun(c)
       /\ \A q \in Producers : Begun(q)' = Begun(q)
  BY <1>2, <1>7, <1>8 DEF Agents
<1>19. Flow'
  BY <1>3, <1>15, <1>18 DEF Flow
<1>20. CopiesRight'
  <2>1. ASSUME NEW q \in Producers, pc'[q] = "copy"
        PROVE  tile[q] = Due(empty[stage[q]], stage[q])'
    <3>1. q \in Agents /\ stage[q] \in Stages
      BY Numbers DEF Agents
    <3>2. Due(empty[stage[q]], stage[q])' = Due(empty[stage[q]], stage[q])
      BY <1>1, <1>15, <3>1 DEF Due
    <3>3. CASE q = p
      BY <1>4, <1>5, <3>2, <3>3
    <3>4. CASE q # p
      BY <1>3, <1>6, <2>1, <3>1, <3>2, <3>4 DEF CopiesRight
    <3> QED BY <3>3, <3>4
  <2>2. ASSUME NEW copy \in copies
        PROVE  /\ copy.tile = Due(empty[copy.stage], copy.stage)'
               /\ copy.tile < tile[copy.by] + (IF pc'[copy.by] = "advance" THEN 1 ELSE 0)
    <3>1. /\ copy.tile = Due(empty[copy.stage], copy.stage)
          /\ copy.tile < tile[copy.by] + (IF pc[copy.by] = "advance" THEN 1 ELSE 0)
          /\ copy.by \in Agents /\ copy.tile \in Nat /\ copy.stage \in Stages
      BY <1>3, CopyIs
    <3>2. pc'[copy.by] = "advance" <=> pc[copy.by] = "advance"
      BY <1>1, <1>6, <3>1
    <3> QED BY <1>15, <3>1, <3>2
  <2> QED BY <1>1, <2>1, <2>2 DEF CopiesRight
<1>21. \A z \in Stages : FullAt(z)'
  BY <1>1, <1>18, Numbers, FullKept
<1>22. \A z \in Stages : z # s => Due(empty[z], z) # j
  BY <1>4, Numbers, BarrierTile
<1>23. \A q \in Producers, z \in Stages : Copying(q, z)' <=> Copying(q, z) \/ (q = p /\ z = s)
  <2> SUFFICES ASSUME NEW q \in Producers, NEW z \in Stages
               PROVE  Copying(q, z)' <=> Copying(q, z) \/ (q = p /\ z = s)
    OBVIOUS
  <2>1. CASE q # p
    BY <1>1, <1>6, <1>15, <2>1 DEF Copying, Agents
  <2>2. CASE q = p /\ z = s
    BY <1>1, <1>4, <1>5, <1>6, <1>15, <2>2 DEF Copying
  <2>3. CASE q = p /\ z # s
    BY <1>1, <1>4, <1>6, <1>15, <1>22, <2>3 DEF Copying
  <2> QED BY <2>1, <2>2, <2>3
<1>24. \A z \in Stages : z # s => EmptyAt(z)' /\ StoredAt(z)'
  <2> SUFFICES ASSUME NEW z \in Stages, z # s PROVE EmptyAt(z)' /\ StoredAt(z)'
    OBVIOUS
  <2>1. \A q \in Producers : /\ Sent(q)' <= Due(empty[z], z) <=> Sent(q) <= Due(empty[z], z)
                             /\ Sent(q)' >= Sent(q) /\ Sent(q)' \in Nat
    <3> SUFFICES ASSUME NEW q \in Producers
                 PROVE  /\ Sent(q)' <= Due(empty[z], z) <=> Sent(q) <= Due(empty[z], z)
                        /\ Sent(q)' >= Sent(q) /\ Sent(q)' \in Nat
      OBVIOUS
    <3>1. Due(empty[z], z) # j /\ Due(empty[z], z) \in Nat /\ Sent(q) \in Nat
      BY <1>22, Numbers
    <3>2. CASE q = p
      BY <1>8, <3>1, <3>2
    <3>3. CASE q # p
      BY <1>7, <3>1, <3>3 DEF Agents
    <3> QED BY <3>2, <3>3
  <2> QED BY <1>1, <1>14, <1>23, <2>1, EmptyKept
<1>25. EmptyAt(s)'
  <2>1. ~Copying(p, s)
    <3>1. [by |-> p, stage |-> s, tile |-> j] \notin copies
      <4> SUFFICES ASSUME NEW copy \in copies, copy.by = p, copy.tile = j PROVE FALSE
        OBVIOUS
      <4> QED BY <1>1, <1>3, <1>4 DEF CopiesRight
    <3> QED BY <1>1, <1>5, <3>1 DEF Copying
  <2>2. {q \in Producers : Sent(q)' <= j} = {q \in Producers : Sent(q) <= j} \ {p}
    BY <1>7, <1>8 DEF Agents
  <2>3. {q \in Producers : Copying(q, s)'} = {q \in Producers : Copying(q, s)} \cup {p}
    BY <1>23
  <2>4. Cardinality({q \in Producers : Sent(q)' <= j}) = bar.pending - 1
    <3>1. PICK A : A = {q \in Producers : Sent(q) <= j}
      OBVIOUS
    <3>2. Cardinality(A) = bar.pending /\ A \subseteq Producers /\ p \in A
      BY <1>5, <1>8, <1>9, <1>10, <3>1 DEF EmptyAt
    <3>3. Cardinality(A \ {p}) = bar.pending - 1
      BY <3>2, StagesAssumption, SomeoneLeft
    <3> QED BY <2>2, <3>1, <3>3
  <2>5. Cardinality({q \in Producers : Copying(q, s)'}) = bar.tx + 1
    <3>1. PICK A : A = {q \in Producers : Copying(q, s)}
      OBVIOUS
    <3>2. Cardinality(A) = bar.tx /\ A \subseteq Producers /\ p \in Producers \ A
      BY <1>9, <1>10, <2>1, <3>1 DEF EmptyAt
    <3>3. Cardinality(A \cup {p}) = bar.tx + 1
      BY <3>2, StagesAssumption, SomeoneLeft
    <3> QED BY <2>3, <3>1, <3>3
  <2>6. \A q \in Producers : Sent(q)' > j - NumStages
    <3>1. \A q \in Producers : Sent(q) > j - NumStages
      BY <1>5, <1>10 DEF EmptyAt
    <3> QED BY <1>2, <1>7, <1>8, <3>1 DEF Agents
  <2>7. Due(empty[s], s)' = j
    BY <1>5, <1>15
  <2>8. empty'[s].pending = bar.pending - 1 /\ empty'[s].tx = bar.tx + 1 /\ empty'[s].tx # 0
    BY <1>11, <1>13, <1>14
  <2> QED BY <2>4, <2>5, <2>6, <2>7, <2>8 DEF EmptyAt
<1>26. StoredAt(s)'
  <2> SUFFICES ASSUME NEW q \in Producers
               PROVE  smem[s][q] = IF Sent(q)' > j /\ ~Copying(q, s)' THEN j
                                   ELSE IF bar.turns > 0 THEN j - NumStages ELSE Nothing
    BY <1>1, <1>5, <1>13, <1>14, <1>15 DEF StoredAt
  <2>1. smem[s][q] = IF Sent(q) > j /\ ~Copying(q, s) THEN j
                     ELSE IF bar.turns > 0 THEN j - NumStages ELSE Nothing
    BY <1>5, <1>9, <1>10 DEF StoredAt
  <2>2. CASE q = p
    BY <1>8, <1>23, <2>1, <2>2
  <2>3. CASE q # p
    BY <1>7, <1>23, <2>1, <2>3 DEF Agents
  <2> QED BY <2>2, <2>3
<1> QED BY <1>16, <1>17, <1>19, <1>20, <1>21, <1>24, <1>25, <1>26 DEF PipeInv

LEMMA ReleaseInv ==
  ASSUME PipeInv, NEW c \in Consumers, Release(c)
  PROVE  PipeInv'
<1>1. /\ Goto(c, "advance") /\ UNCHANGED <<empty, stage, phase, tile, copies, smem>>
      /\ pc[c] = "release"
  BY DEF Release
<1>2. /\ NumTiles \in Nat /\ NumStages \in Nat \ {0} /\ tile[c] \in Nat /\ c \in Agents
      /\ c \notin Producers
  BY Numbers, StagesAssumption DEF Agents
<1>3. Types /\ Places /\ Flow /\ CopiesRight
  BY DEF PipeInv
<1>4. PICK j \in Nat, s \in Stages : j = tile[c] /\ s = stage[c] /\ s = j % NumStages
  BY <1>2, Numbers
<1>5. Due(full[s], s) = j /\ j < NumTiles
  BY <1>1, <1>3, <1>4, ReleaseTurn DEF Types
<1>6. /\ pc'[c] = "advance" /\ \A u \in Agents : u # c => pc'[u] = pc[u]
      /\ DOMAIN pc' = Agents /\ pc' = [u \in Agents |-> pc'[u]]
  BY <1>1, <1>2, <1>3, GotoIs
<1>7. \A u \in Agents : u # c => Sent(u)' = Sent(u) /\ Begun(u)' = Begun(u) /\ Taken(u)' = Taken(u)
  BY <1>1, <1>6, SameFor
<1>8. Taken(c) = j /\ Taken(c)' = j + 1 /\ Begun(c)' = Begun(c)
  BY <1>1, <1>2, <1>4, <1>6 DEF Taken, Begun
<1>9. PICK bar \in Barrier : bar = full[s]
  BY Numbers
<1>10. FullAt(s)
  BY DEF PipeInv
<1>11. PICK Waiting : Waiting = {d \in Consumers : Taken(d) <= j}
  OBVIOUS
<1>12. /\ Waiting \subseteq Consumers /\ c \in Waiting /\ Cardinality(Waiting) = bar.pending
       /\ {d \in Consumers : Taken(d)' <= j} = Waiting \ {c}
       /\ Cardinality(Waiting \ {c}) = bar.pending - 1 /\ bar.pending - 1 \in Nat /\ bar.tx = 0
       /\ bar.pending = 1 => Waiting \ {c} = {}
  <2>1. Waiting \subseteq Consumers /\ c \in Waiting /\ Cardinality(Waiting) = bar.pending /\ bar.tx = 0
    BY <1>5, <1>8, <1>9, <1>10, <1>11 DEF FullAt
  <2>2. {d \in Consumers : Taken(d)' <= j} = Waiting \ {c}
    BY <1>7, <1>8, <1>11 DEF Agents
  <2>3. Cardinality(Waiting \ {c}) = bar.pending - 1
    <3>1. Waiting \subseteq Consumers /\ IsFiniteSet(Consumers)
      BY <2>1, StagesAssumption
    <3>2. \A x \in Waiting : Cardinality(Waiting \ {x}) = Cardinality(Waiting) - 1
      BY <3>1, SomeoneLeft
    <3> QED BY <2>1, <3>2
  <2>4. /\ Cardinality(Waiting \ {c}) \in Nat
        /\ Cardinality(Waiting \ {c}) = 0 => Waiting \ {c} = {}
    <3>1. PICK Rest : Rest = Waiting \ {c} /\ Rest \subseteq Consumers
      BY <2>1
    <3> QED BY <3>1, StagesAssumption, SomeoneLeft
  <2> QED BY <1>9, <2>1, <2>2, <2>3, <2>4 DEF Barrier
<1>13. PICK new : new = Settled(bar, 1, 0, FullCount)
  OBVIOUS
<1>14. /\ new \in Barrier /\ full' = [full EXCEPT ![s] = new]
       /\ bar.pending # 1 => /\ new.turns = bar.turns
                             /\ new.pending = bar.pending - 1 /\ new.tx = 0
       /\ bar.pending = 1 => /\ new.turns = bar.turns + 1
                             /\ new.pending = Cardinality(Consumers) /\ new.tx = 0
  <2>1. full' = [full EXCEPT ![s] = new]
    BY <1>4, <1>9, <1>13 DEF Release
  <2>2. bar.turns \in Nat /\ Cardinality(Consumers) \in Nat
    BY <1>9, StagesAssumption, FS_CardinalityType DEF Barrier
  <2>3. CASE bar.pending = 1
    <3>1. new = [turns |-> bar.turns + 1, pending |-> Cardinality(Consumers), tx |-> 0]
      BY <1>12, <1>13, <2>3 DEF Settled, FullCount
    <3> QED BY <2>1, <2>2, <2>3, <3>1 DEF Barrier
  <2>4. CASE bar.pending # 1
    <3>1. new = [turns |-> bar.turns, pending |-> bar.pending - 1, tx |-> 0]
      BY <1>12, <1>13, <2>4 DEF Settled
    <3> QED BY <1>12, <2>1, <2>2, <2>4, <3>1 DEF Barrier
  <2> QED BY <2>3, <2>4
<1>15. /\ full' \in [Stages -> Barrier] /\ full'[s] = new
       /\ \A z \in Stages : z # s => full'[z] = full[z]
  BY <1>3, <1>14 DEF Types
<1>16. \A z : Due(empty[z], z)' = Due(empty[z], z)
  BY <1>1 DEF Due
<1>17. Types'
  <2>1. \A q \in Producers : /\ pc'[q] \in {"acquire", "expect", "copy", "advance"}
                             /\ pc'[q] \in {"expect", "copy"} => tile[q] < NumTiles
    BY <1>2, <1>3, <1>6 DEF Types, Agents
  <2>2. \A d \in Consumers : /\ pc'[d] \in {"acquire", "read", "release", "advance"}
                             /\ tile[d] <= NumTiles
                             /\ pc'[d] # "acquire" => tile[d] < NumTiles
    BY <1>3, <1>4, <1>5, <1>6 DEF Types, Agents
  <2> QED BY <1>1, <1>3, <1>6, <1>15, <2>1, <2>2 DEF Types
<1>18. Places'
  BY <1>1, <1>3 DEF Places, InitialPhase
<1>19. /\ \A q \in Producers : Sent(q)' = Sent(q) /\ Begun(q)' = Begun(q) /\ pc'[q] = pc[q]
       /\ \A d \in Consumers : Begun(d)' = Begun(d)
  BY <1>2, <1>6, <1>7, <1>8 DEF Agents
<1>20. \A d \in Consumers : Taken(d)' >= Taken(d) /\ Taken(d)' \in Nat
  <2> SUFFICES ASSUME NEW d \in Consumers PROVE Taken(d)' >= Taken(d) /\ Taken(d)' \in Nat
    OBVIOUS
  <2>1. CASE d = c
    BY <1>8, <2>1
  <2>2. CASE d # c
    BY <1>7, <2>2, Numbers DEF Agents
  <2> QED BY <2>1, <2>2
<1>21. Flow'
  <2>1. ASSUME NEW q \in Producers, NEW d \in Consumers
        PROVE  Begun(q)' <= Taken(d)' + NumStages
    <3>1. Begun(q) <= Taken(d) + NumStages
      BY Order
    <3> QED BY <1>2, <1>19, <1>20, <3>1, Numbers
  <2>2. \A d \in Consumers, z \in Stages : Begun(d)' <= Due(empty[z], z)'
    BY <1>3, <1>16, <1>19 DEF Flow
  <2> QED BY <2>1, <2>2 DEF Flow
<1>22. CopiesRight'
  <2>1. \A copy \in copies : copy.by \in Producers
    BY <1>3 DEF Types
  <2> QED BY <1>1, <1>3, <1>19, <2>1 DEF CopiesRight, Due
<1>23. \A z \in Stages : EmptyAt(z)' /\ StoredAt(z)'
  <2>1. \A q \in Producers, z \in Stages : Copying(q, z)' <=> Copying(q, z)
    BY <1>1, <1>16, <1>19 DEF Copying
  <2>2. \A q \in Producers : Sent(q)' >= Sent(q) /\ Sent(q)' \in Nat
    BY <1>19, Numbers
  <2> QED BY <1>1, <1>19, <2>1, <2>2, EmptyKept
<1>24. \A z \in Stages : z # s => FullAt(z)'
  <2> SUFFICES ASSUME NEW z \in Stages, z # s PROVE FullAt(z)'
    OBVIOUS
  <2>1. Due(full[z], z) # j /\ Due(full[z], z) \in Nat
    BY <1>4, Numbers, BarrierTile
  <2>2. \A d \in Consumers : Taken(d)' <= Due(full[z], z) <=> Taken(d) <= Due(full[z], z)
    <3> SUFFICES ASSUME NEW d \in Consumers
                 PROVE  Taken(d)' <= Due(full[z], z) <=> Taken(d) <= Due(full[z], z)
      OBVIOUS
    <3>1. CASE d = c
      BY <1>8, <2>1, <3>1
    <3>2. CASE d # c
      BY <1>7, <3>2 DEF Agents
    <3> QED BY <3>1, <3>2
  <2> QED BY <1>15, <1>20, <2>2, FullKept
<1>25. FullAt(s)'
  <2>1. CASE bar.pending # 1
    <3>1. Due(full[s], s)' = j
      BY <1>5, <1>9, <1>14, <1>15, <2>1 DEF Due
    <3>2. \A d \in Consumers : Taken(d)' > j - NumStages
      BY <1>2, <1>5, <1>10, <1>20, Numbers DEF FullAt
    <3>3. /\ full'[s].pending = Cardinality({d \in Consumers : Taken(d)' <= j})
          /\ full'[s].pending # 0 /\ full'[s].tx = 0
      <4>1. full'[s].pending = bar.pending - 1 /\ full'[s].tx = 0 /\ bar.pending \in Nat
        BY <1>9, <1>14, <1>15, <2>1 DEF Barrier
      <4>2. Cardinality({d \in Consumers : Taken(d)' <= j}) = bar.pending - 1
        BY <1>12
      <4> QED BY <2>1, <4>1, <4>2
    <3> QED BY <3>1, <3>2, <3>3 DEF FullAt
  <2>2. CASE bar.pending = 1
    <3>1. Due(full[s], s)' = j + NumStages
      <4>1. Due(new, s) = Due(bar, s) + NumStages
        BY <1>9, <1>14, <2>2, NextDue
      <4> QED BY <1>5, <1>9, <1>15, <4>1 DEF Due
    <3>2. \A d \in Consumers : Taken(d)' > j
      BY <1>2, <1>12, <1>20, <2>2
    <3>3. \A d \in Consumers : Taken(d)' <= j + NumStages
      <4> SUFFICES ASSUME NEW d \in Consumers PROVE Taken(d)' <= j + NumStages
        OBVIOUS
      <4>1. CASE d = c
        BY <1>2, <1>8, <4>1
      <4>2. CASE d # c
        <5>1. PICK p \in Producers : TRUE
          BY StagesAssumption
        <5>2. /\ Taken(d) <= Begun(d) /\ Begun(d) <= Sent(p) /\ Sent(p) <= Begun(p)
              /\ Begun(p) <= Taken(c) + NumStages
          BY Order
        <5> QED BY <1>2, <1>7, <1>8, <4>2, <5>2, Numbers DEF Agents
      <4> QED BY <4>1, <4>2
    <3>4. {d \in Consumers : Taken(d)' <= j + NumStages} = Consumers
      BY <3>3
    <3>5. Cardinality(Consumers) # 0
      BY StagesAssumption, FS_EmptySet
    <3>6. \A d \in Consumers : Taken(d)' > (j + NumStages) - NumStages
      BY <1>2, <3>2
    <3> QED BY <1>14, <1>15, <2>2, <3>1, <3>4, <3>5, <3>6 DEF FullAt
  <2> QED BY <2>1, <2>2
<1> QED BY <1>17, <1>18, <1>21, <1>22, <1>23, <1>24, <1>25 DEF PipeInv

LEMMA CopyDoneInv ==
  ASSUME PipeInv, NEW copy \in copies, CopyDone(copy)
  PROVE  PipeInv'
<1>1. /\ UNCHANGED <<full, stage, phase, pc, tile>>
      /\ copies' = copies \ {copy}
  BY DEF CopyDone
<1>2. Types /\ Places /\ Flow /\ CopiesRight
  BY DEF PipeInv
<1>3. PICK p \in Producers, s \in Stages, j \in Nat :
         /\ p = copy.by /\ s = copy.stage /\ j = copy.tile /\ j < NumTiles
         /\ copy = [by |-> p, stage |-> s, tile |-> j] /\ Due(empty[s], s) = j
         /\ j < tile[p] + (IF pc[p] = "advance" THEN 1 ELSE 0)
  BY <1>2, CopyIs
<1>4. NumTiles \in Nat /\ NumStages \in Nat \ {0} /\ tile[p] \in Nat /\ p \in Agents
  BY Numbers DEF Agents
<1>5. PICK bar \in Barrier : bar = empty[s]
  BY Numbers
<1>6. EmptyAt(s) /\ StoredAt(s)
  BY DEF PipeInv
<1>7. \A u : Sent(u)' = Sent(u) /\ Begun(u)' = Begun(u) /\ Taken(u)' = Taken(u)
  BY <1>1, SameFor
<1>8. Copying(p, s) /\ Sent(p) > j /\ ~(pc[p] = "copy" /\ tile[p] = j)
  BY <1>3, <1>4 DEF Copying, Sent
<1>9. PICK Landing : Landing = {q \in Producers : Copying(q, s)}
  OBVIOUS
<1>10. /\ p \in Landing /\ Cardinality(Landing \ {p}) = bar.tx - 1 /\ bar.tx - 1 \in Nat
       /\ bar.tx = 1 => Landing \ {p} = {}
  <2>1. Landing \subseteq Producers /\ p \in Landing /\ Cardinality(Landing) = bar.tx
    BY <1>5, <1>6, <1>8, <1>9 DEF EmptyAt
  <2>2. PICK Rest : Rest = Landing \ {p} /\ Rest \subseteq Producers
    BY <2>1
  <2>3. \A x \in Landing : Cardinality(Landing \ {x}) = Cardinality(Landing) - 1
    BY <2>1, StagesAssumption, SomeoneLeft
  <2>4. Cardinality(Rest) \in Nat /\ (Cardinality(Rest) = 0 => Rest = {})
    BY <2>2, StagesAssumption, SomeoneLeft
  <2>5. bar.tx \in Nat
    BY <1>5 DEF Barrier
  <2> QED BY <2>1, <2>2, <2>3, <2>4, <2>5
<1>11. PICK new : new = Settled(bar, 0, -1, EmptyCount)
  OBVIOUS
<1>12. PICK done \in BOOLEAN : done <=> bar.pending = 0 /\ bar.tx = 1
  OBVIOUS
<1>13. /\ new \in Barrier
       /\ ~done => /\ new.turns = bar.turns /\ new.pending = bar.pending /\ new.tx = bar.tx - 1
                   /\ new.pending # 0 \/ new.tx # 0
       /\ done => /\ new.turns = bar.turns + 1
                  /\ new.pending = Cardinality(Producers) /\ new.tx = 0
                  /\ Cardinality(Producers) # 0
  <2>1. /\ bar.turns \in Nat /\ bar.pending \in Nat /\ bar.tx \in Nat
        /\ Cardinality(Producers) \in Nat \ {0}
    BY <1>5, StagesAssumption, FS_CardinalityType, FS_EmptySet DEF Barrier
  <2>2. CASE done
    <3>1. bar.pending = 0 /\ bar.tx + (-1) = 0
      BY <1>12, <2>2
    <3>2. new = [turns |-> bar.turns + 1, pending |-> Cardinality(Producers), tx |-> 0]
      BY <1>11, <3>1 DEF Settled, EmptyCount
    <3> QED BY <2>1, <2>2, <3>2 DEF Barrier
  <2>3. CASE ~done
    <3>1. ~(bar.pending = 0 /\ bar.tx + (-1) = 0)
      BY <1>12, <2>1, <2>3
    <3>2. new = [turns |-> bar.turns, pending |-> bar.pending - 0, tx |-> bar.tx + (-1)]
      BY <1>11, <3>1 DEF Settled
    <3>3. new = [turns |-> bar.turns, pending |-> bar.pending, tx |-> bar.tx - 1]
      BY <2>1, <3>2
    <3> QED BY <1>10, <1>12, <2>1, <2>3, <3>3 DEF Barrier
  <2> QED BY <2>2, <2>3
<1>14. /\ empty' \in [Stages -> Barrier] /\ empty'[s] = new
       /\ \A z \in Stages : z # s => empty'[z] = empty[z]
  <2>1. empty' = [empty EXCEPT ![s] = new]
    BY <1>3, <1>5, <1>11 DEF CopyDone
  <2> QED BY <1>2, <1>13, <2>1 DEF Types
<1>15. /\ smem' \in [Stages -> [Producers -> Nat \cup {Nothing}]]
       /\ smem'[s][p] = j /\ \A q \in Producers : q # p => smem'[s][q] = smem[s][q]
       /\ \A z \in Stages : z # s => smem'[z] = smem[z]
  <2>1. smem' = [smem EXCEPT ![s][p] = j]
    BY <1>3 DEF CopyDone
  <2> QED BY <1>2, <2>1 DEF Types
<1>16. /\ \A z \in Stages : z # s => Due(empty[z], z)' = Due(empty[z], z)
       /\ ~done => Due(empty[s], s)' = j
       /\ done => Due(empty[s], s)' = j + NumStages
  <2>1. \A z \in Stages : z # s => Due(empty[z], z)' = Due(empty[z], z)
    BY <1>14 DEF Due
  <2>2. ~done => Due(empty[s], s)' = j
    BY <1>3, <1>5, <1>13, <1>14 DEF Due
  <2>3. done => Due(new, s) = Due(bar, s) + NumStages
    BY <1>5, <1>13, NextDue
  <2>4. done => Due(empty[s], s)' = j + NumStages
    BY <1>3, <1>5, <1>14, <2>3 DEF Due
  <2> QED BY <2>1, <2>2, <2>4
<1>17. Types'
  <2>1. copies' \subseteq [by : Producers, stage : Stages, tile : Tiles]
    BY <1>1, <1>2 DEF Types
  <2> QED BY <1>1, <1>2, <1>14, <1>15, <2>1 DEF Types
<1>18. Places'
  BY <1>1, <1>2 DEF Places, InitialPhase
<1>19. Flow'
  <2>1. \A q \in Producers, c \in Consumers : Begun(q)' <= Taken(c)' + NumStages
    BY <1>2, <1>7 DEF Flow
  <2>2. ASSUME NEW c \in Consumers, NEW z \in Stages PROVE Begun(c)' <= Due(empty[z], z)'
    <3>1. Begun(c) <= Due(empty[z], z) /\ Begun(c) \in Nat
      BY <1>2, Numbers DEF Flow
    <3>2. CASE z # s
      BY <1>7, <1>16, <3>1, <3>2
    <3>3. CASE z = s
      BY <1>3, <1>4, <1>7, <1>16, <3>1, <3>3
    <3> QED BY <3>2, <3>3
  <2> QED BY <2>1, <2>2 DEF Flow
<1>20. \A z \in Stages : FullAt(z)'
  BY <1>1, <1>7, Numbers, FullKept
<1>21. \A q \in Producers, z \in Stages : z # s => (Copying(q, z)' <=> Copying(q, z))
  <2> SUFFICES ASSUME NEW q \in Producers, NEW z \in Stages, z # s
               PROVE  Copying(q, z)' <=> Copying(q, z)
    OBVIOUS
  <2>1. [by |-> q, stage |-> z, tile |-> Due(empty[z], z)] # copy
    BY <1>3
  <2> QED BY <1>1, <1>16, <2>1 DEF Copying
<1>22. \A z \in Stages : z # s => EmptyAt(z)' /\ StoredAt(z)'
  BY <1>7, <1>14, <1>15, <1>21, Numbers, EmptyKept
<1>23. \A q \in Producers : Copying(q, s) <=> \/ pc[q] = "copy" /\ tile[q] = j
                                              \/ [by |-> q, stage |-> s, tile |-> j] \in copies
  BY <1>3 DEF Copying
<1>24. ASSUME done
       PROVE  /\ \A q \in Producers : Copying(q, s) => q = p
              /\ \A q \in Producers : Sent(q) > j /\ Sent(q) <= j + NumStages /\ ~Copying(q, s)'
  <2>1. \A q \in Producers : Copying(q, s) => q = p
    BY <1>9, <1>10, <1>12, <1>24
  <2>2. PICK c \in Consumers : TRUE
    BY StagesAssumption
  <2>3. Taken(c) <= Begun(c) /\ Begun(c) <= j
    BY <1>2, <1>3, Order DEF Flow
  <2>4. ASSUME NEW q \in Producers PROVE Sent(q) <= j + NumStages /\ Begun(q) <= j + NumStages
    <3>1. Sent(q) <= Begun(q) /\ Begun(q) <= Taken(c) + NumStages
      BY Order
    <3> QED BY <1>4, <2>3, <3>1, Numbers
  <2>5. \A q \in Producers : Sent(q) > j
    <3>1. PICK Left : Left = {q \in Producers : Sent(q) <= j}
      OBVIOUS
    <3>2. Cardinality(Left) = 0 /\ Left \subseteq Producers
      BY <1>3, <1>5, <1>6, <1>12, <1>24, <3>1 DEF EmptyAt
    <3>3. Left = {}
      BY <3>2, StagesAssumption, SomeoneLeft
    <3> QED BY <3>1, <3>3, Numbers
  <2>6. ASSUME NEW q \in Producers PROVE ~Copying(q, s)'
    <3>1. ~(pc[q] = "copy" /\ tile[q] = j + NumStages)
      <4>1. pc[q] = "copy" => Begun(q) = tile[q] + 1
        BY DEF Begun
      <4> QED BY <1>4, <2>4, <4>1, Numbers
    <3>2. [by |-> q, stage |-> s, tile |-> j + NumStages] \notin copies
      <4> SUFFICES ASSUME NEW other \in copies, other.stage = s, other.tile = j + NumStages
                   PROVE  FALSE
        OBVIOUS
      <4>1. other.tile = j
        BY <1>2, <1>3, CopyIs
      <4> QED BY <1>4, <4>1
    <3> QED BY <1>1, <1>16, <1>24, <3>1, <3>2 DEF Copying
  <2> QED BY <2>1, <2>4, <2>5, <2>6
<1>25. ASSUME ~done
       PROVE  \A q \in Producers : Copying(q, s)' <=> Copying(q, s) /\ q # p
  <2> SUFFICES ASSUME NEW q \in Producers
               PROVE  Copying(q, s)' <=> Copying(q, s) /\ q # p
    OBVIOUS
  <2>1. Copying(q, s)' <=> \/ pc[q] = "copy" /\ tile[q] = j
                           \/ [by |-> q, stage |-> s, tile |-> j] \in copies \ {copy}
    BY <1>1, <1>16, <1>25 DEF Copying
  <2>2. CASE q = p
    BY <1>3, <1>8, <2>1, <2>2
  <2>3. CASE q # p
    <3>1. [by |-> q, stage |-> s, tile |-> j] # copy
      BY <1>3, <2>3
    <3> QED BY <1>23, <2>1, <2>3, <3>1
  <2> QED BY <2>2, <2>3
<1>26. CopiesRight'
  <2>1. ASSUME NEW q \in Producers, pc[q] = "copy"
        PROVE  tile[q] = Due(empty[stage[q]], stage[q])'
    <3>1. PICK z \in Stages : z = stage[q] /\ tile[q] = Due(empty[z], z)
      BY <1>2, <2>1, Numbers DEF CopiesRight, Agents
    <3>2. Due(empty[stage[q]], stage[q])' = Due(empty[z], z)'
      BY <1>1, <3>1 DEF Due
    <3>3. CASE z # s
      BY <1>16, <3>1, <3>2, <3>3
    <3>4. CASE z = s
      <4>1. Copying(q, s) /\ q # p /\ tile[q] = j
        BY <1>3, <1>8, <1>23, <2>1, <3>1, <3>4
      <4>2. ~done
        BY <1>24, <4>1
      <4> QED BY <1>16, <3>2, <3>4, <4>1, <4>2
    <3> QED BY <3>3, <3>4
  <2>2. ASSUME NEW other \in copies, other # copy
        PROVE  other.tile = Due(empty[other.stage], other.stage)'
    <3>1. PICK z \in Stages : z = other.stage /\ other.tile = Due(empty[z], z)
      BY <1>2, CopyIs
    <3>2. Due(empty[other.stage], other.stage)' = Due(empty[z], z)'
      BY <3>1 DEF Due
    <3>3. CASE z # s
      BY <1>16, <3>1, <3>2, <3>3
    <3>4. CASE z = s
      <4>1. PICK q \in Producers : other = [by |-> q, stage |-> s, tile |-> j]
        BY <1>2, <1>3, <3>1, <3>4, CopyIs, ZenonT(60)
      <4>2. Copying(q, s) /\ q # p
        BY <1>3, <1>23, <2>2, <4>1
      <4>3. ~done
        BY <1>24, <4>2
      <4> QED BY <1>16, <3>2, <3>4, <4>1, <4>3
    <3> QED BY <3>3, <3>4
  <2>3. \A other \in copies :
            other.tile < tile[other.by] + (IF pc[other.by] = "advance" THEN 1 ELSE 0)
    BY <1>2 DEF CopiesRight
  <2> QED BY <1>1, <2>1, <2>2, <2>3 DEF CopiesRight
<1>27. EmptyAt(s)'
  <2>1. CASE done
    <3>1. {q \in Producers : Sent(q)' <= j + NumStages} = Producers
      BY <1>7, <1>24, <2>1
    <3>2. Cardinality({q \in Producers : Copying(q, s)'}) = 0
      <4>1. {q \in Producers : Copying(q, s)'} = {}
        BY <1>24, <2>1
      <4> QED BY <4>1, FS_EmptySet
    <3>3. \A q \in Producers : Sent(q)' > (j + NumStages) - NumStages
      BY <1>4, <1>7, <1>24, <2>1
    <3> QED BY <1>13, <1>14, <1>16, <2>1, <3>1, <3>2, <3>3 DEF EmptyAt
  <2>2. CASE ~done
    <3>1. {q \in Producers : Sent(q)' <= j} = {q \in Producers : Sent(q) <= j}
      BY <1>7
    <3>2. {q \in Producers : Copying(q, s)'} = Landing \ {p}
      BY <1>9, <1>25, <2>2
    <3>3. \A q \in Producers : Sent(q)' > j - NumStages
      BY <1>3, <1>6, <1>7 DEF EmptyAt
    <3>4. bar.pending = Cardinality({q \in Producers : Sent(q) <= j})
      BY <1>3, <1>5, <1>6 DEF EmptyAt
    <3> QED BY <1>10, <1>13, <1>14, <1>16, <2>2, <3>1, <3>2, <3>3, <3>4 DEF EmptyAt
  <2> QED BY <2>1, <2>2
<1>28. StoredAt(s)'
  <2>1. \A q \in Producers :
           smem[s][q] = IF Sent(q) > j /\ ~Copying(q, s) THEN j
                        ELSE IF bar.turns > 0 THEN j - NumStages ELSE Nothing
    BY <1>3, <1>5, <1>6 DEF StoredAt
  <2>2. CASE done
    <3> SUFFICES ASSUME NEW q \in Producers
                 PROVE  smem'[s][q] = IF Sent(q) > j + NumStages /\ ~Copying(q, s)' THEN j + NumStages
                                      ELSE IF new.turns > 0 THEN (j + NumStages) - NumStages ELSE Nothing
      BY <1>7, <1>14, <1>16, <2>2 DEF StoredAt
    <3>1. ~(Sent(q) > j + NumStages) /\ new.turns > 0 /\ (j + NumStages) - NumStages = j
      BY <1>4, <1>5, <1>13, <1>24, <2>2, Numbers DEF Barrier
    <3>2. smem'[s][q] = j
      BY <1>15, <1>24, <2>1, <2>2
    <3> QED BY <3>1, <3>2
  <2>3. CASE ~done
    <3> SUFFICES ASSUME NEW q \in Producers
                 PROVE  smem'[s][q] = IF Sent(q) > j /\ ~Copying(q, s)' THEN j
                                      ELSE IF bar.turns > 0 THEN j - NumStages ELSE Nothing
      BY <1>7, <1>13, <1>14, <1>16, <2>3 DEF StoredAt
    <3>1. CASE q = p
      BY <1>8, <1>15, <1>25, <2>3, <3>1
    <3>2. CASE q # p
      BY <1>15, <1>25, <2>1, <2>3, <3>2
    <3> QED BY <3>1, <3>2
  <2> QED BY <2>2, <2>3
<1> QED BY <1>17, <1>18, <1>19, <1>20, <1>22, <1>26, <1>27, <1>28 DEF PipeInv

LEMMA StutterInv ==
  ASSUME PipeInv, UNCHANGED vars
  PROVE  PipeInv'
<1>1. UNCHANGED <<full, empty, stage, phase, pc, tile, copies, smem>>
  BY DEF vars
<1>2. Types' /\ Places' /\ CopiesRight'
  BY <1>1 DEF PipeInv, Types, Places, CopiesRight, InitialPhase, Due
<1>3. \A u : Sent(u)' = Sent(u) /\ Begun(u)' = Begun(u) /\ Taken(u)' = Taken(u)
  BY <1>1, SameFor
<1>4. \A s : Due(empty[s], s)' = Due(empty[s], s)
  BY <1>1 DEF Due
<1>5. Flow'
  BY <1>3, <1>4 DEF PipeInv, Flow
<1>6. \A p \in Producers, s \in Stages : Copying(p, s)' <=> Copying(p, s)
  BY <1>1, <1>4 DEF Copying
<1> QED BY <1>1, <1>2, <1>3, <1>5, <1>6, QuietStep DEF PipeInv

LEMMA StepInv ==
  ASSUME PipeInv, [Next]_vars
  PROVE  PipeInv'
<1>1. ASSUME NEW p \in Producers, Producer(p) PROVE PipeInv'
  <2>1. p \in Agents
    BY DEF Agents
  <2>2. CASE ProducerAcquire(p) \/ ProducerDrain(p)
    BY <2>2, ProducerMoves
  <2>3. CASE Expect(p)
    BY <2>3, ExpectInv
  <2>4. CASE StartCopy(p)
    BY <2>4, StartCopyInv
  <2>5. CASE Advance(p)
    BY <2>1, <2>5, AdvanceInv
  <2> QED BY <1>1, <2>2, <2>3, <2>4, <2>5 DEF Producer
<1>2. ASSUME NEW c \in Consumers, Consumer(c) PROVE PipeInv'
  <2>1. c \in Agents
    BY DEF Agents
  <2>2. CASE ConsumerAcquire(c) \/ Read(c)
    BY <2>2, ConsumerMoves
  <2>3. CASE Release(c)
    BY <2>3, ReleaseInv
  <2>4. CASE Advance(c)
    BY <2>1, <2>4, AdvanceInv
  <2> QED BY <1>2, <2>2, <2>3, <2>4 DEF Consumer
<1>3. CASE CopyEngine
  BY <1>3, CopyDoneInv DEF CopyEngine
<1>4. CASE UNCHANGED vars
  BY <1>4, StutterInv
<1> QED BY <1>1, <1>2, <1>3, <1>4 DEF Next

\* What _full_barriers and _empty_barriers count, and what the stages hold, agrees
\* with the tiles of the threads in every state, for any numbers of them.
THEOREM PipelineInvariant == Spec => []PipeInv
<1>1. Init => PipeInv
  BY InitInv
<1>2. PipeInv /\ [Next]_vars => PipeInv'
  BY StepInv
<1> QED BY <1>1, <1>2, PTL DEF Spec
-----------------------------------------------------------------------------
(* What it means for the threads. *)

LEMMA StageOfTile ==
  ASSUME PipeInv, NEW c \in Consumers, pc[c] \in {"read", "release"}
  PROVE  /\ Due(empty[stage[c]], stage[c]) = tile[c] + NumStages
         /\ stage[c] \in Stages /\ Taken(c) = tile[c] /\ tile[c] \in Nat
         /\ \A p \in Producers : Begun(p) <= tile[c] + NumStages /\ Sent(p) <= tile[c] + NumStages
<1>1. /\ Due(empty[stage[c]], stage[c]) = tile[c] + NumStages
      /\ stage[c] \in Stages /\ Taken(c) = tile[c] /\ tile[c] \in Nat
  BY ConsumerTurn, Numbers DEF Taken, Agents
<1>2. \A p \in Producers : Sent(p) <= Begun(p) /\ Begun(p) <= Taken(c) + NumStages
  BY Order
<1> QED BY <1>1, <1>2, Numbers

\* A consumer that has passed consumer_acquire and not yet arrived finds every part
\* of its own tile in its stage.
THEOREM ConsumersReadTheirTile == Spec => []ReadsItsTile
<1>1. ASSUME PipeInv PROVE ReadsItsTile
  <2> SUFFICES ASSUME NEW c \in Consumers, pc[c] \in {"read", "release"}, NEW p \in Producers
               PROVE  smem[stage[c]][p] = tile[c]
    BY DEF ReadsItsTile
  <2>1. PICK s \in Stages : s = stage[c] /\ Due(empty[s], s) = tile[c] + NumStages
    BY <1>1, StageOfTile
  <2>2. tile[c] \in Nat /\ Sent(p) <= tile[c] + NumStages /\ Sent(p) \in Nat /\ NumStages \in Nat \ {0}
    BY <1>1, StageOfTile, Numbers
  <2>3. empty[s].turns > 0
    <3>1. empty[s].turns \in Nat
      BY <1>1, Numbers DEF Barrier
    <3>2. empty[s].turns = 0 => Due(empty[s], s) = s /\ s < NumStages
      BY <2>2 DEF Due, Stages
    <3> QED BY <2>1, <2>2, <3>1, <3>2, Numbers DEF Stages
  <2>4. smem[s][p] = Due(empty[s], s) - NumStages
    BY <1>1, <2>1, <2>2, <2>3 DEF PipeInv, StoredAt
  <2> QED BY <2>1, <2>2, <2>4
<1> QED BY <1>1, PipelineInvariant, PTL

\* No copy a producer has started is in flight into a stage that is being read, nor
\* two into the same part.
THEOREM StagesAreExclusive == Spec => []StageExclusive
<1>1. ASSUME PipeInv PROVE StageExclusive
  <2>1. Types /\ CopiesRight
    BY <1>1 DEF PipeInv
  <2>2. ASSUME NEW copy \in copies, NEW c \in Consumers,
               pc[c] \in {"read", "release"}, copy.stage = stage[c]
        PROVE  FALSE
    <3>1. /\ copy.tile = tile[c] + NumStages /\ copy.by \in Producers /\ copy.tile \in Nat
          /\ copy.tile < tile[copy.by] + (IF pc[copy.by] = "advance" THEN 1 ELSE 0)
      BY <1>1, <2>1, <2>2, CopyIs, StageOfTile
    <3>2. tile[copy.by] \in Nat /\ Begun(copy.by) <= tile[c] + NumStages /\ tile[c] \in Nat
      BY <1>1, <2>2, <3>1, StageOfTile, Numbers
    <3>3. tile[copy.by] + (IF pc[copy.by] = "advance" THEN 1 ELSE 0) <= Begun(copy.by)
      BY <3>2 DEF Begun
    <3> QED BY <1>1, <3>1, <3>2, <3>3, Numbers
  <2>3. ASSUME NEW copy \in copies, NEW other \in copies,
               copy.stage = other.stage, copy.by = other.by
        PROVE  copy = other
    <3>1. copy.tile = other.tile
      BY <2>1, <2>3, CopyIs
    <3>2. copy = [by |-> copy.by, stage |-> copy.stage, tile |-> copy.tile]
      BY <2>1, CopyIs
    <3>3. other = [by |-> other.by, stage |-> other.stage, tile |-> other.tile]
      BY <2>1, CopyIs
    <3> QED BY <2>3, <3>1, <3>2, <3>3
  <2> QED BY <2>2, <2>3 DEF StageExclusive
<1> QED BY <1>1, PipelineInvariant, PTL

\* The one phase bit producer_acquire and consumer_acquire compare is enough: the
\* barrier is at the turn the thread waits for or at the one before.
THEOREM PhaseBitSuffices == Spec => []PhaseNotAliased
<1>1. ASSUME PipeInv PROVE PhaseNotAliased
  <2>1. ASSUME NEW p \in Producers, pc[p] = "acquire"
        PROVE  Rounds(p) - full[stage[p]].turns \in {0, 1}
    <3>1. PICK s \in Stages, j \in Nat, r \in Nat :
             s = stage[p] /\ j = tile[p] /\ s = j % NumStages /\ r = j \div NumStages
      BY <1>1, Numbers, Division DEF Agents
    <3>2. full[s] \in Barrier /\ full[s].turns \in Nat
      BY <1>1, Numbers DEF Barrier
    <3>3. full[s].turns = r \/ full[s].turns + 1 = r
      <4>1. Due(full[s], s) = j \/ Due(full[s], s) + NumStages = j
        BY <1>1, <2>1, <3>1, ProducerTurn
      <4> QED BY <3>1, <3>2, <4>1, BarrierTile
    <3>4. Rounds(p) = r
      BY <3>1 DEF Rounds
    <3> QED BY <3>1, <3>2, <3>3, <3>4
  <2>2. ASSUME NEW c \in Consumers, pc[c] = "acquire"
        PROVE  empty[stage[c]].turns - Rounds(c) \in {0, 1}
    <3>1. PICK s \in Stages, j \in Nat, r \in Nat :
             s = stage[c] /\ j = tile[c] /\ s = j % NumStages /\ r = j \div NumStages
      BY <1>1, Numbers, Division DEF Agents
    <3>2. empty[s] \in Barrier /\ empty[s].turns \in Nat
      BY <1>1, Numbers DEF Barrier
    <3>3. empty[s].turns = r \/ empty[s].turns = r + 1
      <4>1. Due(empty[s], s) = j \/ Due(empty[s], s) = j + NumStages
        BY <1>1, <2>2, <3>1, ConsumerTurn
      <4> QED BY <3>1, <3>2, <4>1, BarrierTile
    <3>4. Rounds(c) = r
      BY <3>1 DEF Rounds
    <3> QED BY <3>1, <3>2, <3>3, <3>4
  <2> QED BY <2>1, <2>2 DEF PhaseNotAliased
<1> QED BY <1>1, PipelineInvariant, PTL

\* When there are at least as many tiles as stages, a producer that has made its
\* last waits (the drain of the Hopper kernels) leaves no consumer behind.
THEOREM DrainIsComplete ==
  ASSUME NumStages <= NumTiles
  PROVE  Spec => []DrainComplete
<1>1. ASSUME PipeInv PROVE DrainComplete
  <2> SUFFICES ASSUME NEW p \in Producers, NEW c \in Consumers, Drained(p)
               PROVE  tile[c] = NumTiles \/ (tile[c] = NumTiles - 1 /\ pc[c] = "advance")
    BY DEF DrainComplete
  <2>1. /\ NumStages \in Nat \ {0} /\ NumTiles \in Nat /\ tile[p] \in Nat /\ tile[c] \in Nat
    BY <1>1, Numbers
  <2>2. DrainRounds = NumStages
    BY <2>1 DEF DrainRounds, Min
  <2>3. NumTiles + NumStages <= Begun(p)
    BY <2>1, <2>2 DEF Drained, Begun
  <2>4. Begun(p) <= Taken(c) + NumStages
    BY <1>1, Order
  <2>5. NumTiles <= Taken(c)
    BY <1>1, <2>1, <2>3, <2>4, Numbers
  <2>6. tile[c] <= NumTiles /\ (pc[c] = "advance" => tile[c] < NumTiles)
    BY <1>1 DEF PipeInv, Types
  <2> QED BY <2>1, <2>5, <2>6 DEF Taken
<1> QED BY <1>1, PipelineInvariant, PTL
-----------------------------------------------------------------------------
(* The barriers implement the ring. *)

\* The ring's variables, in terms of the barriers and threads.
landed == {k \in Tiles : empty[k % NumStages].turns > k \div NumStages}
taken  == [c \in Consumers |-> tile[c] + (IF pc[c] = "advance" THEN 1 ELSE 0)]

LEMMA TileIs ==
  ASSUME NEW k \in Tiles
  PROVE  k \in Nat /\ k % NumStages \in Stages /\ k \div NumStages \in Nat
<1>1. k \in Nat /\ NumStages \in Nat \ {0}
  BY StagesAssumption DEF Tiles
<1>2. k % NumStages \in 0..(NumStages - 1) /\ k \div NumStages \in Nat
  BY <1>1, Division
<1> QED BY <1>1, <1>2 DEF Stages

LEMMA TakenIs ==
  ASSUME PipeInv, NEW c \in Consumers
  PROVE  taken[c] = Taken(c)
  BY Numbers DEF taken, Taken

\* Only a completed turn of a barrier of _empty_barriers lands a tile.
LEMMA LandedSame ==
  ASSUME \A s \in Stages : empty'[s].turns = empty[s].turns
  PROVE  landed' = landed
  BY TileIs DEF landed

LEMMA TakenSame ==
  ASSUME PipeInv, PipeInv', \A c \in Consumers : Taken(c)' = Taken(c)
  PROVE  taken' = taken
<1>1. \A c \in Consumers : taken[c] = Taken(c)
  BY TakenIs
<1>2. \A c \in Consumers : taken'[c] = Taken(c)'
  <2>1. \A c \in Consumers : tile[c]' \in Nat
    BY DEF PipeInv, Types, Agents
  <2> QED BY <2>1 DEF taken, Taken
<1> QED BY <1>1, <1>2 DEF taken

LEMMA RingInit ==
  ASSUME Init
  PROVE  Ring!Init
<1>1. \A k \in Tiles : ~(empty[k % NumStages].turns > k \div NumStages)
  BY TileIs DEF Init, NewBarrier
<1>2. taken = [c \in Consumers |-> 0]
  BY DEF taken, Init, Agents
<1> QED BY <1>1, <1>2 DEF Ring!Init, taken

LEMMA ReleaseTakes ==
  ASSUME PipeInv, PipeInv', NEW c \in Consumers, Release(c)
  PROVE  Ring!Take(c)
<1>1. PICK s \in Stages, j \in Nat, r \in Nat :
         s = stage[c] /\ j = tile[c] /\ s = j % NumStages /\ r = j \div NumStages /\ j < NumTiles
  <2>1. pc[c] = "release" /\ tile[c] < NumTiles
    BY DEF Release, PipeInv, Types
  <2> QED BY <2>1, Numbers, Division DEF Agents
<1>2. /\ pc[c] = "release" /\ UNCHANGED <<empty, tile>> /\ Goto(c, "advance") /\ c \in Agents
      /\ Types
  BY DEF Release, Agents, PipeInv
<1>3. j \in landed
  <2>1. Due(empty[s], s) = j + NumStages
    BY <1>1, <1>2, ConsumerTurn
  <2>2. empty[s] \in Barrier /\ empty[s].turns = r + 1
    BY <1>1, <2>1, Numbers, BarrierTile
  <2>3. j \in Tiles
    BY <1>1, StagesAssumption DEF Tiles
  <2> QED BY <1>1, <2>2, <2>3 DEF landed
<1>4. taken[c] = j
  BY <1>1, <1>2 DEF taken
<1>5. taken' = [taken EXCEPT ![c] = @ + 1]
  <2>1. pc'[c] = "advance" /\ \A u \in Agents : u # c => pc'[u] = pc[u]
    BY <1>2, GotoIs
  <2>2. taken'[c] = j + 1
    BY <1>1, <1>2, <2>1 DEF taken
  <2>3. \A d \in Consumers : d # c => taken'[d] = taken[d]
    BY <1>2, <2>1 DEF taken, Agents
  <2> QED BY <1>4, <2>2, <2>3 DEF taken
<1>6. landed' = landed
  BY <1>2, LandedSame
<1> QED BY <1>3, <1>4, <1>5, <1>6 DEF Ring!Take, landed, taken

LEMMA CopyLands ==
  ASSUME PipeInv, PipeInv', NEW copy \in copies, CopyDone(copy)
  PROVE  (\E k \in Tiles : Ring!Land(k)) \/ (landed' = landed /\ taken' = taken)
<1>1. PICK p \in Producers, s \in Stages, j \in Nat :
         /\ p = copy.by /\ s = copy.stage /\ j = copy.tile /\ j < NumTiles
         /\ Due(empty[s], s) = j /\ j < tile[p] + (IF pc[p] = "advance" THEN 1 ELSE 0)
  BY CopyIs DEF PipeInv
<1>2. /\ UNCHANGED <<tile, pc>> /\ empty' = [empty EXCEPT ![s] = Settled(empty[s], 0, -1, EmptyCount)]
  BY <1>1 DEF CopyDone
<1>3. taken' = taken
  BY <1>2 DEF taken
<1>4. PICK T \in Nat : T = empty[s].turns /\ empty[s] \in Barrier
  BY Numbers DEF Barrier
<1>5. /\ empty'[s].turns \in {T, T + 1}
      /\ \A z \in Stages : z # s => empty'[z] = empty[z]
  BY <1>2, <1>4 DEF PipeInv, Types, Settled
<1>6. CASE empty'[s].turns = T
  BY <1>3, <1>4, <1>5, <1>6, LandedSame
<1>7. CASE empty'[s].turns = T + 1
  <2>1. j \in Tiles /\ s = j % NumStages /\ j \div NumStages = T
    BY <1>1, <1>4, StagesAssumption, BarrierTile DEF Tiles
  <2>2. j \notin landed
    BY <1>4, <2>1 DEF landed
  <2>3. \A k \in Tiles : k % NumStages = s /\ k \div NumStages = T => k = j
    BY <1>1, <1>4, TileIs, BarrierTile
  <2>4. landed' = landed \cup {j}
    <3> SUFFICES ASSUME NEW k \in Tiles
                 PROVE  empty'[k % NumStages].turns > k \div NumStages
                          <=> empty[k % NumStages].turns > k \div NumStages \/ k = j
      BY <2>1 DEF landed
    <3>1. PICK z \in Stages, r \in Nat : z = k % NumStages /\ r = k \div NumStages
      BY TileIs
    <3>2. CASE z # s
      BY <1>5, <2>1, <3>1, <3>2
    <3>3. CASE z = s
      BY <1>4, <1>7, <2>1, <2>3, <3>1, <3>3
    <3> QED BY <3>2, <3>3
  <2>5. ASSUME NEW c \in Consumers PROVE j < taken[c] + NumStages
    <3>1. Begun(p) <= Taken(c) + NumStages /\ tile[p] \in Nat /\ Taken(c) \in Nat /\ taken[c] = Taken(c)
      BY Order, Numbers, TakenIs
    <3>2. j < Begun(p)
      BY <1>1, <3>1 DEF Begun
    <3> QED BY <3>1, <3>2, Numbers
  <2>6. Ring!Land(j)
    BY <1>3, <2>2, <2>4, <2>5 DEF Ring!Land, landed, taken
  <2> QED BY <2>1, <2>6
<1> QED BY <1>5, <1>6, <1>7

LEMMA OthersStutter ==
  ASSUME PipeInv, PipeInv',
         \/ \E p \in Producers : Producer(p)
         \/ \E c \in Consumers : ConsumerAcquire(c) \/ Read(c) \/ Advance(c)
         \/ UNCHANGED vars
  PROVE  landed' = landed /\ taken' = taken
<1>1. ASSUME NEW t \in Agents, NEW label, Goto(t, label), UNCHANGED <<empty, tile>>,
             t \in Consumers => label # "advance" /\ pc[t] # "advance"
      PROVE  landed' = landed /\ taken' = taken
  <2>1. pc'[t] = label /\ \A u \in Agents : u # t => pc'[u] = pc[u]
    BY <1>1, GotoIs DEF PipeInv
  <2>2. \A c \in Consumers : pc'[c] = "advance" <=> pc[c] = "advance"
    BY <1>1, <2>1 DEF Agents
  <2>3. taken' = taken
    BY <1>1, <2>2 DEF taken
  <2> QED BY <1>1, <2>3, LandedSame
<1>2. ASSUME NEW t \in Agents, Advance(t) PROVE landed' = landed /\ taken' = taken
  <2>1. pc'[t] = "acquire" /\ \A u \in Agents : u # t => pc'[u] = pc[u]
    BY <1>2, GotoIs DEF PipeInv, Advance
  <2>2. tile'[t] = tile[t] + 1 /\ \A u \in Agents : u # t => tile'[u] = tile[u]
    BY <1>2 DEF PipeInv, Types, Advance
  <2>3. UNCHANGED empty /\ pc[t] = "advance" /\ tile[t] \in Nat
    BY <1>2, Numbers DEF Advance, Agents
  <2>4. ASSUME NEW c \in Consumers
        PROVE  tile'[c] + (IF pc'[c] = "advance" THEN 1 ELSE 0)
                 = tile[c] + (IF pc[c] = "advance" THEN 1 ELSE 0)
    <3>1. CASE c = t
      BY <2>1, <2>2, <2>3, <3>1
    <3>2. CASE c # t
      BY <2>1, <2>2, <3>2 DEF Agents
    <3> QED BY <3>1, <3>2
  <2>5. taken' = taken
    BY <2>4 DEF taken
  <2> QED BY <2>3, <2>5, LandedSame
<1>3. ASSUME NEW p \in Producers, Expect(p) PROVE landed' = landed /\ taken' = taken
  <2>1. PICK s \in Stages : s = stage[p] /\ empty[s] \in Barrier
    BY Numbers DEF Agents
  <2>2. empty' = [empty EXCEPT ![s] = Settled(empty[s], 1, 1, EmptyCount)]
    BY <1>3, <2>1 DEF Expect
  <2>3. Settled(empty[s], 1, 1, EmptyCount).turns = empty[s].turns
    <3>1. empty[s].tx + 1 # 0
      BY <2>1 DEF Barrier
    <3> QED BY <3>1 DEF Settled
  <2>4. \A z \in Stages : empty'[z].turns = empty[z].turns
    BY <2>2, <2>3 DEF PipeInv, Types
  <2>5. pc'[p] = "copy" /\ \A u \in Agents : u # p => pc'[u] = pc[u]
    BY <1>3, GotoIs DEF PipeInv, Expect, Agents
  <2>6. \A c \in Consumers : pc'[c] = pc[c] /\ tile'[c] = tile[c]
    BY <1>3, <2>5, StagesAssumption DEF Expect, Agents
  <2>7. taken' = taken
    BY <2>6 DEF taken
  <2> QED BY <2>4, <2>7, LandedSame
<1>4. ASSUME NEW p \in Producers, Producer(p) PROVE landed' = landed /\ taken' = taken
  <2>1. p \in Agents /\ p \notin Consumers
    BY StagesAssumption DEF Agents
  <2>2. CASE ProducerAcquire(p) \/ StartCopy(p) \/ ProducerDrain(p)
    BY <1>1, <2>1, <2>2 DEF ProducerAcquire, StartCopy, ProducerDrain
  <2> QED BY <1>2, <1>3, <1>4, <2>1, <2>2 DEF Producer
<1>5. ASSUME NEW c \in Consumers, ConsumerAcquire(c) \/ Read(c) \/ Advance(c)
      PROVE  landed' = landed /\ taken' = taken
  <2>1. c \in Agents
    BY DEF Agents
  <2>2. CASE ConsumerAcquire(c) \/ Read(c)
    BY <1>1, <2>1, <2>2 DEF ConsumerAcquire, Read
  <2> QED BY <1>2, <1>5, <2>1, <2>2
<1>6. CASE UNCHANGED vars
  BY <1>6 DEF vars, landed, taken
<1> QED BY <1>4, <1>5, <1>6

\* Every step of the barriers and threads is a step of the ring, or none: a tile
\* lands when the last copy of it completes its barrier, and a consumer takes it
\* when it releases its stage.
THEOREM BarriersImplementRing == Spec => ImplementsRing
<1>1. Init => Ring!Init
  BY RingInit
<1>2. PipeInv /\ PipeInv' /\ [Next]_vars => [Ring!Next]_<<landed, taken>>
  <2> SUFFICES ASSUME PipeInv, PipeInv', [Next]_vars
               PROVE  Ring!Next \/ (landed' = landed /\ taken' = taken)
    OBVIOUS
  <2>1. CASE CopyEngine
    BY <2>1, CopyLands DEF CopyEngine, Ring!Next, Ring!Tiles, Tiles
  <2>2. ASSUME NEW c \in Consumers, Release(c)
        PROVE  Ring!Next
    BY <2>2, ReleaseTakes DEF Ring!Next
  <2> QED BY <2>1, <2>2, OthersStutter DEF Next, Consumer
<1> QED BY <1>1, <1>2, PipelineInvariant, PTL DEF Spec, ImplementsRing, Ring!Spec, landed, taken
=============================================================================

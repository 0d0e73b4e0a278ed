---------------------------- MODULE Collectives ----------------------------
(***************************************************************************)
(* Reductions (backends/emitters/reduce.py) and prefix scans                *)
(* (backends/emitters/scan.py) over one dimension of a register tensor.     *)
(* Every element of the tensor sits in a register of some thread; the       *)
(* emitters combine registers of a thread, of a warp by shuffles, and of    *)
(* several warps through the workspace in shared memory, of which a kernel  *)
(* has one.                                                                *)
(*                                                                         *)
(* An instruction is emitted as a sequence of phases.  The warps of a       *)
(* thread group run the phases independently of each other, except at       *)
(* synchronisations.  A value is the sequence of the elements combined in   *)
(* it.                                                                     *)
(***************************************************************************)
EXTENDS Integers, FiniteSets, SequencesExt

CONSTANTS
  Groups,     \* thread groups that run side by side
  Warps,      \* warps of a group
  Lanes,      \* lanes of a warp, a power of two
  Programs,   \* sequences of instructions [op, exclusive, spatial, local]
  WorkspaceSize

ASSUME CollectivesAssumption ==
  /\ Warps \in Nat \ {0} /\ Lanes \in Nat \ {0} /\ Lanes \in {2^k : k \in 0..5}
  /\ \A p \in Programs : p \in Seq(ToSet(p)) /\ Len(p) > 0
  /\ \A p \in Programs : \A k \in 1..Len(p) : p[k].op \in {"reduce", "scan"}

VARIABLES
  program,    \* group -> its instructions
  at,         \* group -> warp -> [instr, phase]
  regs,       \* group -> thread -> local index -> value
  workspace   \* shared memory: index -> value

collectiveVars == <<program, at, regs, workspace>>

-----------------------------------------------------------------------------
(* Layouts: the modes of the threads and of the registers of a thread, the   *)
(* outermost first.  A mode [size, kind, rank] is part of the dimension       *)
(* ("reduced", at place rank of its modes), of another one ("spatial") or     *)
(* repeats the data ("replicated").                                          *)

Volume(modes) == FoldLeft(LAMBDA n, mode : n * mode.size, 1, modes)
Stride(modes, i) == Volume(SubSeq(modes, i + 1, Len(modes)))

IndexDeserialize(n, modes) ==
  [i \in DOMAIN modes |-> (n \div Stride(modes, i)) % modes[i].size]

IndexSerialize(index, modes) ==
  FoldLeftDomain(LAMBDA n, i : n * modes[i].size + index[i], 0, modes)

\* The places of the modes of a kind.
Places(modes, kind) ==
  SelectSeq([i \in DOMAIN modes |-> i], LAMBDA i : modes[i].kind = kind)

\* The number of a place among the modes of a kind only.
Project(n, modes, places) ==
  IndexSerialize([j \in DOMAIN places |-> IndexDeserialize(n, modes)[places[j]]],
                 [j \in DOMAIN places |-> modes[places[j]]])

Warp == 0..(Warps - 1)
GroupThreads == 0..(Warps * Lanes - 1)
WorkspaceIndex == 0..(WorkspaceSize - 1)
LocalSize(instr) == Volume(instr.local)
WarpOf(t) == t \div Lanes
LaneOf(t) == t % Lanes

\* The threads of a warp, and their part of the registers of a group.
Threads(w) == {t \in GroupThreads : WarpOf(t) = w}
Own(r, w) == [t \in Threads(w) |-> r[t]]

\* The element of the tensor in register l of thread t, for every instruction.
Instrs == UNION {ToSet(p) : p \in Programs}
ElementAt(instr, t, l) ==
  LET modes == instr.spatial \o instr.local
      n == t * LocalSize(instr) + l
      dim == SortSeq(Places(modes, "reduced"), LAMBDA i, j : modes[i].rank < modes[j].rank)
  IN  <<Project(n, modes, Places(modes, "spatial")), Project(n, modes, dim)>>
Elements ==
  [instr \in Instrs |->
    [t \in GroupThreads |-> [l \in 0..(LocalSize(instr) - 1) |-> ElementAt(instr, t, l)]]]
Element(k, instr, t, l) == <<k>> \o Elements[instr][t][l]

DimExtent(instr) == Volume(SelectSeq(instr.spatial \o instr.local, LAMBDA m : m.kind = "reduced"))

Combine(x, y) == x \o y

-----------------------------------------------------------------------------
(* Reduction.  A function r holds the registers of one warp. *)

\* The register of the result that register l is reduced into.
DstLocal(instr, l) == Project(l, instr.local, Places(instr.local, "spatial"))
DstSize(instr) == Volume(SelectSeq(instr.local, LAMBDA m : m.kind = "spatial"))

IntraThreadReduce(instr, r) ==
  [t \in DOMAIN r |-> [d \in 0..(LocalSize(instr) - 1) |->
    FoldLeft(LAMBDA acc, l : IF DstLocal(instr, l) = d THEN Combine(acc, r[t][l]) ELSE acc,
             <<>>, [i \in 1..LocalSize(instr) |-> i - 1])]]

\* The innermost mode that reaches beyond the bit contains it.
SpatialBitReduced(instr, bit) ==
  LET i == CHOOSE i \in DOMAIN instr.spatial :
             /\ Stride(instr.spatial, i) * instr.spatial[i].size > 2^bit
             /\ Stride(instr.spatial, i) <= 2^bit
  IN  instr.spatial[i].kind = "reduced"

LaneBits == CHOOSE k \in 0..5 : 2^k = Lanes
ReducedBits(instr) ==
  SelectSeq([b \in 1..LaneBits |-> b - 1], LAMBDA b : SpatialBitReduced(instr, b))

\* A lane with nobody at that distance within the width gets its own value.
ShflDown(r, bit, t) == IF t % 2^(bit + 1) < 2^bit THEN r[t + 2^bit] ELSE r[t]
ShflUp(r, bit, t) == IF t % 2^(bit + 1) >= 2^bit THEN r[t - 2^bit] ELSE r[t]

IntraWarpReduce(instr, r) ==
  FoldLeft(LAMBDA s, bit :
             [t \in DOMAIN s |-> [l \in DOMAIN s[t] |-> Combine(s[t][l], ShflDown(s, bit, t)[l])]],
           r, ReducedBits(instr))

IntraWarpBroadcast(instr, r) ==
  FoldLeft(LAMBDA s, bit : [t \in DOMAIN s |-> ShflUp(s, bit, t)], r, Reverse(ReducedBits(instr)))

\* Some mode of the dimension begins in the warp part of the thread index.
RequiresInterWarp(instr) ==
  \E i \in DOMAIN instr.spatial :
    /\ instr.spatial[i].kind = "reduced"
    /\ Volume(SubSeq(instr.spatial, 1, i - 1)) < Warps

\* The modes of the warps and of the lanes; one that crosses is split.
WarpModes(instr) ==
  FlattenSeq([i \in DOMAIN instr.spatial |->
    LET m == instr.spatial[i]
        outer == Volume(SubSeq(instr.spatial, 1, i - 1))
    IN  IF outer < Warps /\ Warps < outer * m.size THEN <<[m EXCEPT !.size = Warps \div outer]>>
        ELSE IF outer * m.size <= Warps THEN <<m>>
        ELSE <<>>])

LaneModes(instr) ==
  FlattenSeq([i \in DOMAIN instr.spatial |->
    LET m == instr.spatial[i]
        outer == Volume(SubSeq(instr.spatial, 1, i - 1))
    IN  IF outer < Warps /\ Warps < outer * m.size
        THEN <<[m EXCEPT !.size = m.size \div (Warps \div outer)]>>
        ELSE IF outer * m.size <= Warps THEN <<>>
        ELSE <<m>>])

\* Where the workspace keeps a result: replicas and what is reduced share.
SmemIdx(instr, t, d) ==
  LET wm == WarpModes(instr)
      lm == LaneModes(instr)
      lanePart == Volume(SelectSeq(lm, LAMBDA m : m.kind = "spatial"))
  IN  (Project(WarpOf(t), wm, Places(wm, "spatial")) * lanePart
         + Project(LaneOf(t), lm, Places(lm, "spatial"))) * DstSize(instr) + d

\* The turn in which a thread adds its part, if it holds one.
TurnOf(instr, t) == Project(WarpOf(t), WarpModes(instr), Places(WarpModes(instr), "reduced"))
Turns(instr) == Volume(SelectSeq(WarpModes(instr), LAMBDA m : m.kind = "reduced"))

TakesTurn(instr, t) ==
  LET wm == WarpModes(instr)
      lm == LaneModes(instr)
  IN  /\ Project(WarpOf(t), wm, Places(wm, "replicated")) = 0
      /\ Project(LaneOf(t), lm, Places(lm, "reduced")) = 0
      /\ Project(LaneOf(t), lm, Places(lm, "replicated")) = 0

\* Everybody takes the result of its group of threads from the workspace.
Collected(instr, r, smem) ==
  [t \in DOMAIN r |-> [d \in DOMAIN r[t] |->
    IF d < DstSize(instr) THEN smem[SmemIdx(instr, t, d)] ELSE r[t][d]]]

\* The registers a warp has for a place of the workspace in a turn: the first
\* turn stores them, others add them.
Takers(instr, turn, w, i) ==
  {td \in Threads(w) \X (0..(DstSize(instr) - 1)) :
    TakesTurn(instr, td[1]) /\ TurnOf(instr, td[1]) = turn /\ SmemIdx(instr, td[1], td[2]) = i}

Accumulated(instr, turn, w, r, smem, i) ==
  LET td == CHOOSE td \in Takers(instr, turn, w, i) : TRUE
  IN  IF turn = 0 THEN r[td[1]][td[2]] ELSE Combine(r[td[1]][td[2]], smem[i])

Phase(do, n) == [do |-> do, n |-> n]
Barrier == Phase("sync", 0)

\* Mutant: the warps go on while others still collect.
ReducePhases_NoLastBarrier(instr) ==
  <<Phase("reduce_warp", 0)>> \o
  IF RequiresInterWarp(instr)
  THEN FlattenSeq([i \in 1..Turns(instr) |-> <<Phase("accumulate", i - 1), Barrier>>])
         \o <<Phase("collect", 0)>>
  ELSE <<Phase("broadcast", 0)>>

ReducePhases(instr) ==
  <<Phase("reduce_warp", 0)>> \o
  IF RequiresInterWarp(instr)
  THEN FlattenSeq([i \in 1..Turns(instr) |-> <<Phase("accumulate", i - 1), Barrier>>])
         \o <<Phase("collect", 0), Barrier>>
  ELSE <<Phase("broadcast", 0)>>

-----------------------------------------------------------------------------
(* Scan, by Blelloch's algorithm: one round up and one down per bit of the    *)
(* index in the dimension, between registers that differ in that bit alone.   *)

\* The bits of the dimension, the lowest first, and where each one lives.
ClassifyDimBits(instr) ==
  LET modes == instr.spatial \o instr.local
      dim == SortSeq(Places(modes, "reduced"), LAMBDA i, j : modes[i].rank > modes[j].rank)
      log2(size) == CHOOSE k \in 0..size : 2^k = size
      bit(i, b) ==
        LET delta == Stride(instr.spatial, i) * 2^b
        IN  IF i > Len(instr.spatial)
            THEN [level |-> "local", delta |-> Stride(instr.local, i - Len(instr.spatial)) * 2^b]
            ELSE IF delta < Lanes THEN [level |-> "lane", delta |-> delta]
            ELSE [level |-> "warp", delta |-> delta \div Lanes]
  IN  FlattenSeq([j \in DOMAIN dim |->
        [b \in 1..log2(modes[dim[j]].size) |-> bit(dim[j], b - 1)]])

HasBit(t, l, bit) ==
  LET n == CASE bit.level = "local" -> l
             [] bit.level = "lane" -> LaneOf(t)
             [] bit.level = "warp" -> WarpOf(t)
  IN  (n \div bit.delta) % 2 = 1

\* The lower bits are all set: this is the node of a subtree.
Subtree(bits, d, t, l) == \A j \in 1..(d - 1) : HasBit(t, l, bits[j])
RightGuard(bits, d, t, l) == Subtree(bits, d, t, l) /\ HasBit(t, l, bits[d])
LeftGuard(bits, d, t, l) == Subtree(bits, d, t, l) /\ ~HasBit(t, l, bits[d])

Flip(n, delta) == IF (n \div delta) % 2 = 1 THEN n - delta ELSE n + delta

\* A round, given the value of each register's partner.
Round(bits, d, up, r, Partner(_, _)) ==
  [t \in DOMAIN r |-> [l \in DOMAIN r[t] |->
    IF RightGuard(bits, d, t, l) THEN Combine(r[t][l], Partner(t, l))
    ELSE IF LeftGuard(bits, d, t, l) /\ ~up THEN Partner(t, l)
    ELSE r[t][l]]]

\* Within a thread or a warp.
InnerRound(bits, d, up, r) ==
  IF bits[d].level = "local"
  THEN Round(bits, d, up, r, LAMBDA t, l : r[t][Flip(l, bits[d].delta)])
  ELSE Round(bits, d, up, r, LAMBDA t, l : r[Flip(t, bits[d].delta)][l])

\* Between warps, from what they have left in the workspace.
Slot(instr, t, l) == t * LocalSize(instr) + l
SlotOwner(instr, i) == i \div LocalSize(instr)
Published(instr, r, i) == r[SlotOwner(instr, i)][i % LocalSize(instr)]

WarpRound(instr, bits, d, up, r, smem) ==
  Round(bits, d, up, r, LAMBDA t, l : smem[Slot(instr, Flip(WarpOf(t), bits[d].delta) * Lanes + LaneOf(t), l)])

WriteIdentity(bits, r) ==
  [t \in DOMAIN r |-> [l \in DOMAIN r[t] |->
    IF \A j \in DOMAIN bits : HasBit(t, l, bits[j]) THEN <<>> ELSE r[t][l]]]

RoundPhases(bits, d, direction) ==
  IF bits[d].level = "warp"
  THEN <<Phase("publish", 0), Barrier, Phase(direction, d), Barrier>>
  ELSE <<Phase(direction, d)>>

ScanPhases(instr) ==
  LET bits == ClassifyDimBits(instr)
  IN  FlattenSeq([d \in DOMAIN bits |-> RoundPhases(bits, d, "up")])
        \o <<Phase("identity", 0)>>
        \o FlattenSeq([d \in DOMAIN bits |-> RoundPhases(bits, Len(bits) + 1 - d, "down")])
        \o (IF instr.exclusive THEN <<>> ELSE <<Phase("inclusive", 0)>>)

\* The code of every instruction.
Emit(instr) ==
  [bits |-> IF instr.op = "scan" THEN ClassifyDimBits(instr) ELSE <<>>,
   phases |-> IF instr.op = "reduce" THEN ReducePhases(instr) ELSE ScanPhases(instr)]
Emitted == [instr \in Instrs |-> Emit(instr)]

-----------------------------------------------------------------------------
(* What one phase does. *)

\* A round of a scan between warps.
Crosses(instr, ph) ==
  ph.do \in {"up", "down"} /\ Emitted[instr].bits[ph.n].level = "warp"

UsesWorkspace(instr, ph) ==
  ph.do \in {"accumulate", "collect", "publish"} \/ Crosses(instr, ph)

\* A warp's registers after a phase of the k-th instruction.
RegistersAfter(k, instr, ph, r, smem) ==
  LET bits == Emitted[instr].bits
  IN  CASE ph.do = "reduce_warp" -> IntraWarpReduce(instr, IntraThreadReduce(instr, r))
        [] ph.do = "broadcast" -> IntraWarpBroadcast(instr, r)
        [] ph.do = "collect" -> Collected(instr, r, smem)
        [] ph.do = "identity" -> WriteIdentity(bits, r)
        [] Crosses(instr, ph) -> WarpRound(instr, bits, ph.n, ph.do = "up", r, smem)
        [] ph.do \in {"up", "down"} /\ ~Crosses(instr, ph) ->
             InnerRound(bits, ph.n, ph.do = "up", r)
        [] ph.do = "inclusive" ->
             [t \in DOMAIN r |-> [l \in DOMAIN r[t] |->
               Combine(r[t][l], <<Element(k, instr, t, l)>>)]]
        [] OTHER -> r

\* The places of the workspace a warp writes in a phase, and what it writes.
Writes(instr, ph, w, i) ==
  \/ ph.do = "accumulate" /\ Takers(instr, ph.n, w, i) # {}
  \/ ph.do = "publish" /\ SlotOwner(instr, i) \in Threads(w)

Written(instr, ph, w, r, smem, i) ==
  IF ph.do = "accumulate" THEN Accumulated(instr, ph.n, w, r, smem, i)
  ELSE Published(instr, r, i)

\* What the emitters take from the arithmetic of layouts, which folds over the
\* modes compute: no two warps store the same place in a turn.
ASSUME LayoutAssumption ==
  \A instr \in Instrs :
    /\ Turns(instr) \in Nat
    /\ ClassifyDimBits(instr) \in Seq([level : {"local", "lane", "warp"}, delta : Nat])
    /\ \A p \in DOMAIN Emitted[instr].phases, i \in WorkspaceIndex, u \in Warp :
         Writes(instr, Emitted[instr].phases[p], u, i) =>
           \A w \in Warp \ {u} : ~Writes(instr, Emitted[instr].phases[p], w, i)

-----------------------------------------------------------------------------
Fresh(k, instr) ==
  [t \in GroupThreads |-> [l \in 0..(LocalSize(instr) - 1) |-> <<Element(k, instr, t, l)>>]]

CollectiveInit ==
  /\ program \in [Groups -> Programs]
  /\ at = [g \in Groups |-> [w \in Warp |-> [instr |-> 1, phase |-> 1]]]
  /\ regs = [g \in Groups |-> Fresh(1, program[g][1])]
  /\ workspace = [i \in WorkspaceIndex |-> <<>>]

Instr(g, w) == program[g][at[g][w].instr]
Phases(g, w) == Emitted[Instr(g, w)].phases
Current(g, w) == Phases(g, w)[at[g][w].phase]
Done(g, w) == at[g][w].phase > Len(Phases(g, w))

\* The threads of warp w take r, the others of the group keep their registers.
TakeRegisters(g, w, r) ==
  regs' = [regs EXCEPT ![g] = [t \in GroupThreads |-> IF WarpOf(t) = w THEN r[t] ELSE @[t]]]

RunRegisters(g, w) ==
  TakeRegisters(g, w, RegistersAfter(at[g][w].instr, Instr(g, w), Current(g, w), Own(regs[g], w), workspace))

RunWorkspace(g, w) ==
  workspace' = [i \in WorkspaceIndex |->
    IF Writes(Instr(g, w), Current(g, w), w, i)
    THEN Written(Instr(g, w), Current(g, w), w, Own(regs[g], w), workspace, i)
    ELSE workspace[i]]

NextPhase(g, w) == at' = [at EXCEPT ![g][w].phase = @ + 1]

\* Registers only: no other warp takes part.
Compute(g, w) ==
  /\ ~Done(g, w) /\ Current(g, w) # Barrier /\ ~UsesWorkspace(Instr(g, w), Current(g, w))
  /\ RunRegisters(g, w) /\ NextPhase(g, w)
  /\ UNCHANGED <<program, workspace>>

\* A turn of the reduction between warps.
Accumulate(g, w) ==
  /\ ~Done(g, w) /\ Current(g, w).do = "accumulate"
  /\ RunWorkspace(g, w) /\ NextPhase(g, w)
  /\ UNCHANGED <<program, regs>>

Collect(g, w) ==
  /\ ~Done(g, w) /\ Current(g, w).do = "collect"
  /\ RunRegisters(g, w) /\ NextPhase(g, w)
  /\ UNCHANGED <<program, workspace>>

\* A round of the scan between warps, first half: everybody leaves its values.
Publish(g, w) ==
  /\ ~Done(g, w) /\ Current(g, w).do = "publish"
  /\ RunWorkspace(g, w) /\ NextPhase(g, w)
  /\ UNCHANGED <<program, regs>>

Exchange(g, w) ==
  /\ ~Done(g, w) /\ Crosses(Instr(g, w), Current(g, w))
  /\ RunRegisters(g, w) /\ NextPhase(g, w)
  /\ UNCHANGED <<program, workspace>>

\* The warps of the group wait for each other.
SyncWarps(g) ==
  /\ \A w \in Warp : ~Done(g, w) /\ Current(g, w) = Barrier
  /\ at' = [at EXCEPT ![g] = [w \in Warp |-> [at[g][w] EXCEPT !.phase = @ + 1]]]
  /\ UNCHANGED <<program, regs, workspace>>

NextInstr(g, w) ==
  /\ Done(g, w) /\ at[g][w].instr < Len(program[g])
  /\ LET k == at[g][w].instr + 1
     IN  /\ at' = [at EXCEPT ![g][w] = [instr |-> k, phase |-> 1]]
         /\ TakeRegisters(g, w, Fresh(k, program[g][k]))
  /\ UNCHANGED <<program, workspace>>

CollectiveNext ==
  \E g \in Groups :
    \/ SyncWarps(g)
    \/ \E w \in Warp :
         \/ Compute(g, w) \/ Accumulate(g, w) \/ Collect(g, w)
         \/ Publish(g, w) \/ Exchange(g, w) \/ NextInstr(g, w)

CollectiveSpec == CollectiveInit /\ [][CollectiveNext]_collectiveVars

-----------------------------------------------------------------------------
\* The positions a result combines: the whole dimension, or those before its own.
Covered(instr, col) ==
  IF instr.op = "reduce" THEN 0..(DimExtent(instr) - 1)
  ELSE IF instr.exclusive THEN 0..(col - 1)
  ELSE 0..col

\* What register l of thread t must hold: each element once, of its own row.
Holds(k, instr, t, l, value) ==
  LET own == Element(k, instr, t, l)
      reg == IF instr.op = "reduce" THEN DstLocal(instr, l) ELSE l
      want == {<<k, own[2], col>> : col \in Covered(instr, own[3])}
  IN  ToSet(value[reg]) = want /\ Len(value[reg]) = Cardinality(want)

\* A warp that is done with an instruction holds its results in all registers of
\* all threads, whatever the other warps still do (efficient_reduce, emit).
ResultsRight ==
  \A g \in Groups, w \in Warp :
    Done(g, w) =>
      \A t \in Threads(w), l \in 0..(LocalSize(Instr(g, w)) - 1) :
        Holds(at[g][w].instr, Instr(g, w), t, l, regs[g][t])

-----------------------------------------------------------------------------
(* The same program with all warps in step: what it would compute if every   *)
(* phase ended before the next one began.                                     *)

StepStart(P) ==
  [instr |-> 1, phase |-> 1, regs |-> Fresh(1, P[1]), smem |-> [i \in WorkspaceIndex |-> <<>>]]

\* All warps run one phase.
StepPhase(k, instr, p, s) ==
  LET ph == Emitted[instr].phases[p]
      Writer(i) == CHOOSE w \in Warp : Writes(instr, ph, w, i)
  IN  [instr |-> k, phase |-> p + 1,
       regs |-> [t \in GroupThreads |->
                  RegistersAfter(k, instr, ph, Own(s.regs, WarpOf(t)), s.smem)[t]],
       smem |-> [i \in WorkspaceIndex |->
                  IF \E w \in Warp : Writes(instr, ph, w, i)
                  THEN Written(instr, ph, Writer(i), Own(s.regs, Writer(i)), s.smem, i)
                  ELSE s.smem[i]]]

StepEnded(P, s) == s.phase > Len(Emitted[P[s.instr]].phases)

StepNext(P, s) ==
  IF ~StepEnded(P, s) THEN StepPhase(s.instr, P[s.instr], s.phase, s)
  ELSE IF s.instr < Len(P)
       THEN [instr |-> s.instr + 1, phase |-> 1, regs |-> Fresh(s.instr + 1, P[s.instr + 1]), smem |-> s.smem]
       ELSE s

InStep(P) ==
  LET run[n \in Nat] == IF n = 0 THEN StepStart(P) ELSE StepNext(P, run[n - 1])
  IN  run

\* Where an instruction has ended, every thread holds its results.
StepRight(P, s) ==
  StepEnded(P, s) =>
    \A t \in GroupThreads, l \in 0..(LocalSize(P[s.instr]) - 1) :
      Holds(s.instr, P[s.instr], t, l, s.regs[t])

\* In step, the first m phases of every program give right results.
RightInStep(m) == \A P \in Programs, n \in 0..m : StepRight(P, InStep(P)[n])
=============================================================================

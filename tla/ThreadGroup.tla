---------------------------- MODULE ThreadGroup ----------------------------
(***************************************************************************)
(* Which threads of a block execute the body of a thread group, and which  *)
(* synchronisation a group gets: visit_ThreadGroupStmt and _elect_any_cond *)
(* (backends/codegen.py), ThreadGroupStack and SyncContext.                *)
(*                                                                         *)
(* The compiler walks a kernel of nested groups; the nondeterminism is the *)
(* kernel, and what the hardware may choose (the elected lane, the value a *)
(* shuffle reads from a lane that does not take part).  For every level of *)
(* nesting the model keeps what the compiler knows, begin and size, next   *)
(* to what the generated conditions do: the threads that pass them and the *)
(* thread index each of them computes.                                     *)
(***************************************************************************)
EXTENDS Integers, FiniteSets, SequencesExt

CONSTANTS
    WarpSize,      \* 32
    NumThreads,    \* num_warps * 32 of the kernel, a block of the device: at most 1024
    HasElect,      \* the target supports nvgpu_sm90
    MaxNamed,      \* MAX_NAMED_BARRIERS
    GroupSizes,    \* sizes of thread groups in the kernel
    GroupBegins,   \* their first threads, where a kernel fixes one
    Straddles,     \* may a whole-warp group begin off a multiple of its size?
    ElectsWarps,   \* may whole warps, but not all of a group's, be elected?
    ElectsOffWarp, \* may a thread be elected in a group that begins inside a warp?
    MaxDepth,      \* bound: nesting of groups
    MaxRanges      \* bound: different ranges that ask for a barrier

BlockThreads == 0 .. NumThreads - 1
PowersOfTwo == {1, 2, 4, 8, 16, 32, 64, 128, 256, 512, 1024}

ASSUME WarpAssumption ==
    /\ WarpSize \in PowersOfTwo \ {1} /\ NumThreads \in 1 .. 1024
    /\ NumThreads % WarpSize = 0
    /\ GroupSizes \subseteq 1 .. NumThreads /\ GroupBegins \subseteq BlockThreads
    /\ MaxNamed \in Nat
ASSUME FlagAssumption == {HasElect, Straddles, ElectsWarps, ElectsOffWarp} \subseteq BOOLEAN

VARIABLES
    stack,    \* sequence of levels: [begin, num, tid of the executing threads, elected]
    named,    \* named_barrier_map: [ranges -> barrier id]
    mbars,    \* thread_group_barrier: [ranges -> arrival count]
    synced,   \* the synchronisation just emitted, if the last statement was one
    partial   \* some shuffle or election was executed by part of a warp

groupVars == <<stack, named, mbars, synced, partial>>

BlockWarps == 0 .. NumThreads \div WarpSize - 1
BlockWarpOf(t) == t \div WarpSize
WarpLanes(w) == w * WarpSize .. (w + 1) * WarpSize - 1
Lane0(t) == BlockWarpOf(t) * WarpSize

Top == Last(stack)
Executing(level) == DOMAIN level.tid
RangeOf(level) == <<level.begin, level.begin + level.num>>
RangeThreads(r) == r[1] .. r[2] - 1
Block == [begin |-> 0, num |-> NumThreads, tid |-> [t \in BlockThreads |-> t], elected |-> FALSE]

NoSync == [kind |-> "none", level |-> Block]

GroupInit ==
    /\ stack = <<Block>>
    /\ named = <<>> /\ mbars = <<>>
    /\ synced = NoSync
    /\ partial = FALSE
-----------------------------------------------------------------------------
\* The threads of level for which Cond holds, with the index they compute.
Narrow(level, Cond(_), Index(_)) ==
    [t \in {x \in Executing(level) : Cond(x)} |-> Index(t)]

\* shfl_sync of the group index from lane 0 of the thread's warp: whatever is
\* in the register if that lane does not execute the shuffle.
FromLane0(level, size, t, junk) ==
    IF Lane0(t) \in Executing(level) THEN level.tid[Lane0(t)] \div size ELSE junk

SplitsWarp(level) ==
    \E w \in BlockWarps : WarpLanes(w) \cap Executing(level) \notin {{}, WarpLanes(w)}

\* Mutant: the parent is not asked to begin a warp.
IsWarpAligned_AnyParent(level, b, n) ==
    /\ n >= WarpSize /\ n % WarpSize = 0 /\ b % WarpSize = 0
    /\ n \in PowersOfTwo /\ level.num \in PowersOfTwo

IsWarpAligned(level, b, n) ==
    /\ n >= WarpSize /\ n % WarpSize = 0
    /\ b % WarpSize = 0 /\ level.begin % WarpSize = 0
    /\ n \in PowersOfTwo /\ level.num \in PowersOfTwo

SameMultiple(level, b, n) ==
    n \in PowersOfTwo /\ level.num \in PowersOfTwo /\ b % n = 0

\* ThreadGroupStack.push below the top level.
PushLevel(begin, num, tid, elected) ==
    stack' = Append(stack, [begin |-> Top.begin + begin, num |-> num, tid |-> tid,
                            elected |-> elected])
Push(begin, num, tid) == PushLevel(begin, num, tid, Top.elected)
PushElected(num, tid) == PushLevel(0, num, tid, TRUE)

FitsIn(level, b, n) == b + n <= level.num

\* A group with a fixed first thread.
EnterFixed(b, n) ==
    /\ Len(stack) < MaxDepth
    /\ FitsIn(Top, b, n)
    /\ IsWarpAligned(Top, b, n) /\ b % n # 0 => Straddles
    /\ CASE IsWarpAligned(Top, b, n) ->
              /\ \E junk \in {0, 1} :
                   Push(b, n, Narrow(Top, LAMBDA t : FromLane0(Top, n, t, junk) = b \div n,
                                          LAMBDA t : Top.tid[t] % n))
              /\ partial' = (partial \/ SplitsWarp(Top))
         [] ~IsWarpAligned(Top, b, n) /\ SameMultiple(Top, b, n) ->
              /\ Push(b, n, Narrow(Top, LAMBDA t : Top.tid[t] \div n = b \div n,
                                        LAMBDA t : Top.tid[t] % n))
              /\ UNCHANGED partial
         [] OTHER ->
              /\ Push(b, n, Narrow(Top, LAMBDA t : Top.tid[t] \in b .. b + n - 1,
                                        LAMBDA t : Top.tid[t] - b))
              /\ UNCHANGED partial
    /\ synced' = NoSync
    /\ UNCHANGED <<named, mbars>>

\* The possible answers of elect_one_sync executed by the threads of level: in
\* each warp that has some of them, one is elected.
Elections(level) ==
    LET warps == {BlockWarpOf(t) : t \in Executing(level)}
    IN  {e \in [warps -> Executing(level)] : \A w \in warps : e[w] \in WarpLanes(w)}

\* Mutant: the election is not restricted to one warp.
ElectOne_EveryWarp(level) ==
    \E e \in Elections(level) :
        /\ PushElected(1, Narrow(level, LAMBDA t : e[BlockWarpOf(t)] = t, LAMBDA t : 0))
        /\ partial' = (partial \/ SplitsWarp(level))

\* _elect_any_cond for one thread: thread 0 where elect.sync cannot be used,
\* else one lane of the warp whose lane 0 computes warp 0.
ElectOne(level) ==
    IF level.num % WarpSize # 0 \/ ~HasElect
      THEN /\ PushElected(1, Narrow(level, LAMBDA t : level.tid[t] = 0, LAMBDA t : 0))
           /\ UNCHANGED partial
      ELSE \E e \in Elections(level), junk \in {0, 1} :
             /\ PushElected(1, Narrow(level,
                    LAMBDA t : /\ \/ level.num = WarpSize
                                  \/ FromLane0(level, WarpSize, t, junk) = 0
                               /\ e[BlockWarpOf(t)] = t,
                    LAMBDA t : 0))
             /\ partial' = (partial \/ SplitsWarp(level))

\* _elect_any_cond for several threads.
ElectMany(level, n) ==
    IF n % WarpSize = 0 /\ level.num % WarpSize = 0
      THEN \E junk \in {0, 1} :
             /\ PushElected(n, Narrow(level,
                    LAMBDA t : level.tid[t] \div n = FromLane0(level, n, t, junk),
                    LAMBDA t : level.tid[t] % n))
             /\ partial' = (partial \/ SplitsWarp(level))
      ELSE /\ PushElected(n, Narrow(level, LAMBDA t : level.tid[t] < n,
                                       LAMBDA t : level.tid[t] % n))
           /\ UNCHANGED partial

\* A group with thread_begin = -1: "elect any".
EnterElect(n) ==
    /\ Len(stack) < MaxDepth
    /\ n \in PowersOfTwo /\ n <= Top.num
    /\ CASE n = Top.num -> Push(0, n, Top.tid) /\ UNCHANGED partial
         [] n = 1 /\ Top.num # 1 -> (Top.begin % WarpSize # 0 => ElectsOffWarp) /\ ElectOne(Top)
         [] OTHER -> /\ n % WarpSize = 0 /\ Top.num % WarpSize = 0 => ElectsWarps
                     /\ ElectMany(Top, n)
    /\ synced' = NoSync
    /\ UNCHANGED <<named, mbars>>

Leave ==
    /\ Len(stack) > 1
    /\ stack' = Front(stack)
    /\ synced' = NoSync
    /\ UNCHANGED <<named, mbars, partial>>

Extend(f, r, v) == [x \in DOMAIN f \union {r} |-> IF x = r THEN v ELSE f[x]]

\* _mbarrier_sync: one barrier per range, for as many arrivals as it has threads.
MbarrierSync(r) ==
    /\ mbars' = IF r \in DOMAIN mbars THEN mbars ELSE Extend(mbars, r, r[2] - r[1])
    /\ synced' = [kind |-> "mbarrier", level |-> Top]
    /\ UNCHANGED named

\* Mutant: barrier ids are handed out by the size of the range.
NamedSync_BySize(r) ==
    /\ named' = Extend(named, r, 1 + (((r[2] - r[1]) \div WarpSize) % MaxNamed))
    /\ synced' = [kind |-> "named", level |-> Top]
    /\ UNCHANGED mbars

\* _try_allocate_named_barrier; next_barrier_id is one more than the ids given out.
NamedSync(r) ==
    /\ named' = IF r \in DOMAIN named THEN named
                ELSE Extend(named, r, Cardinality(DOMAIN named) + 1)
    /\ synced' = [kind |-> "named", level |-> Top]
    /\ UNCHANGED mbars

Primitive(kind) == synced' = [kind |-> kind, level |-> Top] /\ UNCHANGED <<named, mbars>>

\* Mutant: the first thread is not asked to begin a warp.
SyncByWarp_AnyBegin(b, n) == n % WarpSize = 0

\* Whether a barrier instruction of whole warps fits the range.
SyncByWarp(b, n) == b % WarpSize = 0 /\ n % WarpSize = 0

\* SyncContext.sync for the innermost group.
SyncGroup ==
    LET r == RangeOf(Top)
        b == Top.begin
        n == Top.num
    IN  /\ Cardinality((DOMAIN named \union DOMAIN mbars) \ {r}) < MaxRanges
        /\ CASE n = NumThreads -> Primitive("cta")
             [] n = 1 /\ n # NumThreads -> Primitive("single")
             [] n = WarpSize /\ n # NumThreads /\ SyncByWarp(b, n) -> Primitive("warp")
             [] n \in 2 .. WarpSize - 1 /\ b % WarpSize = 0 -> Primitive("lanes")
             [] n > WarpSize /\ n # NumThreads /\ SyncByWarp(b, n) ->
                  IF r \in DOMAIN named \/ Cardinality(DOMAIN named) < MaxNamed
                    THEN NamedSync(r) ELSE MbarrierSync(r)
             [] OTHER -> MbarrierSync(r)
        /\ UNCHANGED <<stack, partial>>

GroupNext ==
    \/ \E n \in GroupSizes : EnterElect(n) \/ \E b \in GroupBegins : EnterFixed(b, n)
    \/ Leave \/ SyncGroup

GroupSpec == GroupInit /\ [][GroupNext]_groupVars
-----------------------------------------------------------------------------
\* A group's body is executed by exactly as many threads as the group has, and
\* they number themselves 0, 1, ... ("execute with exactly one thread").
ExactlyItsThreads == \A i \in DOMAIN stack :
    /\ Cardinality(Executing(stack[i])) = stack[i].num
    /\ {stack[i].tid[t] : t \in Executing(stack[i])} = 0 .. stack[i].num - 1

\* A group with a fixed first thread runs on the threads begin .. end - 1 that
\* the compiler has on its stack ("only threads 32-63 execute this").
FixedInPlace == \A i \in DOMAIN stack :
    ~stack[i].elected => Executing(stack[i]) = RangeThreads(RangeOf(stack[i]))

\* A shuffle or election over the full mask is executed by whole warps only.
WholeWarpsShuffle == ~partial

\* The synchronisation emitted for a group waits for the threads that execute
\* it, no fewer and no more, with the granularity its instruction has.
SyncComplete ==
    LET group == Executing(synced.level)
        b     == synced.level.begin
        n     == synced.level.num
    IN  CASE synced.kind = "none" -> TRUE
          [] synced.kind = "cta" -> group = BlockThreads
          [] synced.kind = "single" -> Cardinality(group) = 1
          [] synced.kind = "warp" -> \E w \in BlockWarps : group = WarpLanes(w)
          [] synced.kind = "lanes" -> \E w \in BlockWarps :
                group = {t \in WarpLanes(w) : t % WarpSize < n}
          [] synced.kind = "named" ->
                /\ Cardinality(group) = n
                /\ \A w \in BlockWarps : WarpLanes(w) \cap group \in {{}, WarpLanes(w)}
          [] synced.kind = "mbarrier" -> mbars[<<b, b + n>>] = Cardinality(group)

\* Groups of different threads never meet at one barrier: ids are in range and
\* their own, and a range keeps the kind of barrier it was given.
BarriersSeparate ==
    /\ \A r, s \in DOMAIN named : r # s => named[r] # named[s]
    /\ DOMAIN named \cap DOMAIN mbars = {}
    /\ \A r \in DOMAIN named : named[r] \in 1 .. MaxNamed
=============================================================================

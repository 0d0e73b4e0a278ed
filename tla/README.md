# Models of tilus

TLA+ models of tilus: processes that share the cache directory; what the
compiler computes about a kernel (alignment and value analyses, layouts, passes
over statements, the placement of shared memory, thread groups); and what
generated kernels do when they run (pipelines of asynchronous copies, blocks that
add to a tile in turn, reductions and scans). TLC checks every model on small
instances; TLAPS proves the safety of the program cache, the dispatch table, the
allocator, thread groups, the scalar and the grid analysis, the passes, register
layouts, the pipeline, the split kernels and the warps of collectives for every
instance. File names below are under
`python/tilus/` unless they say otherwise.

## 1. The system and its parts

A tilus *script* is a Python class. Calling it

1. translates the method body to the tilus IR (`lang/transpiler`), once per
   schedule of the tuning space,
2. transforms the IR and infers layouts (`transforms`, `ir/layout`),
3. emits Hidet IR (`backends`), which Hidet's passes and code generator turn
   into CUDA and `nvcc` into `lib.so` (`hidet`),
4. files program, options and library in the cache directory (`drivers.py`),
5. measures the schedules' programs, picks the fastest for the arguments'
   tuning key, records it in a dispatch table next to the programs and calls it
   (`lang/instantiated_script.py`).

| component | state | operations | hard about it |
|---|---|---|---|
| program cache (`drivers.py`, `runtime/compiled_program.py`) | `program.txt`, `options.txt`, `lib.so`, `.lock` per directory; per-process memo of directories | `get_cache_dir`, `build_program`, `load_compiled_program` | many processes on one directory, a test before the lock and one under it, crashes |
| JIT instance (`lang/instantiated_script.py`) | lists of valid and compiled programs, dispatch table in memory and on disk, function table | `__call__`, `_build_programs`, `_pick_best_program`, `load/dump_dispatch_table` | the same, with noisy measurements, partial builds, different machines |
| shared-memory allocation (`backends/contexts/smem_alloc_ctx.py`, `mbarrier_alloc_ctx.py`) | free list, sizes, high-water mark, workspace, barrier counts | `allocate`, `free`, `request_shared_workspace`, `finalize` | long sequences of allocations and frees, alignment, what is placed last |
| thread groups (`backends/codegen.py`, `ir/utils/thread_group_stack.py`, `backends/contexts/sync_ctx.py`) | stack of ranges, named barriers, mbarriers | `visit_ThreadGroupStmt`, `sync` | compile-time ranges and run-time conditions computed apart; barriers run out |
| pipeline (`lang/classes/pipeline.py`, `lang/instructions/mbarrier.py`) | two rings of mbarriers, stage and phase per thread | acquire, release, advance, drain | concurrent producers, consumers and copies; one-bit phases |
| analyzers (`ir/analyzers`) | a description of the values of every expression; a set of values of every variable | `visit_*`, `analyze_scalar`, `analyze_grid` | claims about all values from a few numbers; a fixpoint with bounds given up |
| layouts (`ir/layout`) | modes, strides, swizzles | compose, divide, reduce, permute, reshape, ... | algebra of indices over many operations |
| passes (`transforms`) | the statements; a memo of replaced variables and tensors | one rewriter per pass | rewriting in the order of the text what runs in another order |
| collective emitters (`backends/emitters/reduce.py`, `scan.py`) | the kernel's one workspace | phases within a thread, a warp, between warps | warps run the phases at their own speed |
| split kernels (`examples/matmul/matmul_v5.py`, `examples/attention/flash_attention_v3.py`, `backends/emitters/cuda/semaphore.py`, `hidet/include/tilus/context.h`) | semaphores in a workspace that survives launches, partial tiles | lock, load, add, store, release | blocks wait for blocks; the next kernel needs zeros |
| other contexts (`leader_lane_ctx`, `tcgen05_ctx`, ...) | one value per kernel | allocate, finalize | limits of tensor memory |
| target scope (`target.py`), options (`option.py`) | process-wide current values | `scope`, setters | values read at different times |
| worker processes (`utils/multiprocess.py`) | a global job queue | `parallel_imap` | order of results, nested use |
| cache clearing (`utils/cache_utils.py`) | none | `clear_cache` | removes what others use |
| front end, IR, verifier, layout inference, Hidet IR and passes | immutable trees | pure functions | algorithms, not interleavings |
| examples, tests, docs | | | what kernels do with the pipeline; what the code promises |

The first two meet on disk: `_build_programs` calls the program cache once per
schedule, and the dispatch table names programs by their place in the list of
those that built. The allocator and the thread groups meet in the code
generator, which visits the kernel's statements in order, pushes and pops
groups, and finalizes barriers before shared memory. A kernel's pipeline runs on
the barriers and shared memory those two placed, and its collectives on the one
workspace the allocator keeps for them. The grid analyzer takes divisors from the
scalar analyzer; emitters take the width of their accesses from it, and lay them
out by the layouts' algebra. The split kernels meet all other kernels of a
process in the clean workspace of the run-time context.

### What makes each part correct

* Program cache: never two builders in one directory; a finished library is
  never overwritten; every returning call loads the library of its own program
  and target; every call ends; a warm directory is hit.
* JIT instance: one tuner at a time; processes of one environment dispatch a key
  alike; nobody's entries are lost; an index means the program that was
  measured; tables are honest about their environment; every call ends.
* Allocator: live tensors share no byte; the free list is exactly the free
  bytes; the arena holds tensors, barriers and workspace; nothing fails while
  there is room.
* Thread groups: the body runs on exactly the threads asked for; no warp
  executes a full-mask shuffle in part; each synchronisation waits for exactly
  its group; no two groups meet on one barrier.
* Pipeline: a consumer reads its own tile, complete; no copy is in flight into a
  stage being read; waits cannot be passed by the wrong phase; all tiles get
  through; the drain waits for the last reader.
* Analyzers: a claim about an expression holds of all its values; a set contains
  every value its variable takes; the iteration ends.
* Layouts: no two elements in one place; every operation puts each element where
  its documentation says; division undoes composition.
* Passes: the compiled program has the effects of the source, in its order.
* Collectives: every thread gets the combination of exactly its elements in
  their order, whatever the warps' speeds.
* Split kernels: a tile is the sum of exactly its splits, each once; the clean
  workspace is zero again after each launch; every launch ends.

## 2. Modules

| module | models | run by |
|---|---|---|
| `ProgramCache` | `drivers.py`, the loader, the compiler run | `MCProgramCache` |
| `ProgramCacheProofs` | theorems about it | tlapm |
| `JitInstance` | the JIT instance and its dispatch table | `MCJitInstance` |
| `JitInstanceProofs` | theorems about it in every environment; about processes that share one; the refinement | tlapm |
| `DispatchChoice` | abstract: one choice per key, learned by processes | refined by `JitInstance` |
| `SmemAllocator` | the allocator and what is placed at the end | `MCSmemAllocator`, `MCCompiler` |
| `SmemAllocatorProofs` | theorems about it, and the refinement | tlapm |
| `SharedArena` | abstract: bytes with owners, lowest fit | refined by `SmemAllocator` |
| `ThreadGroup` | group conditions, the stack, synchronisation | `MCThreadGroup`, `MCKernels` |
| `Pipeline` | pipelines as the Hopper kernels use them | `MCPipeline`, `MCKernels` |
| `PipelineProofs` | theorems about it, and the refinement | tlapm |
| `BroadcastRing` | abstract: a bounded ring read by all consumers | refined by `Pipeline` |
| `SplitK` | blocks that add to a tile in turn, the clean workspace | `MCKernels` |
| `Collectives` | reductions and scans in a thread group | `MCCollectives`, `MCKernels` |
| `KernelProofs` | theorems about `ThreadGroup`, `SplitK` and `Collectives` | tlapm |
| `GridAnalysis` | the grid analyzer | `MCCompiler` |
| `ScalarAnalysis` | the scalar analyzer | `MCCompiler` |
| `AnalysisProofs` | theorems about both analyzers | tlapm |
| `RegisterLayouts` | the algebra of register layouts | `MCCompiler` |
| `LayoutProofs` | theorems about `RegisterLayouts` | tlapm |
| `SharedLayouts` | layouts of shared tensors, swizzles | `MCCompiler` |
| `Transforms` | four passes over statements | `MCTransforms`, `MCCompiler` |
| `TransformsProofs` | theorems about it | tlapm |
| `Indices`, `Arith` | indices of shapes; divisors | used by the above |

`MCCompiler` and `MCKernels` put several components in one run each. Their
variable `subject`, chosen at the start, says which component moves; the others
keep an initial state. The components share no variable, so that a run asks the
same of each of them as a run of its own would.

Operators whose names have a suffix and whose comment begins with "Mutant" are
plausible faults of the definition they are named after; the specifications do
not use them. Each property fails when its mutant replaces the definition.

### ProgramCache

One process is a program counter over `build_and_load_program`. Files are values:
`NoFile`, `Empty` (opened for writing, truncated), a text, `Torn` (being written
by the linker) or the key it was compiled from. The actions follow the code's
file operations one by one, because everything between two of them is open to
other processes: `Stat` (the directory exists), `ReadProg`/`ReadOpts` (compare),
`OpenProg`, `WriteProg`, `OpenOpts`, `WriteOpts` (first use; no lock in the code),
`Remember` (the memo), `Fast` (the test without the lock), `Acquire`, `Recheck`
(the test under it), `StartLink`/`FinishLink`/`BuildFails`, `Release`, `Load`.
`Crash` frees the lock, as the operating system does, and leaves half-written
files. The compiler child (`subprocess.run`, tied to nothing) may die with its process or
work on alone: then it is one of `orphans`, which starts to link, finishes or fails by
itself, whoever has the lock by then. A linker that ends while another has `lib.so` open
leaves its own library or a mixture (`Linked`). Existence tests of two files
are one step: files are never removed. The memo's eviction is left out. The
target is the only part of the options the model keeps; `Digest` maps
(program, target) to a directory.

### JitInstance

One process calls the instance for keys of its choice. `BuildNext` takes the
schedules in order (`parallel_imap` returns them so): those in `CannotBuild` build in no
process, those in `MayFail` may fail in one and build in another. `BuildAborts` is an
exception in the parent, for schedules in `MayAbort`; `Sync` the locked load after the build, `Pick`,
`Acquire`, `Reload`, `Tune`, `OpenTable`, `WriteTable` are `_pick_best_program`.
Measured latencies are noise: any program may win. The report after the dump reads a
latency per recorded program and raises when one was recorded and not loaded (`Report`,
state `indexError`). The wildcard a fingerprint may hold is left out: only a user who
edits the file writes one. `SwitchEnv` is a change of
target scope or device between calls. An entry carries, for the properties only,
the schedule and the environment it was measured in.

### SmemAllocator

Emission is sequential, so the only choice is the kernel: which tensors it
allocates and frees, how large, with which alignment, when it asks for workspace
and barriers. `Allocate` takes the first slot that fits, `FreeShared` merges as
the code does, `FinalizeBarriers`, `FinalizeArena`, `LaunchKernel` follow in the
order of the code generator. The history variable `bridged` says whether a tensor
between two free slots has been freed; `MayBridge` bounds the runs to kernels that free
none, or not. One unit of the instances is 64 bytes.

### ThreadGroup

The model keeps the compiler's stack next to what the generated code does: which
threads pass the conditions and which thread index each computes. A shuffle reads
garbage from a lane that does not take part; `elect.sync` may choose any lane of a
warp. `EnterFixed` has the three conditions for groups with a first thread,
`EnterElect` those for groups without; `Sync` chooses the primitive.

### Pipeline

Each thread holds stage and phase. An mbarrier counts completed phases; its
phase bit is that number modulo 2 and waits see only the bit. A copy is in
flight between `StartCopy` and `CopyDone`, which come in any order. All copies of
one producer into one stage are one copy: their bytes are announced by one
arrival and the phase completes when all have landed. `ProducerDrain` is the
loop after the last tile in `examples/hopper_matmul/matmul_v4.py`. In this class
a producer waits on `_full_barriers`, which consumers arrive at, and a consumer on
`_empty_barriers`: the names are the reverse of the examples' own copies.

### SplitK

A launch is a grid of `tiles * splits` blocks. `Dispatch` gives the next block, in
the order of their indices, to a device that holds `Slots` of them; `Lock` is one
thread's wait on the tile's semaphore, `LoadPartial`, `Merge`, `Store` are per
thread, `SyncBlock` is the block's barrier before `ReleaseTile`, which hands the
semaphore to the next split or, at the last active one, resets it. A thread of the
attention kernel loads an element another thread stored, so the barrier matters.
An element is the sequence of splits summed in it. `Launch` requests the
workspace: the host grows it to a power of two and zeroes it only then
(`context.h`). A causal mask makes later splits of a tile inactive; these return
at once.

### Collectives

An instruction is a sequence of phases, the code's own: within a thread, within a
warp by shuffles, the first warps' store to the workspace, one turn per further
warp, the read back, a broadcast, for scans an offset to add. A warp runs its
phases alone until a synchronisation, and may be an instruction ahead. A value is
the sequence of elements combined in it, which tells apart a missing, a repeated
and a misplaced element. The register layout is given by the modes of the
dimension in threads and registers, as the emitters see it. A phase is a function
from a warp's registers and the workspace to the warp's registers
(`RegistersAfter`) and to what it stores (`Writes`, `Written`); the same functions
define the run with all warps in step (`InStep`), which the proofs compare with.
`LayoutAssumption` is what the emitters take from layout arithmetic: in no phase do
two warps store the same place.

### GridAnalysis

The visitor works in post-order, a stack machine: `VisitAxis`, `VisitVariable`,
`VisitConstant` push, `VisitBinary`, `VisitSwizzle`, ... replace their operands by
a result. Beside each claim, the stack keeps the vector of values it is about,
computed with integer arithmetic; `ClaimsHold` compares them. A segment of length n
is the indices with one quotient by n. Exclusive or is a constant, `BitXor`, which the
instance binds to the bits' and of which `XorAssumption` says what is used: it is
symmetric, zero changes nothing, and below a power of two that divides one operand the
other keeps its low bits. TLC evaluates it on all values of the instance. From eight kinds
of operand (`Cases`, section 5) the code claims too much. The model follows such an
operation, too, but puts `Overclaimed` in place of the claim, which claims nothing, and so
does everything built on it; all other subexpressions are checked beside it.

### ScalarAnalysis

`Analyze` visits one statement, joins its set into its variable's and counts the
moves of each bound; after `UPDATE_COUNT_LIMIT` the bound is given up. When a pass
changes nothing, the function runs: its arguments are any admitted values, its
statements run in any order in which variables are defined first, which covers
every loop and branch. `ValuesInSets` compares values and sets, for the functions none of
whose operations has operands from which the code's set is too small (`Reliable`;
`TooSmall`, section 5). The others are analyzed all the same: `ScalarAnalysisEnds` is about
them, too.

### RegisterLayouts, SharedLayouts

The state is one layout. The actions apply one operation each, so that the
reachable layouts are those that any sequence of operations builds within the
bounds, canonical form included. `LayoutIsRight` says of the layout reached that it is
well-formed (its modes split its shape and are above 1, each is listed once among threads
or registers) and that its two directions agree: the threads of an element by
`get_spatial` are those `locate_at` accepts, and `get_global` and `get_local` undo each
other. `LayoutOperationsRight` compares, for each layout reached
and each operation on it, the result with its definition by elements: where each
element is before and after; and that shared layouts give no two elements one
offset. Recursive definitions of the code are functions here.

### Transforms

A program is a sequence of statements; a pass visits them in the order of the text
with the functor's memo, one statement per step, the elimination too. `Effects` runs a program (`Run`), a loop's body twice, and gives
the sequence of its stores, atomics and what they saw; `Perform` is one statement: what
it sees, the variable it `Binds`, the tensor it `Puts`, the log. `PassesKeepEffects` compares
the result of each pass with the source.

`Programs` are the well-formed ones among `Sources`: a name is introduced before it is
used, one declaration per variable, one loop. An address of a variable is a whole expression;
the code allows it inside one, and does not see it there (section 5). Left out are the
pointer statement that the lowering inserts before a load or a store and the lowering of
`CopyAsync`, which only copies its operands. `TransformAssumption` says that names of
variables, names of tensors and `Nil` are apart and that sources are made of the
front end's statements over tensors of version 0; versions above are the ones the lowering
makes.

## 3. Runs

| run | instance | question |
|---|---|---|
| `cache_builds` | 3 processes, two of one target, 1 call each, 1 crash, weak fairness; 29,352 states | types, exclusion of the processes, own library; a finished library stays when no compiler is at work beside it; warm directories are hit; every call returns |
| `cache_orphan` | 2 processes, 1 crash | violated: the compiler of a killed builder and the next builder's write one library |
| `cache_mismatch` | 2 processes, 2 calls | violated: two first builders may see each other's half-written text |
| `jit_agree` | 3 interchangeable processes, 3 schedules of which the first never builds, 2 keys, 1 crash; 229,428 states | agreement, an index means its program, nothing forgotten, refinement of `DispatchChoice` |
| `jit_faults` | 2 processes, a schedule that may fail and one that may abort, a crash, two environments, weak fairness; 179,660 states | every call ends, honest tables |
| `compiler` | six subjects, see below; 81,690 states | claims, sets, layouts, passes, placement; refinement of `SharedArena`; the fixpoint ends |
| `smem_bridge` | 3 tensors, with `MayBridge` | violated: three-way merge leaves a stale slot |
| `transforms_out` | programs with loads into an existing tensor | violated: after a second load into one tensor the text reads the first load's data |
| `kernels` | four subjects, see below; 186,699 states | threads of groups, tiles, workspace, results of collectives, the pipeline's reads, phases and drain; refinement of `BroadcastRing`; every launch and every pipeline ends |
| `group_straddle` | block of 8, warps of 2 | violated: whole-warp group off a multiple of its size |
| `collective_groups` | 2 groups of 2 warps | violated: groups side by side share the workspace |
| `pipe_drain` | 2 tiles in 3 stages | violated: the drain ends early |

**Bounds.** A second call of a process is what it left in memory and on disk, which
a process that starts later sees too: in `cache_builds` the third process is that
one, and three processes are one to act, one to interfere and one to arrive
later; one crash can hit every step. That a process calls once means that its memo
is not read; it is covered by `CallersGetTheirOwn`. Three schedules of which the first
never builds give two programs whose places are not their schedules' numbers; they and two
keys suffice for an index to be wrong and an entry to be lost. No property of `jit_agree`
tells processes apart and none is about liveness: the processes are a symmetry set.

Instances of `compiler`:

* grid: a dimension of 8, expressions of up to five nodes with two operands
  waiting, literals 0, 1, 2, 4, 8 and variables with a known divisor: runs and
  constant segments shorter than, equal to and beyond each other and the
  dimension.
* scalar: all functions of three statements from `Starts`, `Middles`, `Finishes`: an
  initial value, constant or bounded or not or a loop's counter, a change of it in
  terms of itself, a use. The limit of updates is 2 (10 in the code), so that it is
  reached by a loop and not by a constant.
* registers: tensors of at most 8 elements, 4 threads, rank 2, three spatial modes;
  every sequence of operations within them. Two modes on either side are the
  fewest that can be ordered differently.
* shared: at most 12 elements (other than 8 or 16 rows for swizzles) in two
  dimensions, 6 = 2 * 3 so that strides are not all powers of two.
* passes: programs of seven statements, one choice per place (`MCTransforms`):
  renamings of variables that change, loads and reads on either side of a loop,
  tensors written in place, dead and live chains.
* arena: three tensors of sizes 1 to 3, alignments 2 and 4, a limit of 10 units of
  64 bytes: every merge (none, left, right), every kind of gap, and no room.

Instances of `kernels`:

* groups: a block of 16 in warps of 4, nested two deep below the block: groups of
  less than a warp, one, several and three warps; three ranges overflow two named
  barriers.
* split: three blocks resident, two launches of `Matmul(1 tile, 3 splits)`,
  `Matmul(2, 2)`, attention with five queries in blocks of 2 and splits of 2 or 4 keys
  (three tiles, causal), two threads: a launch that needs more blocks than fit, one
  that grows the workspace and one that reuses it.
* collectives: one group of 4 warps of 2 lanes, pairs of instructions one after the
  other: a dimension in registers, in lanes alone (the broadcast), warps, across both,
  beside others and beside repeated data. TLC also evaluates `StepAssumption`: each of these programs,
  its warps in step, comes to its end with right results.
* pipeline: 2 producers, 2 consumers, 7 tiles in 3 stages, which goes round twice and a
  bit, so that each phase bit is seen again.

**Fairness.** Weak fairness of a process's own steps: the operating system
schedules a running process, and a process that polls a free lock gets it. Crashes,
calls and switches are never fair. In the pipeline, warps of a resident block make
progress and copies complete; each is weakly fair. In `SplitK` the device is fair as
one: some block that can run does. `Analyze` is fair because the analysis is a
sequential program.

**Deadlock** is checked nowhere: processes stop after their bounded calls, an
emission after its launch, a kernel after its last tile or launch. Waiting for ever
is what the liveness properties are about: `CallsReturn`, `CallsEnd`, `PipelineEnds`,
`SplitEnds`, `ScalarAnalysisEnds`.

## 4. Proofs

`ProgramCacheProofs` proves for any number of processes, programs, targets and
directories, and any bounds:

* `TypeInvariant`: `Spec => []TypeOK`.
* `BuildInvariant`: `TypeOK /\ LockInv /\ FilesInv` is inductive. Exclusion alone
  is not: that a builder's directory has no finished library depends on the
  second test under the lock, and that this test sees a finished library depends
  on both text files being there, since `compiled_program_exists` asks for all
  three. `LockInv` says a process in the locked region holds the lock and what
  `lib.so` is while it compiles and links; `FilesInv` says a directory that
  `get_cache_dir` has returned, or will return at this point of its progress, has
  its text files, also through the memo.
* `BuildersExclude` follows, and `FinishedLibraryStays` (an action property): a finished
  library stays while no compiler is at work in its directory, neither a living builder's
  nor an orphan. Exclusion is of processes; of compilers it does not hold (`cache_orphan`),
  and an orphan that ends late may replace a library, which is why the theorem has its
  condition.
* `CallersGetTheirOwn`: `OwnLibrary`, with `DirInv` added: the directory a process
  works in is the digest of its call. It assumes `DigestInjective` (no two keys in
  one directory) and `OneTarget` (no process changes its target); without the
  second it is false, see below.

`JitInstanceProofs` proves for any number of processes, schedules and keys,
whatever builds fail or abort and whoever crashes:

* `JitTypeInvariant`: `Spec => []TypeOK`. It needs `Tuned`: a process that opens
  or writes the table has an entry for its key, so that the entry it serves
  afterwards is one.
* `TunersExclude`: `TuningExclusive`.
* `TablesAreHonest`: `EnvHonest`, assuming `MayRelabel = FALSE`. Its strengthening
  `OwnEntries` says that tables in memory, too, have only entries measured in
  their process's environment: a writer files the whole of its table.

The second part of the module assumes `OneMachine`: one environment for all processes, no
schedule that fails to build in some of them only, and no exception in the parent while
loading. Schedules that build nowhere are allowed. Without it the theorems are
false (section 5). `AgreementInv` has seven parts, inductive together with the
above:

* `SameEnv`: a table on disk has everybody's fingerprint, so whoever reloads it
  takes it. `Built`: a list of programs has schedules that build, each at its `Place`, the
  number of schedules up to it that build. `IndexIsPlace`: the index of an entry is the
  place of its schedule. That a place selects one schedule, and in every process the same,
  is what `IndexSelectsWinner` comes to.
* `Dispatched`: the function table follows the table in memory. `Agree`: tables in
  memory agree.
* `Known`: an entry in memory is on disk, unless a crash left the file torn or its
  tuner still holds the lock. `Tuning`: a process about to tune has, at that
  moment, exactly the file's entries, the file has none for its key, and while
  it writes, its table covers everyone's.

`Agree` alone is not inductive: that a new entry disagrees with nobody's follows
from `Known` and the reload under the lock, and that the new file loses nothing
from `Tuning`. After a crash has torn the file nobody gets to `tune` again, which
is why `Known` may except it. Then `AllServeAlike` (`ServedAgree`),
`IndexSelectsWinner` (`IndexMeansSchedule`) and `NoEntryLost`
(`NothingForgotten`) follow, and `TableImplementsChoice`: the first write of a key's
entry to the file is the choice, a process learns it when its table in memory gets
the entry, and every other step changes neither. That the choice is never made
twice is `Tuning` and `Known` again.

`SmemAllocatorProofs` proves for any tensors, sizes, alignments and limits, and
kernels of any length. `Invariant` says:

* `SlotsOK`: slots are disjoint, not empty, and no two touch. `Blocks`: blocks in use
  are disjoint and below the high-water mark. `Cover`: every byte is in a slot or in
  a block, never in both. `Names`: each block is of one live tensor. `Counted`:
  `allocated` is the number of bytes in use.
* `Settled` and `Below`: what the arena was given when the kernel was complete lies
  above every byte a tensor ever touched.

The free list is sorted again after every change, and the definition chooses slots by
their rank in the order; the lemmas on `Rank` and `Sorted` say that a sorted list has
the same slots in order, and those on slots what taking one out, cutting it and
putting one in do to the bytes covered. A freed block may touch a slot on its left,
on its right, on both or on neither; `MergedIs` is the case split. The invariant holds
until a tensor that touches two slots is freed: that leaves an overlapping list
(`smem_bridge`). So the theorems say `~bridged =>`; nothing is assumed of the kernel. With
this condition `TypeOK`, `LiveApart`, `FreeListExact`, `FreeNeverFails` and `ArenaHolds`
follow, each as a theorem, and, of the kernels that never do that (`[]~bridged`),
`FreeListImplements` (`ImplementsArena`): every allocation is at the lowest aligned run
of free bytes, and fails only when there is none, so that merging hides no room.

`KernelProofs` proves of `ThreadGroup`, for any number of threads up to a block of 1024, any warp
size that is a power of two, and nestings of groups of any depth:

* `BarriersStaySeparate` (`BarriersSeparate`), without a hypothesis: two ranges never
  get the same named barrier, and a range stays with a named barrier or with an
  mbarrier. `BInv` is inductive alone: a range is remembered where it was first
  synchronised, and ranges get an mbarrier only when named ones are used up or do not
  fit, which never turns back.
* Under `Regular`, which leaves out the three shapes of group of section 5
  (`Straddles`, `ElectsWarps`, `ElectsOffWarp`), every level of the stack is a range of
  threads numbered from its begin or one elected thread of such a range
  (`GroupInvariant`). Both forms are needed: a level after an election has a begin
  that is not its thread. `GroupsHaveTheirThreads` (`ExactlyItsThreads`),
  `FixedGroupsInPlace` (`FixedInPlace`, which `group_straddle` refutes without
  `Regular`), `ShufflesWhole` (`WholeWarpsShuffle`) and `SyncWaitsForTheGroup`
  (`SyncComplete`) follow. The arithmetic is that of quotients by a group's size and
  by the warp's; that a size divides the warp or is divided by it comes from both
  being powers of two.

`AnalysisProofs` proves, for every function and every limit of updates, that what an accepted function computes is in the set of its variable
(`ValuesStayInSets`). `ApplySound` is the part about arithmetic: the set of each of the
seven operations admits every result, from lemmas about common divisors, corners of
products and C division. The invariant is the argument for the fixpoint:

* a parameter's set admits its arguments, since a join only grows and giving up a
  bound only widens (`ParametersKept`);
* while a pass has changed nothing, the statements it has seen are `Settled`: joining
  their right-hand sides adds nothing (`FixpointKept`). So at the end of an unchanged
  pass all are, by one and the same assignment of sets, and each step of the run keeps
  values in their sets, in whatever order statements run.

There is no assumption on the functions: `ScalarAssumption` only says what a function is
(operands are numbers or variables the function has). The property itself is about those
that are `Reliable`: operations whose operands have signs or divisors of section 5 make
the code's sets too small, and what is computed from them may be outside.

It also proves, for dimensions of any length and expressions of any size, that every claim holds of the values it is about (`ClaimsAlwaysHold`). Nothing is assumed of
the expressions; a subexpression of one of the kinds of section 5, and what is built on it,
carries no claim in the model (`Overclaimed`), so the theorem says nothing of those. The invariant
is that the stack holds right claims of numbers in range; the work is in a lemma per
operation (`SegmentsSound` collects them, `SwizzleSound` stands beside):

* A claim about segments of n elements holds for every divisor of n, except what begins
  them (`ContiguousWithin`, `RepeatsWithin`, `Within`); a claim is of runs or of constants,
  never of both (`OneKind`).
* A run that begins at multiples of d is congruent to the indices modulo a common
  divisor of d and its length (`RunSays`). Sums, remainders, quotients and comparisons
  of a run follow from this.
* Exclusive or with bits above those of a run moves the whole run (`LowBits`, `XorRun`), and
  a swizzle is one such move per segment (`MovedWithin`).

It assumes `GridAssumption`, on the leaves of expressions, and `XorAssumption`, the facts about
bits, which are an induction over bits and therefore not proved here.

`TransformsProofs` proves `PassesKeepTheEffects` (`PassesKeepEffects`) for programs of any
length, over any variables and tensors. Its parts:

* Two programs are run side by side (`Simulates`). One may lack a statement of the other
  and have other names; a `Match` says which variables and tensors hold the same value in
  both, which pairs correspond, and which nobody may look at. If statements that correspond keep
  such an agreement (`Agree`), so do the runs, the loop's second round included, and the
  effects are equal (`SimulatedEffects`). The second round is why an agreement has an
  early and a late form: a tensor that is renamed agrees after its load only, and the loop
  comes back before it.
* A pass changes a program in three ways, each of which is one simulation: a let
  goes and its name with it (`LetRemovedEffects`), a load gets another tensor
  (`TensorReplacedEffects`), a statement or an output goes that nobody needs
  (`TrimmedEffects`).
* In the middle of a pass the program is half rewritten and need not have the source's
  effects. `Ahead` is what the pass will have made of it if it renames nothing more: the
  statements before the cursor as they are, the others rewritten with the present memo.
  The invariant is about the effects of `Ahead`, and a step of a pass either leaves `Ahead` as it is
  or changes it in one of the three ways.
* The invariant (`PassesInv`) has a part per pass. For let propagation
  (`LetPropagationInv`): a let gives its variable its only value and nobody mentions it
  before (`LetsOnce`), which comes from counting assignments in `DeclareToLet`; a
  variable taken for immutable is a parameter or bound by a let that was visited
  (`Immutable`); a variable replaced is bound by nobody (`Replacing`). The parameters'
  part holds only if no statement assigns to one, which the pass refuses when it gets
  there; so the effects are claimed under that condition. For the lowering
  (`LowerLoadStoreInv`): a load writes a tensor that nobody mentions before
  (`LoadsFirst`), new tensors have versions below the cursor. For the elimination: the inputs of what
  counts are among the tensors used (`Counted`), and once a sweep marks nothing also the
  inputs of what writes one (`Closed`, `MarkedIs`).

It assumes `~LoadOut`: no load writes an existing tensor. With one, the theorem is false
(`transforms_out`), and `LoadsFirst` is where the proof would fail.

`LayoutProofs` proves `RegisterLayoutsAreRight` (`LayoutIsRight`): for any shapes and any
numbers of threads, every layout that any sequence of operations reaches is well-formed
and consistent, bounds or not. It assumes `RegisterAssumption` only: dimensions and
numbers of threads are positive.

* The inductive invariant is `WellFormedLayout`. Validation alone would not do: that every mode is
  listed, which the code never checks, is what makes an element's register known. The
  canonical form of a valid layout with every mode listed is well-formed (`CanonicalIs`):
  dropping modes of size 1 keeps the products at the dimensions' ends (`PrefixSifted`), and
  merging a run of modes within a dimension keeps them at the heads of the runs
  (`MergedPrefix`, `MergedSplits`). Then each operation has a lemma that what it passes to
  `RegisterLayout` is valid with every mode listed, or that it raises (`ComposeIs`, `DivideIs`,
  `LeftDivideIs`, `ReduceIs`, `ReduceToIs`, `ConcatIs`, `PermuteIs`, `ReshapeIs`, `AutoIs`
  and the rest; `StepWell` collects them). For composition the modes of the two layouts are
  woven dimension by dimension (`WovenIs`); for division the sizes of each
  dimension are cut until the divisor's are at its end or its beginning (`DivideSizesIs`,
  `LeftDivideSizesIs`).
* `LayoutsAreConsistent`: a well-formed layout is consistent. Serial numbers and
  indices of a shape determine each other (`HornerUnique`, `DeserializeIs`); an index of the
  dimensions and the indices of their modes, too (`DealtOnce`, `CollectBack`); and since
  every mode is at one place of one list, so do those and the numbers of a thread and its
  register (`PlacedIs`).

The recursive functions of the model (products, sums by strides, digits) come with a
lemma that they exist and one that says what they are at each number: inductions over
numbers below a bound, done by the least counterexample.

`PipelineProofs` proves for any numbers of producers, consumers, stages and tiles.
A barrier of stage s that has completed T turns is at the tile `Due` = s + T * N.
`PipeInv` says, by tiles, what each barrier counts (`FullAt`: the consumers that have
not taken that tile; `EmptyAt`: the producers that have not sent it and the copies of
it that have not landed), what each stage holds (`StoredAt`), that a copy is into the
tile its stage is at (`CopiesRight`), that stage and phase of a thread are its tile's
(`Places`), and that no producer is a round ahead of any consumer and no consumer
ahead of what has landed (`Flow`). The last is what a wait establishes: that the
phase bit cannot be confused (`ProducerTurn`, `ConsumerTurn`) follows from who is still
counted, and so a wait that passes is passed by the turn it is for
(`ProducerWaits`, `ConsumerWaits`). Neither `ReadsItsTile` nor `PhaseNotAliased` is
inductive without the other. `PipelineInvariant` gives `ConsumersReadTheirTile`,
`StagesAreExclusive`, `PhaseBitSuffices`, `DrainIsComplete` (assuming
`NumStages <= NumTiles`; without it the drain is not complete, see `pipe_drain`) and
`BarriersImplementRing`: every step is one of `BroadcastRing` or none, a tile landing when
the last copy completes its barrier and being taken at the release.

It proves of `SplitK`, for all grids, threads, slots and launches. Each tile has a
turn: the splits below it are finished with the tile, those above have not
touched it, the semaphore holds its number. `SplitInvariant` has this with the
progress of the threads within the turn; `WorkspaceZeroBetweenLaunches`
(`WorkspaceRestored`) and `TilesAreComplete` (`TilesComplete`) follow. They rest on
`SplitKAssumption`: a block has threads 0, 1, ...; the attention launch has
q_len <= kv_len and block_q divides split_kv, so that every tile's active splits
end with the one that resets the semaphore. That the workspace's size, a power of two,
covers what is asked for is `NextPow2Covers`.

It proves of `Collectives`, for any warps, lanes, programs and layouts, that the speed
of the warps does not matter (`WarpsAsInStep`): at every moment each warp w of the
group has run some n[w] phases and has the registers it has after n[w] phases of
`InStep`. That the workspace is as in step cannot be said, since it holds what warps at
different phases left. The invariant says instead (`Follows`):

* No phase that one warp has run and another has not (`Between`) is a barrier. Every phase that
  uses the workspace is followed by a barrier (`PhasesGuarded`, for every instruction,
  through the concatenations that build the phases), so in between there is one such
  phase at most (`UsesThenBarrier`, `Alone`).
* A place of the workspace is as warp w would have it in step, unless another warp
  writes it in the phases between (`SpeaksFor`). A phase reads either what nobody writes
  in it, or, in a turn of a reduction, only what the warp itself writes (`ReadsAll`,
  `OwnPlaces`); that no other warp writes there is `LayoutAssumption`.

Then `CollectivesAreRight` (`ResultsRight`): if a program's results are right in step,
they are right in every interleaving. What the folds over modes and registers compute
in step is an induction over data; so that is a hypothesis, `RightInStep`, which TLC
evaluates on the instance. Without the barrier at the end of a reduction `PhasesGuarded`
fails, and so does `ResultsRight` in the run. `OneGroup` is assumed: with a second
group on the same workspace the theorem is false (`collective_groups`).

Proofs are laid out with a step per action, a lemma per part of an invariant;
lemmas are cited by name. The inductive invariants held on small instances before
they were proved.

Only model-checked: liveness (`CallsReturn`, `WarmHit`, `CallsEnd`, `PipelineEnds`,
`SplitEnds`, `ScalarAnalysisEnds`), which needs fairness and `ENABLED`; that each operation
on layouts does to the elements what it promises, and shared layouts, whose swizzles are
bitwise (`LayoutOperationsRight`); and what a collective computes in step, a fold over
data. The
runs whose properties fail have no theorem but
`FixedGroupsInPlace`.

## 5. Where code and words differ

Seven are runs that TLC finds violated:

* `cache_orphan` (`hidet/backend/build.py:75`): `nvcc` runs by `subprocess.run` and is not
  tied to the builder. When the builder is killed the system frees its lock, `nvcc` works
  on, and the next builder compiles beside it into the same `lib.so`, although the
  directory is locked "to prevent multiple processes from building the program at the same
  time" (`drivers.py:304`).
* `cache_mismatch` (`drivers.py:239`): texts are written outside the lock and
  truncated first, so a process building the same program can be told that the
  cached program is a different one; after a crash it is told so for good.
* `smem_bridge` (`smem_alloc_ctx.py:72`): freeing a tensor between two free slots
  keeps the right one in the list. Allocate 512, 512, free both, allocate 1024,
  1024 and 128 bytes: the last lies inside the one before.
* `group_straddle` (`codegen.py:351`): `thread_group(32, 64)` in a block of 128
  runs on threads 0..63; stack and barriers say 32..95.
* `pipe_drain` (`examples/hopper_matmul/matmul_v4.py:193`): with fewer tiles than
  stages the drain does not wait for the last ones.
* `transforms_out` (`lower_load_store.py:60`): a `load_global` with `out=` becomes a load
  into a new tensor, which the memo puts in place of the old one. At a second load into
  the same tensor t the output has been renamed to the first load's tensor t2, so the
  memo maps t2 to t3, and t still to t2: all later text, without any loop, reads the first
  load's data, and the second load is eliminated. And in a loop the text before the load
  keeps the old tensor.
* `collective_groups` (`smem_alloc_ctx.py:143`): thread groups that reduce side by side
  share the kernel's one workspace.

More were met while modelling. Some are behind constants that the passing runs set
so that they do not occur:

* `TargetsOf <- Retargeting`: `get_cache_dir`'s memo ignores the current target, so a
  `Program` built under a second target gets the first one's library
  (`OwnLibrary` fails; `drivers.py:192`). `InstantiatedScript.compile` keeps its
  instances alike (`instantiated_script.py:866`).
* State `badLib` of `ProgramCache`: the test without the lock can see `lib.so` while
  it is being written, and a crash leaves it so (`drivers.py:301`).
* State `tableError` of `JitInstance`: a crash between truncating and writing
  `dispatch_table.json` makes `json.load` raise (`instantiated_script.py:792`).
* `MayFail = {1}` in `jit_agree`: a schedule that fails to build in one process only shifts the
  indices there (`IndexMeansSchedule` fails; `:750`).
* `MayAbort = {2}` in `jit_agree`: an exception while loading leaves `valid_programs` longer
  than `compiled_programs`, no later call builds the rest (`:623`), and the tuner's report
  raises `IndexError` after the table is dumped (`:760`).
* `MayRelabel = TRUE`: a process that changes environment writes old entries under
  the new fingerprint (`EnvHonest` fails; `:790`).
* Barriers are placed after the body was emitted and may lie where a freed tensor
  was, though they live from the kernel's first statement
  (`mbarrier_alloc_ctx.py:50`).
* `ElectsWarps = TRUE`: electing some whole warps compares each thread with lane 0
  of its own warp and so elects all of them (`codegen.py:312`).
* `ElectsOffWarp = TRUE`: electing a thread in a group that begins inside a warp
  elects one per warp it touches (`codegen.py:296`).
* `Cases` of `GridAnalysis`, operands from which the claim is too strong: a constant minus a run
  claims an ascending one (`minus_run`); `//` keeps the divisor of a run longer than the
  divided segment (`divide_run`); `<`, `<=`, `==` with a constant side ask too little of
  alignment (`above_constant`, `equals_constant`); `^` of two known values computes `and`
  (`xor_known`); xor and swizzle of unaligned runs (`xor_unaligned`,
  `swizzle_unaligned`), the latter also for runs whose length is not a power of two: in a
  dimension of 6, an axis swizzled with mbase 2 is claimed to have runs of 2 that
  begin at multiples of 4, but the second begins at 2 (`grid_analyzer.py:565`); an element
  of a tensor is claimed constant although its index runs (`tensor_element`).
* `TooSmall` of `ScalarAnalysis`, operands from which the set is too small: quotients and
  remainders by a constant when neither it nor the known divisor divides the other
  (`Inexact`, 6 // 4 or 12 % 8; (n + 31) // 32 is right and is checked); negative operands
  of products, quotients and remainders (`AssumesPositive`). `is_constant`
  divides by zero for the set {0} as divisor, and a loop of extent 0 is rejected:
  these two are in the model as the end of the compilation.
* An attention launch in which block_q does not divide split_kv, or q_len > kv_len:
  the last active split of a tile is not the one that resets the semaphore
  (`SplitKAssumption`).

Others are not in the models:

* `cp_async.py:60` rejects only a continuity of 1, not every one below the access width.
* `global_layout.py:120` uses `//` for the inner index of a composition where `%` is meant.
* `rule_based_simplifier.py:52-56`: `and` binds tighter than the condition's layout suggests.
* `flash_attention_v3.py:191` prefetches keys at offset 0 rather than at the split's start,
  and with a causal mask its second loop may begin before that start.
* `gmem_alloc_ctx.py:39` counts bits as bytes: eight times the workspace needed.
* `global_strides` of a global layout takes the product of its shape as its size, also
  where strides leave gaps.
* The canonical form of register layouts is not unique with repeated modes ([-2, -2]
  and [-4]), against `register_layout.py:481`; `RegisterLayout` compares by structure
  but hashes by identity. `flatten` leaves out `end_dim`, which its documentation
  includes. `left_divide` splits only the first mode of a divisor.
* `shared_layout.py:370-375` compares the first mode of a run where `:327-329` describes
  the previous one; `count_size` does not know the swizzle, composing drops swizzles,
  slices of swizzled layouts are not checked for alignment, and
  `row_major_swizzle` spreads eight rows only over rows wide enough.
* `IRFunctor.visit` remembers dictionaries by `id()`, so `IRVisitor.visit_Instruction`
  (`functor.py:581-584`) in effect visits the attributes of the first instruction
  only. `IRVisitor.visit_Expr` does not descend: an address taken inside an expression
  is not counted, against "has never been addressed" (`declare_to_let.py:20`).
* Two streams that run split kernels at once share the clean workspace.
* That blocks start in the order of their indices is not promised by CUDA; the split
  kernels, and `SplitEnds`, depend on it.

## 6. Not modelled

The map covers about seven percent of the repository's lines. Most of the
rest is translation by cases without state of its own: one method per instruction
in the front end and the instruction interface, one class per statement and
instruction in the two IRs, one printer method per node, one table entry per
conversion. A model of these would repeat the code. Of the rest, left out are:

* Layout inference: a fixpoint over rules of about ninety instructions.
* Global layouts; `bound_aware_simplify`, whose decisions are `ScalarAnalysis`'s sets;
  the passes that insert prints and move expressions to the host.
* Tensor memory (`tcgen05_ctx`) and cluster launch control, and the persistent
  Blackwell kernel over them.
* `generate_schedules` and the rounding of tuning keys; `parallel_imap`'s queue (its
  order of results is used); `clear_cache`, and loss of files by hand.
* Hidet's own passes and code generator.
* Numerical results of kernels, memory-order flags of barriers (`sem`, `scope`), and
  the fences between proxies.
* The order at run time of memory that one thread group frees and another
  allocates; it depends on user kernels.

## 7. Plan

Done: program cache, JIT instance, allocator, thread groups, scalar and grid
analysis, passes, register layouts, pipeline, split kernels and collectives with proofs, and
all refinements; shared layouts and what operations on layouts promise model-checked. Left,
in this order:

1. `PersistentMatmul`: `examples/blackwell_matmul/matmul_v6.py`, several pipelines,
   cluster launch control and tensor memory, over `Pipeline`.
2. `ClearCache`: removal of directories against the program cache, and
   `parallel_imap`'s global queue.
3. Global layouts, `generate_schedules`, `lower_fast_div` against definitions.

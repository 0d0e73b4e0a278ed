----------------------------- MODULE JitInstance -----------------------------
(***************************************************************************)
(* One JIT instance of an autotuned script, used by several processes that *)
(* share its directory scripts/<name>/<key>: lang/instantiated_script.py,  *)
(* JitInstance._build_programs, _pick_best_program, load_dispatch_table    *)
(* and dump_dispatch_table, called through InstantiatedScript.__call__.    *)
(*                                                                         *)
(* dispatch_table.json maps a tuning key to an INDEX into the list of      *)
(* programs that the tuning process managed to build, next to the          *)
(* fingerprint of the environment.  An entry of the model also carries,    *)
(* for the properties only, the environment and the schedule the winner    *)
(* was measured with; no action reads these two fields.                    *)
(***************************************************************************)
EXTENDS Naturals, Sequences, FiniteSets

CONSTANTS
    Procs,       \* operating-system processes
    NumScheds,   \* schedules of the tuning space, in their order: 1 .. NumScheds
    TuningKeys,  \* buckets of the integer arguments
    Envs,        \* fingerprints: GPU, capability, CUDA, target, tilus version
    EnvsOf,      \* [Procs -> SUBSET Envs]: the environments a process runs in
    CannotBuild, \* schedules whose build fails in every process
    MayFail,     \* schedules whose build may fail in one process and not in another
    MayAbort,    \* schedules whose resolution or loading may raise in the parent
    MayRelabel,  \* may the environment change once the process holds table entries?
    None,        \* no entry, no holder, no function
    Absent,      \* dispatch_table.json does not exist
    TornFile,    \* dispatch_table.json is truncated and not yet written
    MaxCalls,    \* bound: calls by one process
    MaxCrashes   \* bound: crashes in one behaviour

Scheds == 1 .. NumScheds

ASSUME SchedsAssumption == NumScheds \in Nat \ {0}
ASSUME EnvsOfAssumption == EnvsOf \in [Procs -> SUBSET Envs \ {{}}]
ASSUME FaultAssumption ==
    /\ CannotBuild \subseteq Scheds /\ MayFail \subseteq Scheds /\ MayAbort \subseteq Scheds
    /\ MayRelabel \in BOOLEAN
ASSUME JitBoundAssumption == MaxCalls \in Nat /\ MaxCrashes \in Nat
ASSUME NoneAssumption ==
    None \notin Procs \union Scheds \union [index : Nat \ {0}, sched : Scheds, by : Envs]

VARIABLES
    pc,        \* [Procs -> where the process is in its call]
    key,       \* [Procs -> tuning key of its latest call]
    env,       \* [Procs -> its current environment]
    job,       \* [Procs -> index of the next program to build]
    valid,     \* [Procs -> Seq(Scheds)]: valid_schedules
    compiled,  \* [Procs -> Seq(Scheds)]: compiled_programs
    table,     \* [Procs -> [TuningKeys -> Entry or None]]: dispatch_table in memory
    fn,        \* [Procs -> [TuningKeys -> Scheds or None]]: InstantiatedScript.dispatch_table
    file,      \* dispatch_table.json
    lock,      \* holder of the instance's .lock
    calls, crashes

vars == <<pc, key, env, job, valid, compiled, table, fn, file, lock, calls, crashes>>

Entry   == [index : Nat \ {0}, sched : Scheds, by : Envs]
Table   == [TuningKeys -> Entry \union {None}]
Saved   == [meta : Envs, entries : Table]
NoTable == [k \in TuningKeys |-> None]

ASSUME MarksAssumption == Absent \notin Saved /\ TornFile \notin Saved

Errors  == {"buildError", "abortError", "tableError", "benchError", "indexError"}
Resting == {"idle", "served"} \union Errors
Holding == {"reload", "tune", "dump", "write"}
Running == {"build", "sync", "pick", "acquire"} \union Holding

TypeOK ==
    /\ pc \in [Procs -> Resting \union Running]
    /\ key \in [Procs -> TuningKeys]
    /\ env \in [Procs -> Envs]
    /\ job \in [Procs -> 1 .. NumScheds + 1]
    /\ valid \in [Procs -> Seq(Scheds)]
    /\ compiled \in [Procs -> Seq(Scheds)]
    /\ table \in [Procs -> Table]
    /\ fn \in [Procs -> [TuningKeys -> Scheds \union {None}]]
    /\ file \in Saved \union {Absent, TornFile}
    /\ lock \in Procs \union {None}
    /\ calls \in [Procs -> 0 .. MaxCalls]
    /\ crashes \in 0 .. MaxCrashes

Init ==
    /\ pc = [p \in Procs |-> "idle"]
    /\ key \in [Procs -> TuningKeys]
    /\ env \in {e \in [Procs -> Envs] : \A p \in Procs : e[p] \in EnvsOf[p]}
    /\ job = [p \in Procs |-> 1]
    /\ valid = [p \in Procs |-> <<>>]
    /\ compiled = [p \in Procs |-> <<>>]
    /\ table = [p \in Procs |-> NoTable]
    /\ fn = [p \in Procs |-> [k \in TuningKeys |-> None]]
    /\ file = Absent
    /\ lock = None
    /\ calls = [p \in Procs |-> 0]
    /\ crashes = 0
-----------------------------------------------------------------------------
Goto(p, label) == pc' = [pc EXCEPT ![p] = label]

\* InstantiatedScript.__call__: the function table first, then _pick_best_program,
\* which builds only while no program has been recorded as valid.
Call(p) == \E k \in TuningKeys :
    /\ pc[p] \in Resting
    /\ calls[p] < MaxCalls
    /\ calls' = [calls EXCEPT ![p] = @ + 1]
    /\ key' = [key EXCEPT ![p] = k]
    /\ job' = [job EXCEPT ![p] = 1]
    /\ Goto(p, IF fn[p][k] # None THEN "served"
               ELSE IF valid[p] = <<>> THEN "build" ELSE "pick")
    /\ UNCHANGED <<env, valid, compiled, table, fn, file, lock, crashes>>

\* Mutant: the programs are recorded in the order they finish.
BuildNext_Unordered(p) ==
    /\ pc[p] = "build" /\ job[p] <= NumScheds
    /\ job' = [job EXCEPT ![p] = @ + 1]
    /\ \E list \in IF job[p] \in CannotBuild THEN {valid[p]}
                  ELSE {Append(valid[p], job[p]), <<job[p]>> \o valid[p]} :
          /\ valid' = [valid EXCEPT ![p] = list]
          /\ compiled' = [compiled EXCEPT ![p] = list]
    /\ UNCHANGED <<pc, key, env, table, fn, file, lock, calls, crashes>>

\* Mutant: the loop over the schedules runs once too often.
BuildNext_OneTooMany(p) ==
    /\ pc[p] = "build" /\ job[p] <= NumScheds + 1
    /\ job' = [job EXCEPT ![p] = @ + 1]
    /\ valid' = [valid EXCEPT ![p] = Append(@, job[p])]
    /\ compiled' = [compiled EXCEPT ![p] = Append(@, job[p])]
    /\ UNCHANGED <<pc, key, env, table, fn, file, lock, calls, crashes>>

\* The schedules come back in order.  One that was built is recorded as valid
\* and then loaded; one that failed to build is skipped, so that a program's
\* place in the two lists need not be its schedule's number.
BuildNext(p) ==
    /\ pc[p] = "build" /\ job[p] <= NumScheds
    /\ job' = [job EXCEPT ![p] = @ + 1]
    /\ \/ /\ job[p] \notin CannotBuild
          /\ valid' = [valid EXCEPT ![p] = Append(@, job[p])]
          /\ compiled' = [compiled EXCEPT ![p] = Append(@, job[p])]
       \/ job[p] \in CannotBuild \union MayFail /\ UNCHANGED <<valid, compiled>>
    /\ UNCHANGED <<pc, key, env, table, fn, file, lock, calls, crashes>>

\* get_cache_dir raises in the parent before the program is recorded, or
\* load_compiled_program raises after it is.
BuildAborts(p) ==
    /\ pc[p] = "build" /\ job[p] <= NumScheds /\ job[p] \in MayAbort
    /\ \/ job[p] \notin CannotBuild /\ valid' = [valid EXCEPT ![p] = Append(@, job[p])]
       \/ UNCHANGED valid
    /\ Goto(p, "abortError")
    /\ UNCHANGED <<key, env, job, compiled, table, fn, file, lock, calls, crashes>>

BuildDone(p) ==
    /\ pc[p] = "build" /\ job[p] > NumScheds
    /\ Goto(p, "sync")
    /\ UNCHANGED <<key, env, job, valid, compiled, table, fn, file, lock, calls, crashes>>

\* Mutant: the fingerprint is not compared.
FingerprintMatches_Always(p) == file \in Saved

\* tuning_metadata_matches: every field of the fingerprint is equal.  The
\* wildcard the code accepts besides is left out: no process writes one.
FingerprintMatches(p) == file \in Saved /\ file.meta = env[p]

\* load_dispatch_table: a matching file replaces the table in memory.
LoadTable(p) ==
    table' = [table EXCEPT ![p] = IF FingerprintMatches(p) THEN file.entries ELSE @]

\* The locked end of _build_programs.
Sync(p) ==
    /\ pc[p] = "sync" /\ lock = None
    /\ IF file = TornFile
         THEN Goto(p, "tableError") /\ UNCHANGED table  \* json.load raises
         ELSE /\ LoadTable(p)
              /\ Goto(p, IF compiled[p] = <<>> THEN "buildError" ELSE "pick")
    /\ UNCHANGED <<key, env, job, valid, compiled, fn, file, lock, calls, crashes>>

\* The program the table's index selects, or an IndexError.
Serve(p, entry) ==
    IF entry.index <= Len(compiled[p])
      THEN /\ fn' = [fn EXCEPT ![p][key[p]] = compiled[p][entry.index]]
           /\ Goto(p, "served")
      ELSE Goto(p, "indexError") /\ UNCHANGED fn

Pick(p) ==
    /\ pc[p] = "pick"
    /\ IF table[p][key[p]] # None
         THEN Serve(p, table[p][key[p]])
         ELSE Goto(p, "acquire") /\ UNCHANGED fn
    /\ UNCHANGED <<key, env, job, valid, compiled, table, file, lock, calls, crashes>>

\* Mutant: the lock is not waited for.
Acquire_NoWait(p) ==
    /\ pc[p] = "acquire"
    /\ lock' = p
    /\ Goto(p, "reload")
    /\ UNCHANGED <<key, env, job, valid, compiled, table, fn, file, calls, crashes>>

Acquire(p) ==
    /\ pc[p] = "acquire" /\ lock = None
    /\ lock' = p
    /\ Goto(p, "reload")
    /\ UNCHANGED <<key, env, job, valid, compiled, table, fn, file, calls, crashes>>

\* Mutant: the table is not read again under the lock.
Reload_Skipped(p) ==
    /\ pc[p] = "reload"
    /\ Goto(p, "tune")
    /\ UNCHANGED <<key, env, job, valid, compiled, table, fn, file, lock, calls, crashes>>

\* "load the dispatch table ... in case another process has updated it"
Reload(p) ==
    /\ pc[p] = "reload"
    /\ IF file = TornFile
         THEN Goto(p, "tableError") /\ lock' = None /\ UNCHANGED <<table, fn>>
         ELSE /\ LoadTable(p)
              /\ IF table'[p][key[p]] # None
                   THEN Serve(p, table'[p][key[p]]) /\ lock' = None
                   ELSE Goto(p, "tune") /\ UNCHANGED <<fn, lock>>
    /\ UNCHANGED <<key, env, job, valid, compiled, file, calls, crashes>>

\* Mutant: the schedule's number is recorded, not the program's place.
Tune_SchedNumber(p) ==
    /\ pc[p] = "tune"
    /\ \E i \in DOMAIN compiled[p] :
          table' = [table EXCEPT ![p][key[p]] =
                       [index |-> compiled[p][i], sched |-> compiled[p][i], by |-> env[p]]]
    /\ Goto(p, "dump")
    /\ UNCHANGED <<key, env, job, valid, compiled, fn, file, lock, calls, crashes>>

\* Any program may win: latencies are measured.  min([]) raises when nothing is loaded.
Tune(p) ==
    /\ pc[p] = "tune"
    /\ \E i \in DOMAIN compiled[p] :
          table' = [table EXCEPT ![p][key[p]] =
                       [index |-> i, sched |-> compiled[p][i], by |-> env[p]]]
    /\ Goto(p, "dump")
    /\ UNCHANGED <<key, env, job, valid, compiled, fn, file, lock, calls, crashes>>

\* Mutant: the exception leaves the lock held.
BenchFails_KeepsLock(p) ==
    /\ pc[p] = "tune"
    /\ Len(compiled[p]) # 1
    /\ Goto(p, "benchError")
    /\ UNCHANGED <<key, env, job, valid, compiled, table, fn, file, lock, calls, crashes>>

BenchFails(p) ==
    /\ pc[p] = "tune"
    /\ Len(compiled[p]) # 1
    /\ Goto(p, "benchError")
    /\ lock' = None
    /\ UNCHANGED <<key, env, job, valid, compiled, table, fn, file, calls, crashes>>

\* dump_dispatch_table truncates the file, then writes the whole table in memory.
OpenTable(p) ==
    /\ pc[p] = "dump"
    /\ file' = TornFile
    /\ Goto(p, "write")
    /\ UNCHANGED <<key, env, job, valid, compiled, table, fn, lock, calls, crashes>>

\* After the dump the tuner reports a latency for every program recorded as
\* valid: one that was recorded and never loaded has none, and latency[i] raises.
Report(p) ==
    IF Len(valid[p]) > Len(compiled[p])
      THEN Goto(p, "indexError") /\ UNCHANGED fn
      ELSE Serve(p, table[p][key[p]])

\* Mutant: only the new entry is written.
WriteTable_OneEntry(p) ==
    /\ pc[p] = "write"
    /\ file' = [meta |-> env[p],
                entries |-> [NoTable EXCEPT ![key[p]] = table[p][key[p]]]]
    /\ lock' = None
    /\ Report(p)
    /\ UNCHANGED <<key, env, job, valid, compiled, table, calls, crashes>>

WriteTable(p) ==
    /\ pc[p] = "write"
    /\ file' = [meta |-> env[p], entries |-> table[p]]
    /\ lock' = None
    /\ Report(p)
    /\ UNCHANGED <<key, env, job, valid, compiled, table, calls, crashes>>

\* The target scope or the current device changes between two calls.
SwitchEnv(p) == \E e \in EnvsOf[p] \ {env[p]} :
    /\ pc[p] \in Resting
    /\ table[p] # NoTable => MayRelabel
    /\ env' = [env EXCEPT ![p] = e]
    /\ UNCHANGED <<pc, key, job, valid, compiled, table, fn, file, lock, calls, crashes>>

\* The process dies and another takes its place with nothing in memory.
Crash(p) ==
    /\ pc[p] \in Running
    /\ crashes < MaxCrashes
    /\ crashes' = crashes + 1
    /\ Goto(p, "idle")
    /\ valid' = [valid EXCEPT ![p] = <<>>]
    /\ compiled' = [compiled EXCEPT ![p] = <<>>]
    /\ table' = [table EXCEPT ![p] = NoTable]
    /\ fn' = [fn EXCEPT ![p] = [k \in TuningKeys |-> None]]
    /\ lock' = IF lock = p THEN None ELSE lock
    /\ UNCHANGED <<key, env, job, file, calls>>

Build(p) == BuildNext(p) \/ BuildAborts(p) \/ BuildDone(p) \/ Sync(p)

PickBest(p) == \/ Pick(p) \/ Acquire(p) \/ Reload(p) \/ Tune(p) \/ BenchFails(p)
               \/ OpenTable(p) \/ WriteTable(p)

Step(p) == Build(p) \/ PickBest(p)

Next == \E p \in Procs : Call(p) \/ Step(p) \/ SwitchEnv(p) \/ Crash(p)

Spec == Init /\ [][Next]_vars

\* A running call is scheduled; a free lock is eventually taken by its poller.
FairSpec == Spec /\ \A p \in Procs : WF_vars(Step(p))
-----------------------------------------------------------------------------
\* Tuning, and the file it rewrites, belong to one process at a time.
TuningExclusive == \A p \in Procs : pc[p] \in Holding => lock = p

\* All processes dispatch a key to the same schedule, however their noisy
\* measurements disagree: the first to tune it decides for everyone.
ServedAgree == \A p, q \in Procs, k \in TuningKeys :
    fn[p][k] # None /\ fn[q][k] # None => fn[p][k] = fn[q][k]

\* An entry filed under a fingerprint was measured in that environment ("a
\* dispatch table tuned in one environment must not be silently reused in another").
EnvHonest == file \in Saved =>
    \A k \in TuningKeys : file.entries[k] # None => file.entries[k].by = file.meta

\* The index an entry stores selects, in every process of its environment that
\* would read it, the program that won ("records which program to use").
IndexMeansSchedule == file \in Saved =>
    \A p \in Procs, k \in TuningKeys :
        (pc[p] \in {"pick", "acquire", "reload"} /\ file.entries[k] # None /\ file.meta = env[p]) =>
            /\ file.entries[k].index <= Len(compiled[p])
            /\ compiled[p][file.entries[k].index] = file.entries[k].sched

\* The choice a key stands at: the lock holder's before it is on disk.
ChosenFor(k) ==
    LET informed == {p \in Procs : table[p][k] # None}
    IN  IF informed # {} THEN table[CHOOSE p \in informed : TRUE][k].sched
        ELSE IF file \in Saved /\ file.entries[k] # None THEN file.entries[k].sched
        ELSE None

Choice == INSTANCE DispatchChoice
            WITH chosen <- [k \in TuningKeys |-> ChosenFor(k)], learned <- fn

\* The lock and the file together implement one choice per key.
ImplementsChoice == Choice!Spec

\* What a process has learned is on disk: no writer drops another's entries.
NothingForgotten == file \in Saved =>
    \A p \in Procs, k \in TuningKeys :
        (pc[p] \notin Holding /\ table[p][k] # None) => file.entries[k] = table[p][k]

\* Every call ends, with a program or with an error.
CallsEnd == \A p \in Procs : pc[p] \in Running ~> pc[p] \in Resting
=============================================================================

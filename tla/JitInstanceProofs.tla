-------------------------- MODULE JitInstanceProofs --------------------------
(***************************************************************************)
(* Safety of the JIT instance's dispatch table for any number of           *)
(* processes, schedules, tuning keys and environments: types, one tuner at *)
(* a time, and tables that are honest about where they were measured.      *)
(* Then, for processes of one environment, their agreement, and the        *)
(* refinement of DispatchChoice.                                           *)
(***************************************************************************)
EXTENDS JitInstance, FiniteSetTheorems, TLAPS

Labels == Resting \union Running

\* Every label an action jumps to is one of the program counter's values.
LEMMA JitLabels ==
    /\ {"idle", "served"} \subseteq Labels
    /\ {"buildError", "tableError", "abortError", "benchError", "indexError"} \subseteq Labels
    /\ {"build", "sync", "pick", "acquire", "reload", "tune", "dump", "write"} \subseteq Labels
BY DEF Labels, Resting, Running, Errors, Holding

\* Going to a label keeps the type of the program counter.
LEMMA GotoType ==
    ASSUME TypeOK, NEW p \in Procs, NEW label \in Labels, Goto(p, label)
    PROVE  pc' \in [Procs -> Labels]
BY DEF TypeOK, Goto, Labels

\* What the lookup of an entry does to the program counter and the function table.
LEMMA ServeType ==
    ASSUME TypeOK, NEW p \in Procs, NEW entry \in Entry, Serve(p, entry)
    PROVE  /\ pc' \in [Procs -> Labels]
           /\ fn' \in [Procs -> [TuningKeys -> Scheds \union {None}]]
<1>1. CASE entry.index <= Len(compiled[p])
  <2>1. /\ compiled[p] \in Seq(Scheds)
        /\ entry.index \in Nat \ {0}
        /\ key[p] \in TuningKeys
    BY DEF TypeOK, Entry
  <2>2. compiled[p][entry.index] \in Scheds
    BY <1>1, <2>1
  <2>3. fn' \in [Procs -> [TuningKeys -> Scheds \union {None}]]
    <3>1. fn' = [fn EXCEPT ![p] = [fn[p] EXCEPT ![key[p]] = compiled[p][entry.index]]]
      BY <1>1 DEF Serve
    <3>2. fn[p] \in [TuningKeys -> Scheds \union {None}]
      BY DEF TypeOK
    <3>3. [fn[p] EXCEPT ![key[p]] = compiled[p][entry.index]]
            \in [TuningKeys -> Scheds \union {None}]
      BY <2>1, <2>2, <3>2
    <3>4. QED
      BY <3>1, <3>3 DEF TypeOK
  <2>4. QED
    BY <1>1, <2>3, GotoType, JitLabels DEF Serve
<1>2. CASE ~(entry.index <= Len(compiled[p]))
  BY <1>2, GotoType, JitLabels DEF Serve, TypeOK
<1>3. QED
  BY <1>1, <1>2

\* The report ends in the lookup or in an exception.
LEMMA ReportType ==
    ASSUME TypeOK, NEW p \in Procs, table[p][key[p]] \in Entry, Report(p)
    PROVE  /\ pc' \in [Procs -> Labels]
           /\ fn' \in [Procs -> [TuningKeys -> Scheds \union {None}]]
<1>1. CASE Len(valid[p]) > Len(compiled[p])
  BY <1>1, GotoType, JitLabels DEF Report, TypeOK
<1>2. CASE ~(Len(valid[p]) > Len(compiled[p]))
  BY <1>2, ServeType DEF Report
<1>3. QED
  BY <1>1, <1>2

\* A reload leaves a table of entries, and serves only an entry.
LEMMA LoadType ==
    ASSUME TypeOK, NEW p \in Procs, LoadTable(p)
    PROVE  /\ table' \in [Procs -> Table]
           /\ \A k \in TuningKeys : table'[p][k] \in Entry \union {None}
<1>1. (IF FingerprintMatches(p) THEN file.entries ELSE table[p]) \in Table
  BY DEF TypeOK, FingerprintMatches, Saved
<1>2. table' \in [Procs -> Table]
  BY <1>1 DEF LoadTable, TypeOK
<1>3. QED
  BY <1>2 DEF Table

\* A tuner that writes the table has an entry for the key of its call.
Tuned == \A p \in Procs : pc[p] \in {"dump", "write"} => table[p][key[p]] # None

\* Every step keeps the types.
LEMMA TypeStep == TypeOK /\ Tuned /\ [Next]_vars => TypeOK'
<1> SUFFICES ASSUME TypeOK, Tuned, [Next]_vars PROVE TypeOK'
  OBVIOUS
<1> USE JitLabels, GotoType
<1>1. ASSUME NEW p \in Procs, Call(p) PROVE TypeOK'
  <2>1. PICK k \in TuningKeys : Call(p)!(k)
    BY <1>1 DEF Call
  <2>2. calls' \in [Procs -> 0 .. MaxCalls]
    <3>1. calls[p] \in 0 .. MaxCalls /\ calls[p] < MaxCalls /\ MaxCalls \in Nat
      BY <2>1, JitBoundAssumption DEF TypeOK
    <3>2. calls[p] + 1 \in 0 .. MaxCalls
      BY <3>1
    <3>3. QED
      BY <2>1, <3>2 DEF TypeOK
  <2>3. key' \in [Procs -> TuningKeys] /\ job' \in [Procs -> 1 .. NumScheds + 1]
    BY <2>1, SchedsAssumption DEF TypeOK
  <2>4. pc' \in [Procs -> Labels]
    BY <2>1
  <2>5. QED
    BY <2>1, <2>2, <2>3, <2>4 DEF TypeOK, Labels
<1>2. ASSUME NEW p \in Procs, BuildNext(p) PROVE TypeOK'
  <2>1. job[p] \in Scheds /\ job[p] + 1 \in 1 .. NumScheds + 1
    BY <1>2, SchedsAssumption DEF BuildNext, TypeOK, Scheds
  <2>2. /\ valid[p] \in Seq(Scheds) /\ Append(valid[p], job[p]) \in Seq(Scheds)
        /\ compiled[p] \in Seq(Scheds) /\ Append(compiled[p], job[p]) \in Seq(Scheds)
    BY <2>1 DEF TypeOK
  <2>3. valid' \in [Procs -> Seq(Scheds)] /\ compiled' \in [Procs -> Seq(Scheds)]
    <3>1. CASE UNCHANGED <<valid, compiled>>
      BY <3>1 DEF TypeOK
    <3>2. CASE /\ valid' = [valid EXCEPT ![p] = Append(@, job[p])]
               /\ compiled' = [compiled EXCEPT ![p] = Append(@, job[p])]
      BY <2>2, <3>2 DEF TypeOK
    <3>3. QED
      BY <1>2, <3>1, <3>2 DEF BuildNext
  <2>4. job' \in [Procs -> 1 .. NumScheds + 1]
    BY <1>2, <2>1 DEF BuildNext, TypeOK
  <2>5. QED
    BY <1>2, <2>3, <2>4 DEF BuildNext, TypeOK
<1>3. ASSUME NEW p \in Procs, BuildAborts(p) PROVE TypeOK'
  <2>1. job[p] \in Scheds
    BY <1>3, SchedsAssumption DEF BuildAborts, TypeOK, Scheds
  <2>2. Append(valid[p], job[p]) \in Seq(Scheds)
    BY <2>1 DEF TypeOK
  <2>3. valid' \in [Procs -> Seq(Scheds)]
    BY <1>3, <2>2 DEF BuildAborts, TypeOK
  <2>4. pc' \in [Procs -> Labels]
    BY <1>3 DEF BuildAborts
  <2>5. QED
    BY <1>3, <2>3, <2>4 DEF BuildAborts, TypeOK, Labels
<1>4. ASSUME NEW p \in Procs, BuildDone(p) PROVE TypeOK'
  <2>1. pc' \in [Procs -> Labels]
    BY <1>4 DEF BuildDone
  <2>2. QED
    BY <1>4, <2>1 DEF BuildDone, TypeOK, Labels
<1>5. ASSUME NEW p \in Procs, Sync(p) PROVE TypeOK'
  <2>1. pc' \in [Procs -> Labels]
    BY <1>5 DEF Sync
  <2>2. table' \in [Procs -> Table]
    BY <1>5, LoadType DEF Sync, TypeOK
  <2>3. QED
    BY <1>5, <2>1, <2>2 DEF Sync, TypeOK, Labels
<1>6. ASSUME NEW p \in Procs, Pick(p) PROVE TypeOK'
  <2>1. table[p][key[p]] \in Entry \union {None}
    BY DEF TypeOK, Table
  <2>2. pc' \in [Procs -> Labels] /\ fn' \in [Procs -> [TuningKeys -> Scheds \union {None}]]
    <3>1. CASE table[p][key[p]] # None
      BY <1>6, <2>1, <3>1, ServeType DEF Pick
    <3>2. CASE table[p][key[p]] = None
      BY <1>6, <3>2 DEF Pick, TypeOK
    <3>3. QED
      BY <3>1, <3>2
  <2>3. QED
    BY <1>6, <2>2 DEF Pick, TypeOK, Labels
<1>7. ASSUME NEW p \in Procs, Acquire(p) PROVE TypeOK'
  <2>1. pc' \in [Procs -> Labels]
    BY <1>7 DEF Acquire
  <2>2. QED
    BY <1>7, <2>1 DEF Acquire, TypeOK, Labels
<1>8. ASSUME NEW p \in Procs, Reload(p) PROVE TypeOK'
  <2>1. CASE file = TornFile
    <3>1. pc' \in [Procs -> Labels]
      BY <1>8, <2>1 DEF Reload
    <3>2. QED
      BY <1>8, <2>1, <3>1 DEF Reload, TypeOK, Labels
  <2>2. CASE file # TornFile
    <3>1. /\ table' \in [Procs -> Table]
          /\ table'[p][key[p]] \in Entry \union {None}
      BY <1>8, <2>2, LoadType DEF Reload, TypeOK
    <3>2. /\ pc' \in [Procs -> Labels]
          /\ fn' \in [Procs -> [TuningKeys -> Scheds \union {None}]]
          /\ lock' \in Procs \union {None}
      <4>1. CASE table'[p][key[p]] # None
        BY <1>8, <2>2, <3>1, <4>1, ServeType DEF Reload
      <4>2. CASE table'[p][key[p]] = None
        BY <1>8, <2>2, <4>2 DEF Reload, TypeOK
      <4>3. QED
        BY <4>1, <4>2
    <3>3. QED
      BY <1>8, <3>1, <3>2 DEF Reload, TypeOK, Labels
  <2>3. QED
    BY <2>1, <2>2
<1>9. ASSUME NEW p \in Procs, Tune(p) PROVE TypeOK'
  <2>1. PICK i \in DOMAIN compiled[p] :
          table' = [table EXCEPT ![p][key[p]] =
                       [index |-> i, sched |-> compiled[p][i], by |-> env[p]]]
    BY <1>9 DEF Tune
  <2>2. [index |-> i, sched |-> compiled[p][i], by |-> env[p]] \in Entry
    <3>1. compiled[p] \in Seq(Scheds) /\ env[p] \in Envs
      BY DEF TypeOK
    <3>2. i \in Nat \ {0} /\ compiled[p][i] \in Scheds
      BY <3>1
    <3>3. QED
      BY <3>1, <3>2 DEF Entry
  <2>3. table' \in [Procs -> Table]
    BY <2>1, <2>2 DEF TypeOK, Table
  <2>4. pc' \in [Procs -> Labels]
    BY <1>9 DEF Tune
  <2>5. QED
    BY <1>9, <2>3, <2>4 DEF Tune, TypeOK, Labels
<1>10. ASSUME NEW p \in Procs, BenchFails(p) PROVE TypeOK'
  <2>1. pc' \in [Procs -> Labels]
    BY <1>10 DEF BenchFails
  <2>2. QED
    BY <1>10, <2>1 DEF BenchFails, TypeOK, Labels
<1>11. ASSUME NEW p \in Procs, OpenTable(p) PROVE TypeOK'
  <2>1. pc' \in [Procs -> Labels]
    BY <1>11 DEF OpenTable
  <2>2. QED
    BY <1>11, <2>1 DEF OpenTable, TypeOK, Labels
<1>12. ASSUME NEW p \in Procs, WriteTable(p) PROVE TypeOK'
  <2>1. table[p][key[p]] \in Entry
    BY <1>12 DEF WriteTable, Tuned, TypeOK, Table
  <2>2. pc' \in [Procs -> Labels] /\ fn' \in [Procs -> [TuningKeys -> Scheds \union {None}]]
    BY <1>12, <2>1, ReportType DEF WriteTable
  <2>3. file' \in Saved
    BY <1>12 DEF WriteTable, TypeOK, Saved
  <2>4. QED
    BY <1>12, <2>2, <2>3 DEF WriteTable, TypeOK, Labels
<1>13. ASSUME NEW p \in Procs, SwitchEnv(p) PROVE TypeOK'
  <2>1. PICK e \in EnvsOf[p] : env' = [env EXCEPT ![p] = e]
    BY <1>13 DEF SwitchEnv
  <2>2. e \in Envs
    BY EnvsOfAssumption
  <2>3. QED
    BY <1>13, <2>1, <2>2 DEF SwitchEnv, TypeOK
<1>14. ASSUME NEW p \in Procs, Crash(p) PROVE TypeOK'
  <2>1. pc' \in [Procs -> Labels]
    BY <1>14 DEF Crash
  <2>2. NoTable \in Table /\ [k \in TuningKeys |-> None] \in [TuningKeys -> Scheds \union {None}]
    BY DEF NoTable, Table
  <2>3. crashes' \in 0 .. MaxCrashes
    BY <1>14, JitBoundAssumption DEF Crash, TypeOK
  <2>4. /\ valid' \in [Procs -> Seq(Scheds)] /\ compiled' \in [Procs -> Seq(Scheds)]
        /\ table' \in [Procs -> Table]
        /\ fn' \in [Procs -> [TuningKeys -> Scheds \union {None}]]
    BY <1>14, <2>2 DEF Crash, TypeOK
  <2>5. QED
    BY <1>14, <2>1, <2>3, <2>4 DEF Crash, TypeOK, Labels
<1>15. CASE UNCHANGED vars
  BY <1>15 DEF vars, TypeOK
<1>16. QED
  BY <1>1, <1>2, <1>3, <1>4, <1>5, <1>6, <1>7, <1>8, <1>9, <1>10, <1>11, <1>12, <1>13,
     <1>14, <1>15 DEF Next, Step, Build, PickBest

\* Only the process that tunes writes an entry, and it keeps it until it rests.
LEMMA TunedStep == TypeOK /\ Tuned /\ [Next]_vars => Tuned'
<1> SUFFICES ASSUME TypeOK, Tuned, [Next]_vars,
                    NEW q \in Procs, pc'[q] \in {"dump", "write"}
             PROVE  table'[q][key'[q]] # None
  BY DEF Tuned
<1>1. ASSUME NEW p \in Procs, Call(p) PROVE table'[q][key'[q]] # None
  <2>1. q # p /\ pc'[q] = pc[q]
    BY <1>1 DEF Call, Goto, TypeOK
  <2>2. table' = table /\ key'[q] = key[q]
    BY <1>1, <2>1 DEF Call, TypeOK
  <2>3. QED
    BY <2>1, <2>2 DEF Tuned
<1>2. ASSUME NEW p \in Procs,
             BuildNext(p) \/ BuildAborts(p) \/ BuildDone(p) \/ Pick(p) \/ Acquire(p)
               \/ BenchFails(p)
      PROVE  table'[q][key'[q]] # None
  <2>1. table' = table /\ key' = key
    BY <1>2 DEF BuildNext, BuildAborts, BuildDone, Pick, Acquire, BenchFails
  <2>2. pc'[q] = pc[q]
    BY <1>2 DEF BuildNext, BuildAborts, BuildDone, Pick, Acquire, BenchFails, Serve, Goto, TypeOK
  <2>3. QED
    BY <2>1, <2>2 DEF Tuned
<1>3. ASSUME NEW p \in Procs, Sync(p) \/ Reload(p) \/ Crash(p) PROVE table'[q][key'[q]] # None
  <2>1. q # p
    BY <1>3 DEF Sync, Reload, Crash, Serve, Goto, TypeOK
  <2>2. pc'[q] = pc[q] /\ table'[q] = table[q] /\ key' = key
    BY <1>3, <2>1 DEF Sync, Reload, Crash, LoadTable, Serve, Goto, TypeOK
  <2>3. QED
    BY <2>2 DEF Tuned
<1>4. ASSUME NEW p \in Procs, Tune(p) PROVE table'[q][key'[q]] # None
  <2>1. PICK i \in DOMAIN compiled[p] :
          table' = [table EXCEPT ![p][key[p]] =
                       [index |-> i, sched |-> compiled[p][i], by |-> env[p]]]
    BY <1>4 DEF Tune
  <2>2. CASE q = p
    <3>1. compiled[p] \in Seq(Scheds) /\ env[p] \in Envs /\ key[p] \in TuningKeys
      BY DEF TypeOK
    <3>2. i \in Nat \ {0} /\ compiled[p][i] \in Scheds
      BY <3>1
    <3>3. [index |-> i, sched |-> compiled[p][i], by |-> env[p]] # None
      BY <3>1, <3>2, NoneAssumption
    <3>4. table'[p][key[p]] = [index |-> i, sched |-> compiled[p][i], by |-> env[p]]
      BY <2>1, <3>1 DEF TypeOK, Table
    <3>5. QED
      BY <1>4, <2>2, <3>3, <3>4 DEF Tune
  <2>3. CASE q # p
    <3>1. pc'[q] = pc[q] /\ table'[q] = table[q] /\ key' = key
      BY <1>4, <2>1, <2>3 DEF Tune, Goto, TypeOK
    <3>2. QED
      BY <3>1 DEF Tuned
  <2>4. QED
    BY <2>2, <2>3
<1>5. ASSUME NEW p \in Procs, OpenTable(p) PROVE table'[q][key'[q]] # None
  <2>1. pc[q] \in {"dump", "write"} /\ table' = table /\ key' = key
    BY <1>5 DEF OpenTable, Goto, TypeOK
  <2>2. QED
    BY <2>1 DEF Tuned
<1>6. ASSUME NEW p \in Procs, WriteTable(p) PROVE table'[q][key'[q]] # None
  <2>1. table' = table /\ key' = key
    BY <1>6 DEF WriteTable
  <2>2. pc'[q] = pc[q]
    BY <1>6 DEF WriteTable, Report, Serve, Goto, TypeOK
  <2>3. QED
    BY <2>1, <2>2 DEF Tuned
<1>7. CASE UNCHANGED vars \/ \E p \in Procs : SwitchEnv(p)
  BY <1>7 DEF vars, SwitchEnv, Tuned
<1>8. QED
  BY <1>1, <1>2, <1>3, <1>4, <1>5, <1>6, <1>7 DEF Next, Step, Build, PickBest

\* The types are inductive together with the tuner's entry.
LEMMA TunedInvariant == Spec => [](TypeOK /\ Tuned)
<1>1. Init => TypeOK /\ Tuned
  <2> SUFFICES ASSUME Init PROVE TypeOK /\ Tuned
    OBVIOUS
  <2>1. NoTable \in Table /\ [k \in TuningKeys |-> None] \in [TuningKeys -> Scheds \union {None}]
    BY DEF NoTable, Table
  <2>2. 1 \in 1 .. NumScheds + 1 /\ 0 \in 0 .. MaxCalls /\ 0 \in 0 .. MaxCrashes
    BY SchedsAssumption, JitBoundAssumption
  <2>3. pc \in [Procs -> Labels]
    BY JitLabels DEF Init
  <2>4. <<>> \in Seq(Scheds)
    OBVIOUS
  <2>5. TypeOK
    BY <2>1, <2>2, <2>3, <2>4 DEF Init, TypeOK, Labels
  <2>6. Tuned
    BY DEF Init, Tuned
  <2>7. QED
    BY <2>5, <2>6
<1>2. QED
  BY <1>1, TypeStep, TunedStep, PTL DEF Spec

\* The variables of the JIT instance keep their types in every reachable state.
THEOREM JitTypeInvariant == Spec => []TypeOK
BY TunedInvariant, PTL
-----------------------------------------------------------------------------
(***************************************************************************)
(* The lock.                                                               *)
(***************************************************************************)

\* A step of one process leaves the others where they are and takes the lock
\* from nobody else; who is among the holders afterwards has the lock.
LEMMA LockStep == TypeOK /\ TuningExclusive /\ [Next]_vars => TuningExclusive'
<1> SUFFICES ASSUME TypeOK, TuningExclusive, [Next]_vars, NEW q \in Procs, pc'[q] \in Holding
             PROVE  lock' = q
  BY DEF TuningExclusive
<1> USE DEF Holding
<1>1. ASSUME NEW p \in Procs,
             Call(p) \/ BuildNext(p) \/ BuildAborts(p) \/ BuildDone(p) \/ Sync(p) \/ Pick(p)
      PROVE  lock' = q
  <2>1. pc'[q] = pc[q] /\ lock' = lock
    BY <1>1 DEF Call, BuildNext, BuildAborts, BuildDone, Sync, Pick, Serve, Goto, TypeOK
  <2>2. QED
    BY <2>1 DEF TuningExclusive
<1>2. ASSUME NEW p \in Procs, Acquire(p) PROVE lock' = q
  BY <1>2, NoneAssumption DEF Acquire, Goto, TypeOK, TuningExclusive
<1>3. ASSUME NEW p \in Procs,
             Reload(p) \/ Tune(p) \/ BenchFails(p) \/ OpenTable(p) \/ WriteTable(p)
      PROVE  lock' = q
  <2>1. lock = p
    BY <1>3 DEF Reload, Tune, BenchFails, OpenTable, WriteTable, TuningExclusive
  <2>2. q = p
    <3>1. q # p => pc'[q] = pc[q]
      BY <1>3 DEF Reload, Tune, BenchFails, OpenTable, WriteTable, Report, Serve, Goto, TypeOK
    <3>2. QED
      BY <2>1, <3>1 DEF TuningExclusive
  <2>3. lock' = lock
    <3>1. CASE Reload(p)
      BY <2>2, <3>1 DEF Reload, Serve, Goto, TypeOK
    <3>2. CASE Tune(p) \/ OpenTable(p)
      BY <3>2 DEF Tune, OpenTable
    <3>3. CASE BenchFails(p) \/ WriteTable(p)
      BY <2>2, <3>3 DEF BenchFails, WriteTable, Report, Serve, Goto, TypeOK
    <3>4. QED
      BY <1>3, <3>1, <3>2, <3>3
  <2>4. QED
    BY <2>1, <2>2, <2>3
<1>4. ASSUME NEW p \in Procs, SwitchEnv(p) PROVE lock' = q
  BY <1>4 DEF SwitchEnv, TuningExclusive
<1>5. ASSUME NEW p \in Procs, Crash(p) PROVE lock' = q
  BY <1>5 DEF Crash, Goto, TypeOK, TuningExclusive
<1>6. CASE UNCHANGED vars
  BY <1>6 DEF vars, TuningExclusive
<1>7. QED
  BY <1>1, <1>2, <1>3, <1>4, <1>5, <1>6 DEF Next, Step, Build, PickBest

\* Tuning, and the file it rewrites, belong to one process at a time.
THEOREM TunersExclude == Spec => []TuningExclusive
<1>1. Init => TuningExclusive
  BY DEF Init, TuningExclusive, Holding
<1>2. QED
  BY <1>1, LockStep, JitTypeInvariant, PTL DEF Spec
-----------------------------------------------------------------------------
(***************************************************************************)
(* The environment.                                                        *)
(***************************************************************************)

\* What a process holds in memory was measured in its environment.
OwnEntries == \A p \in Procs, k \in TuningKeys : table[p][k] # None => table[p][k].by = env[p]

\* While environments change only with an empty table, tables in memory and on
\* disk stay honest.
LEMMA EnvStep ==
    ASSUME MayRelabel = FALSE
    PROVE  TypeOK /\ OwnEntries /\ EnvHonest /\ [Next]_vars => OwnEntries' /\ EnvHonest'
<1> SUFFICES ASSUME TypeOK, OwnEntries, EnvHonest, [Next]_vars PROVE OwnEntries' /\ EnvHonest'
  OBVIOUS
<1>1. ASSUME UNCHANGED <<table, env, file>> PROVE OwnEntries' /\ EnvHonest'
  BY <1>1 DEF OwnEntries, EnvHonest
<1>2. ASSUME NEW p \in Procs, UNCHANGED <<env, file>>, LoadTable(p)
      PROVE  OwnEntries' /\ EnvHonest'
  <2>1. OwnEntries'
    <3> SUFFICES ASSUME NEW q \in Procs, NEW k \in TuningKeys, table'[q][k] # None
                 PROVE  table'[q][k].by = env[q]
      BY <1>2 DEF OwnEntries
    <3>1. CASE q = p /\ FingerprintMatches(p)
      BY <1>2, <3>1 DEF LoadTable, FingerprintMatches, EnvHonest, TypeOK
    <3>2. CASE ~(q = p /\ FingerprintMatches(p))
      BY <1>2, <3>2 DEF LoadTable, OwnEntries, TypeOK
    <3>3. QED
      BY <3>1, <3>2
  <2>2. QED
    BY <1>2, <2>1 DEF EnvHonest
<1>3. ASSUME NEW p \in Procs, Tune(p) PROVE OwnEntries' /\ EnvHonest'
  <2>1. PICK i \in DOMAIN compiled[p] :
          table' = [table EXCEPT ![p][key[p]] =
                       [index |-> i, sched |-> compiled[p][i], by |-> env[p]]]
    BY <1>3 DEF Tune
  <2>2. OwnEntries'
    BY <1>3, <2>1 DEF Tune, OwnEntries, TypeOK, Table
  <2>3. QED
    BY <1>3, <2>2 DEF Tune, EnvHonest
<1>4. ASSUME NEW p \in Procs, OpenTable(p), TornFile \notin Saved PROVE OwnEntries' /\ EnvHonest'
  BY <1>4 DEF OpenTable, OwnEntries, EnvHonest
<1>5. ASSUME NEW p \in Procs, WriteTable(p) PROVE OwnEntries' /\ EnvHonest'
  BY <1>5 DEF WriteTable, OwnEntries, EnvHonest
<1>6. ASSUME NEW p \in Procs, SwitchEnv(p) PROVE OwnEntries' /\ EnvHonest'
  <2>1. table[p] = NoTable
    BY <1>6 DEF SwitchEnv
  <2>2. OwnEntries'
    BY <1>6, <2>1 DEF SwitchEnv, OwnEntries, NoTable, TypeOK
  <2>3. QED
    BY <1>6, <2>2 DEF SwitchEnv, EnvHonest
<1>7. ASSUME NEW p \in Procs, Crash(p) PROVE OwnEntries' /\ EnvHonest'
  <2>1. OwnEntries'
    BY <1>7 DEF Crash, OwnEntries, NoTable, TypeOK
  <2>2. QED
    BY <1>7, <2>1 DEF Crash, EnvHonest
<1>8. ASSUME NEW p \in Procs, Sync(p) \/ Reload(p) PROVE OwnEntries' /\ EnvHonest'
  BY <1>1, <1>2, <1>8 DEF Sync, Reload
<1>9. ASSUME NEW p \in Procs,
             Call(p) \/ BuildNext(p) \/ BuildAborts(p) \/ BuildDone(p) \/ Pick(p)
               \/ Acquire(p) \/ BenchFails(p)
      PROVE  OwnEntries' /\ EnvHonest'
  <2>1. UNCHANGED <<table, env, file>>
    BY <1>9 DEF Call, BuildNext, BuildAborts, BuildDone, Pick, Acquire, BenchFails
  <2>2. QED
    BY <1>1, <2>1
<1>10. CASE UNCHANGED vars
  BY <1>1, <1>10 DEF vars
<1>11. QED
  BY <1>3, <1>4, <1>5, <1>6, <1>7, <1>8, <1>9, <1>10, MarksAssumption
     DEF Next, Step, Build, PickBest

\* A table on disk has only entries measured in the environment it is filed under.
THEOREM TablesAreHonest == ASSUME MayRelabel = FALSE PROVE Spec => []EnvHonest
<1>1. Init => OwnEntries /\ EnvHonest
  BY MarksAssumption DEF Init, OwnEntries, EnvHonest, NoTable
<1>2. QED
  BY <1>1, EnvStep, JitTypeInvariant, PTL DEF Spec

-----------------------------------------------------------------------------
(* Agreement of the processes that share a dispatch table, for any number   *)
(* of processes, schedules and keys, when all run in one environment and    *)
(* the schedules that fail to build fail in all of them.                    *)

\* The processes of one machine: what one of them builds, all of them build,
\* and no lookup or load raises.
OneMachine ==
    /\ \A p, q \in Procs : \A e \in EnvsOf[p], f \in EnvsOf[q] : e = f
    /\ MayFail = {} /\ MayAbort = {}

\* A table on disk is always reusable: it was filed under everybody's environment.
SameEnv ==
    /\ \A p \in Procs : env[p] \in EnvsOf[p]
    /\ file \in Saved => \A p \in Procs : file.meta = env[p]

\* The place of a schedule among those that build: how many of them there are
\* up to it.
Place(s) == Cardinality({t \in Scheds : t <= s} \ CannotBuild)
Programs == Place(NumScheds)

\* The list of programs has schedules that build, each at its place, and is
\* complete once the build is done.
Built == \A p \in Procs :
    /\ valid[p] = compiled[p]
    /\ \A i \in DOMAIN compiled[p] : compiled[p][i] \notin CannotBuild /\ Place(compiled[p][i]) = i
    /\ pc[p] = "build" => Len(compiled[p]) = Place(job[p] - 1)
    /\ pc[p] # "build" => Len(compiled[p]) \in {0, Programs}
    /\ pc[p] \in Running \ {"build"} => Len(compiled[p]) = Programs

\* An entry's index is the place of the schedule it was measured for.
Honest(entry) == entry.sched \notin CannotBuild /\ entry.index = Place(entry.sched)

\* All entries, in memory and on disk, are.
IndexIsPlace ==
    /\ \A p \in Procs, k \in TuningKeys : table[p][k] # None => Honest(table[p][k])
    /\ file \in Saved => \A k \in TuningKeys :
          file.entries[k] # None => Honest(file.entries[k])

\* The function table follows the dispatch table.
Dispatched == \A p \in Procs, k \in TuningKeys :
    fn[p][k] # None => table[p][k] # None /\ fn[p][k] = table[p][k].sched

\* Tables in memory agree.
Agree == \A p, q \in Procs, k \in TuningKeys :
    table[p][k] # None /\ table[q][k] # None => table[p][k] = table[q][k]

\* An entry in memory is on disk, unless the file is torn or its tuner has yet to write it.
Known == \A q \in Procs, k \in TuningKeys : table[q][k] # None =>
    \/ file \in Saved /\ file.entries[k] = table[q][k]
    \/ file = TornFile
    \/ pc[q] = "dump" /\ k = key[q]

\* What the holder of the lock knows at each of its steps.
Tuning == \A p \in Procs :
    /\ pc[p] \in {"tune", "dump"} => file # TornFile
    /\ pc[p] = "tune" => table[p][key[p]] = None
    /\ pc[p] \in {"tune", "dump"} /\ file \in Saved =>
          /\ file.entries[key[p]] = None
          /\ \A k \in TuningKeys \ {key[p]} : file.entries[k] = table[p][k]
    /\ pc[p] = "write" =>
          /\ file = TornFile
          /\ \A q \in Procs, k \in TuningKeys : table[q][k] # None => table[p][k] = table[q][k]

AgreementInv ==
    SameEnv /\ Built /\ IndexIsPlace /\ Dispatched /\ Agree /\ Known /\ Tuning
-----------------------------------------------------------------------------
(***************************************************************************)
(* Helpers.                                                                *)
(***************************************************************************)

\* Places count: a schedule that builds takes the next one, another takes none.
LEMMA Places ==
    /\ Place(0) = 0
    /\ \A s \in 0 .. NumScheds : Place(s) \in Nat
    /\ \A s \in Scheds : Place(s) = IF s \in CannotBuild THEN Place(s - 1) ELSE Place(s - 1) + 1
    /\ \A s, t \in 0 .. NumScheds : s <= t => Place(s) <= Place(t)
<1> DEFINE Upto(s) == {t \in Scheds : t <= s} \ CannotBuild
<1>1. ASSUME NEW s \in 0 .. NumScheds PROVE IsFiniteSet(Upto(s)) /\ Place(s) \in Nat
  <2>1. IsFiniteSet(1 .. NumScheds) /\ Upto(s) \in SUBSET (1 .. NumScheds)
    BY SchedsAssumption, FS_Interval DEF Scheds
  <2>2. IsFiniteSet(Upto(s))
    BY <2>1, FS_Subset
  <2>3. QED
    BY <2>2, FS_CardinalityType DEF Place
<1>2. Place(0) = 0
  <2>1. Upto(0) = {}
    BY SchedsAssumption DEF Scheds
  <2>2. QED
    BY <2>1, FS_EmptySet DEF Place
<1>3. ASSUME NEW s \in Scheds
      PROVE  Place(s) = IF s \in CannotBuild THEN Place(s - 1) ELSE Place(s - 1) + 1
  <2>1. s - 1 \in 0 .. NumScheds /\ s \in 1 .. NumScheds
    BY SchedsAssumption DEF Scheds
  <2>2. CASE s \in CannotBuild
    <3>1. Upto(s) = Upto(s - 1)
      BY <2>1, <2>2, SchedsAssumption DEF Scheds
    <3>2. QED
      BY <2>2, <3>1 DEF Place
  <2>3. CASE s \notin CannotBuild
    <3>1. Upto(s) = Upto(s - 1) \union {s} /\ s \notin Upto(s - 1)
      BY <2>1, <2>3, SchedsAssumption DEF Scheds
    <3>2. IsFiniteSet(Upto(s - 1))
      BY <1>1, <2>1
    <3>3. Cardinality(Upto(s - 1) \union {s}) = Cardinality(Upto(s - 1)) + 1
      BY <3>1, <3>2, FS_AddElement
    <3>4. QED
      BY <2>3, <3>1, <3>3 DEF Place
  <2>4. QED
    BY <2>2, <2>3
<1>4. ASSUME NEW s \in 0 .. NumScheds, NEW t \in 0 .. NumScheds, s <= t
      PROVE  Place(s) <= Place(t)
  <2>1. Upto(s) \in SUBSET Upto(t)
    BY <1>4, SchedsAssumption DEF Scheds
  <2>2. IsFiniteSet(Upto(t))
    BY <1>1
  <2>3. Cardinality(Upto(s)) <= Cardinality(Upto(t))
    BY <2>1, <2>2, FS_Subset
  <2>4. QED
    BY <2>3 DEF Place
<1>5. QED
  BY <1>1, <1>2, <1>3, <1>4

\* Two schedules that build have different places.
LEMMA PlacesDiffer ==
    ASSUME NEW s \in Scheds \ CannotBuild, NEW t \in Scheds \ CannotBuild, Place(s) = Place(t)
    PROVE  s = t
<1>1. ASSUME NEW u \in Scheds \ CannotBuild, NEW v \in Scheds \ CannotBuild, u < v
      PROVE  Place(u) < Place(v)
  <2>1. /\ u \in 0 .. NumScheds /\ v - 1 \in 0 .. NumScheds /\ v \in Scheds
        /\ u <= v - 1 /\ v \notin CannotBuild
    BY <1>1, SchedsAssumption DEF Scheds
  <2>2. Place(u) \in Nat /\ Place(v - 1) \in Nat /\ Place(u) <= Place(v - 1)
    BY <2>1, Places
  <2>3. Place(v) = Place(v - 1) + 1
    BY <2>1, Places
  <2>4. QED
    BY <2>2, <2>3
<1>2. s \in Nat /\ t \in Nat /\ Place(s) \in Nat /\ Place(t) \in Nat
  <2>1. s \in 0 .. NumScheds /\ t \in 0 .. NumScheds
    BY SchedsAssumption DEF Scheds
  <2>2. QED
    BY <2>1, Places
<1>3. QED
  BY <1>1, <1>2

\* The complete list has the program of an honest entry, at the entry's index.
LEMMA HonestFinds ==
    ASSUME TypeOK, Built, NEW p \in Procs, NEW entry \in Entry, Honest(entry),
           pc[p] \in Running \ {"build"}
    PROVE  /\ entry.index <= Len(compiled[p])
           /\ compiled[p][entry.index] = entry.sched
<1>1. Len(compiled[p]) = Programs /\ compiled[p] \in Seq(Scheds)
  BY DEF Built, TypeOK
<1>2. entry.sched \in Scheds \ CannotBuild /\ entry.index = Place(entry.sched)
      /\ entry.index \in Nat \ {0}
  BY DEF Entry, Honest
<1>3. entry.index <= Len(compiled[p])
  <2>1. entry.sched \in 0 .. NumScheds /\ NumScheds \in 0 .. NumScheds /\ entry.sched <= NumScheds
    BY <1>2, SchedsAssumption DEF Scheds
  <2>2. Place(entry.sched) <= Place(NumScheds)
    BY <2>1, Places
  <2>3. QED
    BY <1>1, <1>2, <2>2 DEF Programs
<1>4. entry.index \in DOMAIN compiled[p]
  BY <1>1, <1>2, <1>3
<1>5. compiled[p][entry.index] \in Scheds
  BY <1>1, <1>4
<1>6. /\ compiled[p][entry.index] \notin CannotBuild
      /\ Place(compiled[p][entry.index]) = entry.index
  BY <1>4 DEF Built
<1>7. compiled[p][entry.index] = entry.sched
  BY <1>2, <1>5, <1>6, PlacesDiffer
<1>8. QED
  BY <1>3, <1>7

\* A program that is looked up by an honest index is found, and is the measured one.
LEMMA ServeFinds ==
    ASSUME TypeOK, Built, NEW p \in Procs, NEW entry \in Entry, Honest(entry),
           pc[p] \in {"pick", "reload", "write"}, Serve(p, entry)
    PROVE  /\ pc' = [pc EXCEPT ![p] = "served"]
           /\ fn' = [fn EXCEPT ![p][key[p]] = entry.sched]
<1>1. pc[p] \in Running \ {"build"}
  BY DEF Running, Holding
<1>2. entry.index <= Len(compiled[p]) /\ compiled[p][entry.index] = entry.sched
  BY <1>1, HonestFinds
<1>3. QED
  BY <1>2 DEF Serve, Goto

\* Where every recorded program was loaded, the report raises nothing.
LEMMA ReportServes ==
    ASSUME TypeOK, Built, NEW p \in Procs, Report(p)
    PROVE  Serve(p, table[p][key[p]])
<1>1. compiled[p] \in Seq(Scheds) /\ valid[p] = compiled[p]
  BY DEF Built, TypeOK
<1>2. ~(Len(valid[p]) > Len(compiled[p]))
  BY <1>1
<1>3. QED
  BY <1>2 DEF Report

\* Nobody holds the lock when it is free, and nobody but the holder otherwise.
LEMMA Holders ==
    ASSUME TuningExclusive, NEW p \in Procs, lock \in {None, p}
    PROVE  \A q \in Procs \ {p} : pc[q] \notin Holding
BY NoneAssumption DEF TuningExclusive

\* At a load the file has everything the processes know, so that the tables
\* in memory are parts of it afterwards.
LEMMA LoadFacts ==
    ASSUME TypeOK, TuningExclusive, SameEnv, Known, NEW p \in Procs,
           Sync(p) \/ Reload(p), file # TornFile
    PROVE  /\ \A q \in Procs, k \in TuningKeys :
                table[q][k] # None => table'[q][k] = table[q][k]
           /\ \A q \in Procs, k \in TuningKeys :
                table'[q][k] # None => file \in Saved /\ file.entries[k] = table'[q][k]
           /\ file \in Saved => table'[p] = file.entries
           /\ \A q \in Procs \ {p} : table'[q] = table[q]
           /\ UNCHANGED <<file, key, env, compiled, valid, job>>
<1>1. pc[p] \in {"sync", "reload"} /\ lock \in {None, p}
  BY DEF Sync, Reload, TuningExclusive, Holding
<1>2. \A q \in Procs : pc[q] # "dump"
  BY <1>1, Holders DEF Holding
<1>3. \A q \in Procs, k \in TuningKeys :
        table[q][k] # None => file \in Saved /\ file.entries[k] = table[q][k]
  BY <1>2 DEF Known
<1>4. LoadTable(p) /\ UNCHANGED <<file, key, env, compiled, valid, job>>
  BY DEF Sync, Reload
<1>5. FingerprintMatches(p) <=> file \in Saved
  BY DEF FingerprintMatches, SameEnv
<1>6. table' = [table EXCEPT ![p] = IF file \in Saved THEN file.entries ELSE table[p]]
  BY <1>4, <1>5 DEF LoadTable
<1>7. \A q \in Procs \ {p} : table'[q] = table[q]
  BY <1>6 DEF TypeOK
<1>8. table'[p] = IF file \in Saved THEN file.entries ELSE table[p]
  BY <1>6 DEF TypeOK
<1>9. QED
  BY <1>3, <1>4, <1>7, <1>8

\* The steps that touch neither tables, files nor environments.
Aside(p) ==
    \/ Call(p) \/ BuildNext(p) \/ BuildAborts(p) \/ BuildDone(p) \/ Pick(p) \/ Acquire(p)
    \/ BenchFails(p) \/ ((Sync(p) \/ Reload(p)) /\ file = TornFile)

\* They leave the tables, the file and the environments alone.
LEMMA AsideFacts ==
    ASSUME NEW p \in Procs, Aside(p) PROVE UNCHANGED <<table, file, env>>
BY DEF Aside, Call, BuildNext, BuildAborts, BuildDone, Pick, Acquire, BenchFails, Sync, Reload

\* Every step is one of these.
LEMMA Steps ==
    ASSUME [Next]_vars
    PROVE  \/ UNCHANGED vars
           \/ \E p \in Procs :
                \/ Aside(p)
                \/ (Sync(p) \/ Reload(p)) /\ file # TornFile
                \/ Tune(p) \/ OpenTable(p) \/ WriteTable(p)
                \/ SwitchEnv(p) \/ Crash(p)
BY DEF Next, Step, Build, PickBest, Aside

\* The entry a tuner makes.
LEMMA TuneFacts ==
    ASSUME TypeOK, Built, NEW p \in Procs, Tune(p)
    PROVE  \E new \in Entry :
              /\ Honest(new)
              /\ table'[p][key[p]] = new
              /\ \A k \in TuningKeys \ {key[p]} : table'[p][k] = table[p][k]
              /\ \A q \in Procs \ {p} : table'[q] = table[q]
<1>1. PICK i \in DOMAIN compiled[p] :
        table' = [table EXCEPT ![p][key[p]] =
                     [index |-> i, sched |-> compiled[p][i], by |-> env[p]]]
  BY DEF Tune
<1>2. compiled[p] \in Seq(Scheds) /\ env[p] \in Envs /\ key[p] \in TuningKeys
  BY DEF TypeOK
<1>3. /\ i \in Nat \ {0} /\ compiled[p][i] \in Scheds
      /\ compiled[p][i] \notin CannotBuild /\ Place(compiled[p][i]) = i
  BY <1>2 DEF Built
<1>4. [index |-> i, sched |-> compiled[p][i], by |-> env[p]] \in Entry
  BY <1>2, <1>3 DEF Entry
<1>5. /\ table'[p][key[p]] = [index |-> i, sched |-> compiled[p][i], by |-> env[p]]
      /\ \A k \in TuningKeys \ {key[p]} : table'[p][k] = table[p][k]
      /\ \A q \in Procs \ {p} : table'[q] = table[q]
  BY <1>1, <1>2 DEF TypeOK, Table
<1>6. Honest([index |-> i, sched |-> compiled[p][i], by |-> env[p]])
  BY <1>3 DEF Honest
<1>7. QED
  BY <1>4, <1>5, <1>6
-----------------------------------------------------------------------------
(***************************************************************************)
(* One step per part of the invariant.                                     *)
(***************************************************************************)

\* A table is filed only under the one environment there is.
LEMMA SameEnvStep ==
    ASSUME OneMachine
    PROVE  TypeOK /\ SameEnv /\ [Next]_vars => SameEnv'
<1> SUFFICES ASSUME TypeOK, SameEnv, [Next]_vars PROVE SameEnv'
  OBVIOUS
<1>1. \A p, q \in Procs : env[p] = env[q]
  BY DEF SameEnv, OneMachine
<1>2. ASSUME UNCHANGED <<env, file>> PROVE SameEnv'
  BY <1>2 DEF SameEnv
<1>3. ASSUME NEW p \in Procs, SwitchEnv(p) PROVE SameEnv'
  <2>1. PICK e \in EnvsOf[p] \ {env[p]} : TRUE
    BY <1>3 DEF SwitchEnv
  <2>2. QED
    BY <2>1 DEF SameEnv, OneMachine
<1>4. ASSUME NEW p \in Procs, OpenTable(p) PROVE SameEnv'
  BY <1>4, MarksAssumption DEF OpenTable, SameEnv
<1>5. ASSUME NEW p \in Procs, WriteTable(p) PROVE SameEnv'
  BY <1>1, <1>5 DEF WriteTable, SameEnv
<1>6. ASSUME NEW p \in Procs, Sync(p) \/ Reload(p) \/ Tune(p) \/ Crash(p) PROVE SameEnv'
  BY <1>2, <1>6 DEF Sync, Reload, Tune, Crash
<1>7. QED
  BY <1>2, <1>3, <1>4, <1>5, <1>6, Steps, AsideFacts DEF vars

\* A build appends the schedules that build, in order, and leaves a complete list;
\* a crash starts again from the empty one.
LEMMA BuiltStep ==
    ASSUME OneMachine
    PROVE  TypeOK /\ Built /\ [Next]_vars => Built'
<1> SUFFICES ASSUME TypeOK, Built, [Next]_vars PROVE Built'
  OBVIOUS
<1> SUFFICES ASSUME NEW q \in Procs
             PROVE  /\ valid'[q] = compiled'[q]
                    /\ \A i \in DOMAIN compiled'[q] :
                          compiled'[q][i] \notin CannotBuild /\ Place(compiled'[q][i]) = i
                    /\ pc'[q] = "build" => Len(compiled'[q]) = Place(job'[q] - 1)
                    /\ pc'[q] # "build" => Len(compiled'[q]) \in {0, Programs}
                    /\ pc'[q] \in Running \ {"build"} => Len(compiled'[q]) = Programs
  BY DEF Built
<1> DEFINE Goal == /\ valid'[q] = compiled'[q]
                   /\ \A i \in DOMAIN compiled'[q] :
                         compiled'[q][i] \notin CannotBuild /\ Place(compiled'[q][i]) = i
                   /\ pc'[q] = "build" => Len(compiled'[q]) = Place(job'[q] - 1)
                   /\ pc'[q] # "build" => Len(compiled'[q]) \in {0, Programs}
                   /\ pc'[q] \in Running \ {"build"} => Len(compiled'[q]) = Programs
<1>0. compiled[q] \in Seq(Scheds) /\ job[q] \in 1 .. NumScheds + 1 /\ NumScheds \in Nat \ {0}
  BY SchedsAssumption DEF TypeOK
<1>1. ASSUME pc'[q] = pc[q], compiled'[q] = compiled[q], valid'[q] = valid[q], job'[q] = job[q]
      PROVE  Goal
  BY <1>1 DEF Built
<1>2. ASSUME compiled'[q] = compiled[q], valid'[q] = valid[q], pc[q] # "build",
             pc'[q] \notin Running, pc'[q] # "build"
      PROVE  Goal
  BY <1>2 DEF Built
<1>3. ASSUME compiled'[q] = compiled[q], valid'[q] = valid[q], pc[q] \in Running \ {"build"},
             pc'[q] # "build"
      PROVE  Goal
  BY <1>3 DEF Built
<1>4. ASSUME NEW p \in Procs, q # p,
             Call(p) \/ Step(p) \/ SwitchEnv(p) \/ Crash(p)
      PROVE  Goal
  <2>1. /\ pc'[q] = pc[q] /\ compiled'[q] = compiled[q]
        /\ valid'[q] = valid[q] /\ job'[q] = job[q]
    <3>1. CASE Call(p) \/ SwitchEnv(p) \/ Crash(p)
      BY <1>4, <3>1 DEF Call, SwitchEnv, Crash, Goto, TypeOK
    <3>2. CASE Build(p)
      BY <1>4, <3>2 DEF Build, BuildNext, BuildAborts, BuildDone, Sync, Goto, TypeOK
    <3>3. CASE PickBest(p)
      BY <1>4, <3>3 DEF PickBest, Pick, Acquire, Reload, Tune, BenchFails, OpenTable,
                        WriteTable, Report, Serve, Goto, TypeOK
    <3>4. QED
      BY <1>4, <3>1, <3>2, <3>3 DEF Step
  <2>2. QED
    BY <1>1, <2>1
<1>5. CASE Call(q)
  <2>1. PICK k \in TuningKeys : Call(q)!(k)
    BY <1>5 DEF Call
  <2>2. pc[q] # "build" /\ compiled'[q] = compiled[q] /\ valid'[q] = valid[q]
    BY <2>1 DEF Resting, Errors
  <2>3. CASE pc' = [pc EXCEPT ![q] = "served"]
    BY <1>2, <2>2, <2>3, JitLabels DEF TypeOK, Running, Holding
  <2>4. CASE pc' = [pc EXCEPT ![q] = "build"] /\ valid[q] = <<>>
    <3>1. pc'[q] = "build" /\ job'[q] = 1 /\ compiled'[q] = <<>> /\ valid'[q] = <<>>
      BY <2>1, <2>2, <2>4 DEF Built, TypeOK
    <3>2. Len(<<>>) = 0 /\ DOMAIN <<>> = {} /\ Place(1 - 1) = 0
      BY Places
    <3>3. QED
      BY <3>1, <3>2
  <2>5. CASE pc' = [pc EXCEPT ![q] = "pick"] /\ valid[q] # <<>>
    <3>1. Len(compiled[q]) # 0
      BY <1>0, <2>5 DEF Built
    <3>2. Len(compiled[q]) = Programs /\ pc'[q] = "pick"
      BY <2>2, <2>5, <3>1 DEF Built, TypeOK
    <3>3. QED
      BY <2>2, <3>2 DEF Built
  <2>6. QED
    BY <2>1, <2>3, <2>4, <2>5 DEF Goto
<1>6. CASE BuildNext(q)
  <2>1. /\ pc[q] = "build" /\ job[q] <= NumScheds /\ pc' = pc
        /\ job'[q] = job[q] + 1
    BY <1>6 DEF BuildNext, TypeOK
  <2>2. /\ job[q] \in Scheds /\ Len(compiled[q]) = Place(job[q] - 1)
        /\ job'[q] - 1 = job[q]
    BY <1>0, <2>1 DEF Built, Scheds
  <2>3. Place(job[q]) = IF job[q] \in CannotBuild THEN Place(job[q] - 1) ELSE Place(job[q] - 1) + 1
    BY <2>2, Places
  <2>4. CASE job[q] \in CannotBuild
    <3>1. compiled'[q] = compiled[q] /\ valid'[q] = valid[q]
      BY <1>6, <2>4 DEF BuildNext
    <3>2. Len(compiled'[q]) = Place(job'[q] - 1)
      BY <2>2, <2>3, <2>4, <3>1
    <3>3. QED
      BY <2>1, <3>1, <3>2 DEF Built
  <2>5. CASE job[q] \notin CannotBuild
    <3>1. /\ compiled'[q] = Append(compiled[q], job[q])
          /\ valid'[q] = Append(valid[q], job[q])
      BY <1>6, <2>5 DEF BuildNext, OneMachine, TypeOK
    <3>2. /\ Len(compiled'[q]) = Len(compiled[q]) + 1
          /\ compiled'[q][Len(compiled[q]) + 1] = job[q]
          /\ \A i \in DOMAIN compiled'[q] :
                \/ i = Len(compiled[q]) + 1
                \/ i \in DOMAIN compiled[q] /\ compiled'[q][i] = compiled[q][i]
      BY <1>0, <2>2, <3>1
    <3>3. Len(compiled'[q]) = Place(job[q]) /\ Len(compiled[q]) + 1 = Place(job[q])
      BY <2>2, <2>3, <2>5, <3>2
    <3>4. ASSUME NEW i \in DOMAIN compiled'[q]
          PROVE  compiled'[q][i] \notin CannotBuild /\ Place(compiled'[q][i]) = i
      <4>1. CASE i = Len(compiled[q]) + 1
        BY <2>5, <3>2, <3>3, <4>1
      <4>2. CASE i \in DOMAIN compiled[q] /\ compiled'[q][i] = compiled[q][i]
        BY <4>2 DEF Built
      <4>3. QED
        BY <3>2, <4>1, <4>2
    <3>5. pc'[q] = "build" /\ valid'[q] = compiled'[q]
      BY <2>1, <3>1 DEF Built
    <3>6. Len(compiled'[q]) = Place(job'[q] - 1)
      BY <2>2, <3>3
    <3>7. QED
      BY <3>4, <3>5, <3>6
  <2>6. QED
    BY <2>4, <2>5
<1>7. CASE BuildAborts(q)
  BY <1>7 DEF BuildAborts, OneMachine
<1>8. CASE BuildDone(q)
  <2>1. Len(compiled[q]) = Programs
    <3>1. pc[q] = "build" /\ job[q] - 1 = NumScheds
      BY <1>0, <1>8 DEF BuildDone
    <3>2. QED
      BY <3>1 DEF Built, Programs
  <2>2. compiled'[q] = compiled[q] /\ valid'[q] = valid[q] /\ pc'[q] = "sync"
    BY <1>8 DEF BuildDone, Goto, TypeOK
  <2>3. QED
    BY <2>1, <2>2 DEF Built
<1>9. CASE Sync(q) \/ PickBest(q)
  <2>1. compiled'[q] = compiled[q] /\ valid'[q] = valid[q]
    BY <1>9 DEF Sync, PickBest, Pick, Acquire, Reload, Tune, BenchFails, OpenTable, WriteTable
  <2>2. pc[q] \in Running \ {"build"}
    BY <1>9, JitLabels
       DEF Sync, PickBest, Pick, Acquire, Reload, Tune, BenchFails, OpenTable, WriteTable,
           Running, Holding
  <2>3. pc'[q] # "build"
    BY <1>9 DEF Sync, PickBest, Pick, Acquire, Reload, Tune, BenchFails, OpenTable, WriteTable,
                Report, Serve, Goto, TypeOK
  <2>4. QED
    BY <1>3, <2>1, <2>2, <2>3
<1>10. CASE SwitchEnv(q)
  BY <1>1, <1>10 DEF SwitchEnv
<1>11. CASE Crash(q)
  <2>1. pc'[q] = "idle" /\ compiled'[q] = <<>> /\ valid'[q] = <<>>
    BY <1>11 DEF Crash, Goto, TypeOK
  <2>2. Len(<<>>) = 0 /\ DOMAIN <<>> = {} /\ "idle" \notin Running
    BY DEF Running, Holding
  <2>3. QED
    BY <2>1, <2>2
<1>12. CASE UNCHANGED vars
  BY <1>1, <1>12 DEF vars
<1>13. QED
  BY <1>4, <1>5, <1>6, <1>7, <1>8, <1>9, <1>10, <1>11, <1>12 DEF Next, Step, Build

\* A tuner files an index of the complete list, a load copies such entries.
LEMMA IndexStep ==
    ASSUME OneMachine
    PROVE  TypeOK /\ TuningExclusive /\ SameEnv /\ Built /\ Known /\ IndexIsPlace /\ [Next]_vars
             => IndexIsPlace'
<1> SUFFICES ASSUME TypeOK, TuningExclusive, SameEnv, Built, Known, IndexIsPlace, [Next]_vars
             PROVE  IndexIsPlace'
  OBVIOUS
<1>1. ASSUME UNCHANGED <<table, file>> PROVE IndexIsPlace'
  BY <1>1 DEF IndexIsPlace
<1>2. ASSUME NEW p \in Procs, Sync(p) \/ Reload(p), file # TornFile PROVE IndexIsPlace'
  BY <1>2, LoadFacts DEF IndexIsPlace
<1>3. ASSUME NEW p \in Procs, Tune(p) PROVE IndexIsPlace'
  <2>1. file' = file /\ key[p] \in TuningKeys
    BY <1>3 DEF Tune, TypeOK
  <2>2. QED
    BY <1>3, <2>1, TuneFacts DEF IndexIsPlace
<1>4. ASSUME NEW p \in Procs, OpenTable(p) PROVE IndexIsPlace'
  BY <1>4, MarksAssumption DEF OpenTable, IndexIsPlace
<1>5. ASSUME NEW p \in Procs, WriteTable(p) PROVE IndexIsPlace'
  BY <1>5 DEF WriteTable, IndexIsPlace
<1>6. ASSUME NEW p \in Procs, SwitchEnv(p) PROVE IndexIsPlace'
  BY <1>1, <1>6 DEF SwitchEnv
<1>7. ASSUME NEW p \in Procs, Crash(p) PROVE IndexIsPlace'
  BY <1>7 DEF Crash, IndexIsPlace, NoTable, TypeOK
<1>8. QED
  BY <1>1, <1>2, <1>3, <1>4, <1>5, <1>6, <1>7, Steps, AsideFacts DEF vars

\* The function table gets a schedule only together with the entry it is served from.
LEMMA DispatchedStep ==
    ASSUME OneMachine
    PROVE  TypeOK /\ Tuned /\ TuningExclusive /\ SameEnv /\ Built /\ Known /\ IndexIsPlace
             /\ Tuning /\ Dispatched /\ [Next]_vars => Dispatched'
<1> SUFFICES ASSUME TypeOK, Tuned, TuningExclusive, SameEnv, Built, Known, IndexIsPlace, Tuning,
                    Dispatched, [Next]_vars
             PROVE  Dispatched'
  OBVIOUS
<1>1. ASSUME UNCHANGED <<table, fn>> PROVE Dispatched'
  BY <1>1 DEF Dispatched
\* The function that is served is the entry's.
<1>2. ASSUME NEW p \in Procs, pc[p] \in {"pick", "reload", "write"},
             NEW entry \in Entry, Honest(entry), table'[p][key[p]] = entry,
             Serve(p, entry),
             \A q \in Procs, k \in TuningKeys : table[q][k] # None => table'[q][k] = table[q][k]
      PROVE  Dispatched'
  <2>1. fn' = [fn EXCEPT ![p][key[p]] = entry.sched]
    BY <1>2, ServeFinds
  <2>2. entry # None
    BY NoneAssumption DEF Entry
  <2> SUFFICES ASSUME NEW q \in Procs, NEW k \in TuningKeys, fn'[q][k] # None
               PROVE  table'[q][k] # None /\ fn'[q][k] = table'[q][k].sched
    BY DEF Dispatched
  <2>3. CASE q = p /\ k = key[p]
    <3>1. fn'[q][k] = entry.sched
      BY <2>1, <2>3 DEF TypeOK
    <3>2. QED
      BY <1>2, <2>2, <2>3, <3>1
  <2>4. CASE ~(q = p /\ k = key[p])
    <3>1. fn'[q][k] = fn[q][k]
      BY <2>1, <2>4 DEF TypeOK
    <3>2. QED
      BY <1>2, <3>1 DEF Dispatched
  <2>5. QED
    BY <2>3, <2>4
<1>3. ASSUME NEW p \in Procs, Pick(p) PROVE Dispatched'
  <2>1. table' = table /\ pc[p] = "pick"
    BY <1>3 DEF Pick
  <2>2. CASE table[p][key[p]] = None
    BY <1>1, <1>3, <2>1, <2>2 DEF Pick
  <2>3. CASE table[p][key[p]] # None
    <3>1. key[p] \in TuningKeys /\ table[p][key[p]] \in Entry
      BY <2>3 DEF TypeOK, Table
    <3>2. Honest(table[p][key[p]])
      BY <2>3, <3>1 DEF IndexIsPlace
    <3>3. QED
      BY <1>2, <1>3, <2>1, <2>3, <3>1, <3>2 DEF Pick
  <2>4. QED
    BY <2>2, <2>3
<1>4. ASSUME NEW p \in Procs, WriteTable(p) PROVE Dispatched'
  <2>1. table' = table /\ pc[p] = "write"
    BY <1>4 DEF WriteTable
  <2>2. key[p] \in TuningKeys /\ table[p][key[p]] \in Entry /\ table[p][key[p]] # None
    BY <2>1 DEF Tuned, TypeOK, Table
  <2>3. Honest(table[p][key[p]])
    BY <2>2 DEF IndexIsPlace
  <2>4. QED
    BY <1>2, <1>4, <2>1, <2>2, <2>3, ReportServes DEF WriteTable
<1>5. ASSUME NEW p \in Procs, Reload(p), file # TornFile PROVE Dispatched'
  <2>1. /\ \A q \in Procs, k \in TuningKeys :
              table[q][k] # None => table'[q][k] = table[q][k]
        /\ table'[p][key[p]] # None =>
              file \in Saved /\ file.entries[key[p]] = table'[p][key[p]]
    BY <1>5, LoadFacts DEF TypeOK
  <2>2. pc[p] = "reload" /\ key[p] \in TuningKeys
    BY <1>5 DEF Reload, TypeOK
  <2>3. CASE table'[p][key[p]] = None
    <3>1. fn' = fn
      BY <1>5, <2>3 DEF Reload
    <3>2. QED
      BY <2>1, <3>1 DEF Dispatched
  <2>4. CASE table'[p][key[p]] # None
    <3>1. /\ table'[p][key[p]] \in Entry
          /\ Honest(table'[p][key[p]])
      BY <2>1, <2>2, <2>4 DEF IndexIsPlace, Saved, Table
    <3>2. Serve(p, table'[p][key[p]])
      BY <1>5, <2>4 DEF Reload
    <3>3. QED
      BY <1>2, <2>1, <2>2, <3>1, <3>2
  <2>5. QED
    BY <2>3, <2>4
<1>6. ASSUME NEW p \in Procs, Sync(p), file # TornFile PROVE Dispatched'
  <2>1. fn' = fn
    BY <1>6 DEF Sync
  <2>2. QED
    BY <1>6, <2>1, LoadFacts DEF Dispatched
<1>7. ASSUME NEW p \in Procs, Tune(p) PROVE Dispatched'
  <2>1. fn' = fn /\ table[p][key[p]] = None /\ key[p] \in TuningKeys
    BY <1>7 DEF Tune, Tuning, TypeOK
  <2>2. QED
    BY <1>7, <2>1, TuneFacts DEF Dispatched
<1>8. ASSUME NEW p \in Procs, OpenTable(p) \/ SwitchEnv(p) PROVE Dispatched'
  BY <1>1, <1>8 DEF OpenTable, SwitchEnv
<1>9. ASSUME NEW p \in Procs, Crash(p) PROVE Dispatched'
  BY <1>9 DEF Crash, Dispatched, TypeOK
<1>10. ASSUME NEW p \in Procs, Aside(p) PROVE Dispatched'
  <2>1. Pick(p) \/ UNCHANGED <<table, fn>>
    BY <1>10 DEF Aside, Call, BuildNext, BuildAborts, BuildDone, Acquire, BenchFails, Sync, Reload
  <2>2. QED
    BY <1>1, <1>3, <2>1
<1>11. QED
  BY <1>1, <1>4, <1>5, <1>6, <1>7, <1>8, <1>9, <1>10, Steps DEF vars

\* Once one process tunes a key, no other has an entry for it.
LEMMA FreshKey ==
    ASSUME TypeOK, TuningExclusive, Known, Tuning,
           NEW p \in Procs, pc[p] \in {"tune", "dump"},
           NEW q \in Procs \ {p}, NEW k \in TuningKeys, table[q][k] # None
    PROVE  file \in Saved /\ k # key[p] /\ table[p][k] = table[q][k]
<1>1. pc[q] # "dump"
  BY Holders DEF TuningExclusive, Holding
<1>2. file \in Saved /\ file.entries[k] = table[q][k]
  BY <1>1 DEF Known, Tuning
<1>3. QED
  BY <1>2 DEF Tuning

\* Tables in memory go on agreeing: loads copy the one file, and a new entry
\* is for a key nobody else has.
LEMMA AgreeStep ==
    ASSUME OneMachine
    PROVE  TypeOK /\ TuningExclusive /\ SameEnv /\ Built /\ Known /\ Tuning /\ Agree /\ [Next]_vars
             => Agree'
<1> SUFFICES ASSUME TypeOK, TuningExclusive, SameEnv, Built, Known, Tuning, Agree, [Next]_vars
             PROVE  Agree'
  OBVIOUS
<1>1. ASSUME UNCHANGED table PROVE Agree'
  BY <1>1 DEF Agree
<1>2. ASSUME NEW p \in Procs, Sync(p) \/ Reload(p), file # TornFile PROVE Agree'
  BY <1>2, LoadFacts DEF Agree
<1>3. ASSUME NEW p \in Procs, Tune(p) PROVE Agree'
  <2>1. pc[p] = "tune" /\ key[p] \in TuningKeys
    BY <1>3 DEF Tune, TypeOK
  <2>2. \A q \in Procs \ {p} : table[q][key[p]] = None
    BY <2>1, FreshKey
  <2>3. QED
    BY <1>3, <2>1, <2>2, TuneFacts DEF Agree
<1>4. ASSUME NEW p \in Procs, OpenTable(p) \/ WriteTable(p) \/ SwitchEnv(p) PROVE Agree'
  BY <1>1, <1>4 DEF OpenTable, WriteTable, SwitchEnv
<1>5. ASSUME NEW p \in Procs, Crash(p) PROVE Agree'
  BY <1>5 DEF Crash, Agree, NoTable, TypeOK
<1>6. QED
  BY <1>1, <1>2, <1>3, <1>4, <1>5, Steps, AsideFacts DEF vars

\* What is in memory stays on disk, since a tuner writes back all it has loaded.
LEMMA KnownStep ==
    ASSUME OneMachine
    PROVE  TypeOK /\ TuningExclusive /\ SameEnv /\ Built /\ Tuning /\ Known /\ [Next]_vars
             => Known'
<1> SUFFICES ASSUME TypeOK, TuningExclusive, SameEnv, Built, Tuning, Known, [Next]_vars,
                    NEW q \in Procs, NEW k \in TuningKeys, table'[q][k] # None
             PROVE  \/ file' \in Saved /\ file'.entries[k] = table'[q][k]
                    \/ file' = TornFile
                    \/ pc'[q] = "dump" /\ k = key'[q]
  BY DEF Known
<1> DEFINE Goal == \/ file' \in Saved /\ file'.entries[k] = table'[q][k]
                   \/ file' = TornFile
                   \/ pc'[q] = "dump" /\ k = key'[q]
<1>1. ASSUME UNCHANGED <<table, file>>, pc[q] = "dump" => pc'[q] = "dump" /\ key'[q] = key[q]
      PROVE  Goal
  BY <1>1 DEF Known
<1>2. ASSUME NEW p \in Procs, Aside(p) PROVE Goal
  <2>1. pc[q] = "dump" => pc'[q] = "dump" /\ key'[q] = key[q]
    BY <1>2 DEF Aside, Call, BuildNext, BuildAborts, BuildDone, Pick, Acquire, BenchFails, Sync,
                Reload, Serve, Goto, TypeOK, Resting, Errors
  <2>2. QED
    BY <1>1, <1>2, <2>1, AsideFacts
<1>3. ASSUME NEW p \in Procs, Sync(p) \/ Reload(p), file # TornFile PROVE Goal
  BY <1>3, LoadFacts
<1>4. ASSUME NEW p \in Procs, Tune(p) PROVE Goal
  <2>1. /\ file' = file /\ key' = key /\ key[p] \in TuningKeys
        /\ pc[p] = "tune" /\ pc' = [pc EXCEPT ![p] = "dump"]
    BY <1>4 DEF Tune, Goto, TypeOK
  <2>2. CASE q = p /\ k = key[p]
    BY <2>1, <2>2 DEF TypeOK
  <2>3. CASE ~(q = p /\ k = key[p])
    <3>1. table'[q][k] = table[q][k]
      BY <1>4, <2>3, TuneFacts
    <3>2. pc[q] # "dump"
      BY <2>1, Holders DEF TuningExclusive, Holding
    <3>3. QED
      BY <2>1, <3>1, <3>2 DEF Known
  <2>4. QED
    BY <2>2, <2>3
<1>5. ASSUME NEW p \in Procs, OpenTable(p) PROVE Goal
  BY <1>5 DEF OpenTable
<1>6. ASSUME NEW p \in Procs, WriteTable(p) PROVE Goal
  <2>1. table'[q][k] = table[q][k] /\ pc[p] = "write"
    BY <1>6 DEF WriteTable
  <2>2. table[p][k] = table[q][k]
    BY <2>1 DEF Tuning
  <2>3. file' \in Saved /\ file'.entries = table[p]
    BY <1>6 DEF WriteTable, Saved, TypeOK
  <2>4. QED
    BY <2>1, <2>2, <2>3
<1>7. ASSUME NEW p \in Procs, SwitchEnv(p) PROVE Goal
  BY <1>1, <1>7 DEF SwitchEnv
<1>8. ASSUME NEW p \in Procs, Crash(p) PROVE Goal
  <2>1. q # p /\ table'[q] = table[q] /\ file' = file /\ key' = key
    BY <1>8 DEF Crash, NoTable, TypeOK
  <2>2. pc'[q] = pc[q]
    BY <1>8, <2>1 DEF Crash, Goto, TypeOK
  <2>3. QED
    BY <2>1, <2>2 DEF Known
<1>9. CASE UNCHANGED vars
  BY <1>1, <1>9 DEF vars
<1>10. QED
  BY <1>2, <1>3, <1>4, <1>5, <1>6, <1>7, <1>8, <1>9, Steps

\* The holder of the lock works on the table it has just loaded; nobody else
\* can change the file, and others only load what it has.
LEMMA TuningStep ==
    ASSUME OneMachine
    PROVE  TypeOK /\ Tuned /\ TuningExclusive /\ SameEnv /\ Built /\ Known /\ Agree /\ Tuning
             /\ [Next]_vars => Tuning'
<1> SUFFICES ASSUME TypeOK, Tuned, TuningExclusive, SameEnv, Built, Known, Agree, Tuning,
                    [Next]_vars, NEW h \in Procs
             PROVE  /\ pc'[h] \in {"tune", "dump"} => file' # TornFile
                    /\ pc'[h] = "tune" => table'[h][key'[h]] = None
                    /\ pc'[h] \in {"tune", "dump"} /\ file' \in Saved =>
                          /\ file'.entries[key'[h]] = None
                          /\ \A k \in TuningKeys \ {key'[h]} : file'.entries[k] = table'[h][k]
                    /\ pc'[h] = "write" =>
                          /\ file' = TornFile
                          /\ \A q \in Procs, k \in TuningKeys :
                                table'[q][k] # None => table'[h][k] = table'[q][k]
  BY DEF Tuning
<1> DEFINE Goal ==
      /\ pc'[h] \in {"tune", "dump"} => file' # TornFile
      /\ pc'[h] = "tune" => table'[h][key'[h]] = None
      /\ pc'[h] \in {"tune", "dump"} /\ file' \in Saved =>
            /\ file'.entries[key'[h]] = None
            /\ \A k \in TuningKeys \ {key'[h]} : file'.entries[k] = table'[h][k]
      /\ pc'[h] = "write" =>
            /\ file' = TornFile
            /\ \A q \in Procs, k \in TuningKeys :
                  table'[q][k] # None => table'[h][k] = table'[q][k]
\* Steps that leave the holder where it is and forget, at most, what others know.
<1>1. ASSUME pc'[h] = pc[h], key'[h] = key[h], table'[h] = table[h], file' = file,
             \A q \in Procs, k \in TuningKeys : table'[q][k] # None => table'[q][k] = table[q][k]
      PROVE  Goal
  BY <1>1 DEF Tuning
<1>2. ASSUME pc'[h] \notin {"tune", "dump", "write"} PROVE Goal
  BY <1>2
<1>3. ASSUME NEW p \in Procs, Aside(p) PROVE Goal
  <2>1. \/ pc'[h] \notin {"tune", "dump", "write"}
        \/ pc'[h] = pc[h] /\ key'[h] = key[h]
    BY <1>3 DEF Aside, Call, BuildNext, BuildAborts, BuildDone, Pick, Acquire, BenchFails, Sync,
                Reload, Serve, Goto, TypeOK
  <2>2. QED
    BY <1>1, <1>2, <1>3, <2>1, AsideFacts
<1>4. ASSUME NEW p \in Procs, Sync(p) \/ Reload(p), file # TornFile PROVE Goal
  <2>1. CASE h = p
    <3>1. CASE Sync(p)
      <4>1. pc'[h] \notin {"tune", "dump", "write"}
        BY <2>1, <3>1 DEF Sync, Goto, TypeOK
      <4>2. QED
        BY <1>2, <4>1
    <3>2. CASE Reload(p) /\ table'[p][key[p]] # None
      <4>1. pc'[h] \notin {"tune", "dump", "write"}
        BY <1>4, <2>1, <3>2 DEF Reload, Serve, Goto, TypeOK
      <4>2. QED
        BY <1>2, <4>1
    <3>3. CASE Reload(p) /\ table'[p][key[p]] = None
      <4>1. pc'[h] = "tune" /\ file' = file /\ key' = key
        BY <1>4, <2>1, <3>3 DEF Reload, Goto, TypeOK
      <4>2. file \in Saved => table'[p] = file.entries
        BY <1>4, LoadFacts
      <4>3. QED
        BY <1>4, <2>1, <3>3, <4>1, <4>2
    <3>4. QED
      BY <1>4, <3>1, <3>2, <3>3
  <2>2. CASE h # p
    <3>1. pc[p] \in {"sync", "reload"} /\ lock \in {None, p}
      BY <1>4 DEF Sync, Reload, TuningExclusive, Holding
    <3>2. pc[h] \notin Holding
      BY <2>2, <3>1, Holders
    <3>3. pc'[h] = pc[h]
      BY <1>4, <2>2 DEF Sync, Reload, Serve, Goto, TypeOK
    <3>4. QED
      BY <1>2, <3>2, <3>3 DEF Holding
  <2>3. QED
    BY <2>1, <2>2
<1>5. ASSUME NEW p \in Procs, Tune(p) PROVE Goal
  <2>1. /\ file' = file /\ key' = key /\ key[p] \in TuningKeys
        /\ pc[p] = "tune" /\ pc' = [pc EXCEPT ![p] = "dump"]
    BY <1>5 DEF Tune, Goto, TypeOK
  <2>2. CASE h = p
    <3>1. pc'[h] = "dump"
      BY <2>1, <2>2 DEF TypeOK
    <3>2. \A k \in TuningKeys \ {key[p]} : table'[p][k] = table[p][k]
      BY <1>5, TuneFacts
    <3>3. QED
      BY <2>1, <2>2, <3>1, <3>2 DEF Tuning
  <2>3. CASE h # p
    <3>1. pc[h] \notin Holding
      BY <2>1, <2>3, Holders DEF TuningExclusive, Holding
    <3>2. QED
      BY <1>2, <2>1, <2>3, <3>1 DEF Holding, TypeOK
  <2>4. QED
    BY <2>2, <2>3
<1>6. ASSUME NEW p \in Procs, OpenTable(p) PROVE Goal
  <2>1. /\ file' = TornFile /\ key' = key /\ table' = table
        /\ pc[p] = "dump" /\ pc' = [pc EXCEPT ![p] = "write"]
    BY <1>6 DEF OpenTable, Goto
  <2>2. CASE h = p
    <3>1. pc'[h] = "write"
      BY <2>1, <2>2 DEF TypeOK
    <3>2. \A q \in Procs, k \in TuningKeys : table[q][k] # None => table[p][k] = table[q][k]
      BY <2>1, FreshKey
    <3>3. QED
      BY <2>1, <2>2, <3>1, <3>2
  <2>3. CASE h # p
    <3>1. pc[h] \notin Holding
      BY <2>1, <2>3, Holders DEF TuningExclusive, Holding
    <3>2. QED
      BY <1>2, <2>1, <2>3, <3>1 DEF Holding, TypeOK
  <2>4. QED
    BY <2>2, <2>3
<1>7. ASSUME NEW p \in Procs, WriteTable(p) PROVE Goal
  <2>1. pc[p] = "write" /\ (h # p => pc'[h] = pc[h])
    BY <1>7 DEF WriteTable, Report, Serve, Goto, TypeOK
  <2>2. h # p => pc[h] \notin Holding
    BY <2>1, Holders DEF TuningExclusive, Holding
  <2>3. h = p => pc'[h] \in {"served", "indexError"}
    BY <1>7 DEF WriteTable, Report, Serve, Goto, TypeOK
  <2>4. QED
    BY <1>2, <2>1, <2>2, <2>3 DEF Holding
<1>8. ASSUME NEW p \in Procs, SwitchEnv(p) PROVE Goal
  BY <1>1, <1>8 DEF SwitchEnv
<1>9. ASSUME NEW p \in Procs, Crash(p) PROVE Goal
  <2>1. CASE h = p
    <3>1. pc'[h] = "idle"
      BY <1>9, <2>1 DEF Crash, Goto, TypeOK
    <3>2. QED
      BY <1>2, <3>1
  <2>2. CASE h # p
    <3>1. pc'[h] = pc[h] /\ key'[h] = key[h] /\ table'[h] = table[h] /\ file' = file
      BY <1>9, <2>2 DEF Crash, Goto, TypeOK
    <3>2. \A q \in Procs, k \in TuningKeys : table'[q][k] # None => table'[q][k] = table[q][k]
      BY <1>9 DEF Crash, NoTable, TypeOK
    <3>3. QED
      BY <1>1, <3>1, <3>2
  <2>3. QED
    BY <2>1, <2>2
<1>10. CASE UNCHANGED vars
  BY <1>1, <1>10 DEF vars
<1>11. QED
  BY <1>3, <1>4, <1>5, <1>6, <1>7, <1>8, <1>9, <1>10, Steps
-----------------------------------------------------------------------------
(***************************************************************************)
(* What the invariant is for.                                              *)
(***************************************************************************)

\* The invariant holds in every reachable state.
THEOREM AgreementInvariant == ASSUME OneMachine PROVE Spec => []AgreementInv
<1>1. Init => AgreementInv
  <2> SUFFICES ASSUME Init PROVE AgreementInv
    OBVIOUS
  <2>1. SameEnv /\ IndexIsPlace /\ Dispatched /\ Agree /\ Known /\ Tuning
    BY MarksAssumption
       DEF Init, NoTable, SameEnv, IndexIsPlace, Dispatched, Agree, Known, Tuning
  <2>2. Len(<<>>) = 0 /\ DOMAIN <<>> = {} /\ "idle" \notin Running /\ "idle" # "build"
    BY DEF Running, Holding
  <2>3. Built
    BY <2>2 DEF Init, Built
  <2>4. QED
    BY <2>1, <2>3 DEF AgreementInv
<1>2. TypeOK /\ Tuned /\ TuningExclusive /\ AgreementInv /\ [Next]_vars => AgreementInv'
  BY SameEnvStep, BuiltStep, IndexStep, DispatchedStep, AgreeStep, KnownStep, TuningStep
     DEF AgreementInv
<1>3. Spec => [](TypeOK /\ Tuned /\ TuningExclusive)
  BY JitTypeInvariant, TunedInvariant, TunersExclude, PTL
<1>4. QED
  BY <1>1, <1>2, <1>3, PTL DEF Spec

\* All processes dispatch a key to the same schedule, whoever measured what.
THEOREM AllServeAlike == ASSUME OneMachine PROVE Spec => []ServedAgree
<1>1. AgreementInv => ServedAgree
  BY DEF AgreementInv, Dispatched, Agree, ServedAgree
<1>2. QED
  BY <1>1, AgreementInvariant, PTL

\* The index on disk selects the program that won in every process that reads it.
THEOREM IndexSelectsWinner == ASSUME OneMachine PROVE Spec => []IndexMeansSchedule
<1>1. TypeOK /\ AgreementInv => IndexMeansSchedule
  <2> SUFFICES ASSUME TypeOK, AgreementInv, file \in Saved,
                      NEW p \in Procs, NEW k \in TuningKeys,
                      pc[p] \in {"pick", "acquire", "reload"}, file.entries[k] # None
               PROVE  /\ file.entries[k].index <= Len(compiled[p])
                      /\ compiled[p][file.entries[k].index] = file.entries[k].sched
    BY DEF IndexMeansSchedule
  <2>1. file.entries[k] \in Entry /\ Honest(file.entries[k])
    BY DEF AgreementInv, IndexIsPlace, Saved, Table
  <2>2. pc[p] \in Running \ {"build"} /\ Built
    BY DEF Running, Holding, AgreementInv
  <2>3. QED
    BY <2>1, <2>2, HonestFinds
<1>2. QED
  BY <1>1, AgreementInvariant, JitTypeInvariant, PTL

\* No writer of the table drops another process's entries.
THEOREM NoEntryLost == ASSUME OneMachine PROVE Spec => []NothingForgotten
<1>1. AgreementInv => NothingForgotten
  BY MarksAssumption DEF AgreementInv, Known, NothingForgotten, Holding
<1>2. QED
  BY <1>1, AgreementInvariant, PTL
-----------------------------------------------------------------------------
(***************************************************************************)
(* The table and its lock implement one choice per key (DispatchChoice).   *)
(***************************************************************************)

\* ChosenFor, of any tables and file.
ChosenIn(tables, saved, k) ==
    LET informed == {p \in Procs : tables[p][k] # None}
    IN  IF informed # {} THEN tables[CHOOSE p \in informed : TRUE][k].sched
        ELSE IF saved \in Saved /\ saved.entries[k] # None THEN saved.entries[k].sched
        ELSE None

\* No two tables have different entries for the key.
AgreeOn(tables, k) == \A q, r \in Procs :
    tables[q][k] # None /\ tables[r][k] # None => tables[q][k] = tables[r][k]

\* A key somebody has an entry for stands at that entry, where tables agree.
LEMMA ChosenInformed ==
    ASSUME NEW tables, NEW saved, NEW k, NEW p \in Procs, tables[p][k] # None,
           AgreeOn(tables, k)
    PROVE  ChosenIn(tables, saved, k) = tables[p][k].sched
<1> DEFINE informed == {q \in Procs : tables[q][k] # None}
<1>1. informed # {}
  OBVIOUS
<1>2. (CHOOSE q \in informed : TRUE) \in informed
  BY <1>1
<1>3. tables[CHOOSE q \in informed : TRUE][k] = tables[p][k]
  BY <1>2 DEF AgreeOn
<1>4. QED
  BY <1>1, <1>3 DEF ChosenIn

\* A key nobody has an entry for stands at what the file says.
LEMMA ChosenOnDisk ==
    ASSUME NEW tables, NEW saved, NEW k, \A p \in Procs : tables[p][k] = None
    PROVE  ChosenIn(tables, saved, k)
             = IF saved \in Saved /\ saved.entries[k] # None THEN saved.entries[k].sched ELSE None
BY DEF ChosenIn

\* The choices of a state and of the next.
Before(k) == ChosenIn(table, file, k)
After(k) == ChosenIn(table', file', k)

\* A step that keeps what everybody knows, and shows nobody but the file's
\* entries, makes no choice.
LEMMA SameChoice ==
    ASSUME Agree, Agree', NEW k \in TuningKeys,
           \A q \in Procs : table[q][k] # None => table'[q][k] = table[q][k],
           \A q \in Procs : table'[q][k] # None =>
              table[q][k] # None \/ (file \in Saved /\ file.entries[k] = table'[q][k]),
           (\A q \in Procs : table'[q][k] = None) =>
              IF file \in Saved THEN file' \in Saved /\ file'.entries[k] = file.entries[k]
              ELSE file' \in Saved => file'.entries[k] = None
    PROVE  After(k) = Before(k)
<1>1. AgreeOn(table, k) /\ AgreeOn(table', k)
  BY DEF Agree, AgreeOn
<1>2. CASE \E q \in Procs : table[q][k] # None
  <2>1. PICK q \in Procs : table[q][k] # None
    BY <1>2
  <2>2. Before(k) = table[q][k].sched
    BY <1>1, <2>1, ChosenInformed DEF Before
  <2>3. After(k) = table'[q][k].sched
    <3>1. table'[q][k] # None
      BY <2>1
    <3>2. QED
      BY <1>1, <3>1, ChosenInformed DEF After
  <2>4. QED
    BY <2>1, <2>2, <2>3
<1>3. CASE \A q \in Procs : table[q][k] = None
  <2>1. Before(k) = IF file \in Saved /\ file.entries[k] # None THEN file.entries[k].sched ELSE None
    BY <1>3, ChosenOnDisk DEF Before
  <2>2. CASE \E q \in Procs : table'[q][k] # None
    <3>1. PICK q \in Procs : table'[q][k] # None
      BY <2>2
    <3>2. After(k) = table'[q][k].sched
      BY <1>1, <3>1, ChosenInformed DEF After
    <3>3. QED
      BY <1>3, <2>1, <3>1, <3>2
  <2>3. CASE \A q \in Procs : table'[q][k] = None
    <3>1. After(k)
            = IF file' \in Saved /\ file'.entries[k] # None THEN file'.entries[k].sched ELSE None
      BY <2>3, ChosenOnDisk DEF After
    <3>2. QED
      BY <2>1, <2>3, <3>1
  <2>4. QED
    BY <2>2, <2>3
<1>4. QED
  BY <1>2, <1>3

\* Serving an entry teaches the process the choice of its key.
LEMMA ServeLearns ==
    ASSUME TypeOK, Built, Agree', NEW p \in Procs, NEW entry \in Entry, Honest(entry),
           pc[p] \in {"pick", "reload", "write"}, Serve(p, entry), table'[p][key[p]] = entry
    PROVE  fn' = [fn EXCEPT ![p][key[p]] = After(key[p])] /\ After(key[p]) # None
<1>1. fn' = [fn EXCEPT ![p][key[p]] = entry.sched]
  BY ServeFinds
<1>2. entry # None /\ entry.sched \in Scheds /\ entry.sched # None /\ key[p] \in TuningKeys
  BY NoneAssumption DEF Entry, TypeOK
<1>3. AgreeOn(table', key[p])
  BY <1>2 DEF Agree, AgreeOn
<1>4. After(key[p]) = entry.sched
  BY <1>2, <1>3, ChosenInformed DEF After
<1>5. QED
  BY <1>1, <1>2, <1>4

ChoiceVars == <<[k \in TuningKeys |-> ChosenFor(k)], fn>>

\* The refinement mapping, in terms of Before and After.
LEMMA Mapped ==
    /\ [k \in TuningKeys |-> ChosenFor(k)] = [k \in TuningKeys |-> Before(k)]
    /\ [k \in TuningKeys |-> ChosenFor(k)]' = [k \in TuningKeys |-> After(k)]
<1>1. ASSUME NEW k \in TuningKeys PROVE ChosenFor(k) = Before(k)
  BY DEF ChosenFor, Before, ChosenIn
<1>2. ASSUME NEW k \in TuningKeys PROVE ChosenFor(k)' = After(k)
  BY DEF ChosenFor, After, ChosenIn
<1>3. QED
  BY <1>1, <1>2

\* What a step does to choices and functions makes it a step of DispatchChoice.
LEMMA AsChoice ==
    ASSUME \/ (\A k \in TuningKeys : After(k) = Before(k)) /\ fn' = fn
           \/ \E k \in TuningKeys, s \in Scheds :
                /\ Before(k) = None /\ After(k) = s /\ fn' = fn
                /\ \A j \in TuningKeys \ {k} : After(j) = Before(j)
           \/ \E p \in Procs, k \in TuningKeys :
                /\ \A j \in TuningKeys : After(j) = Before(j)
                /\ After(k) # None /\ fn' = [fn EXCEPT ![p][k] = After(k)]
           \/ \E p \in Procs :
                /\ fn' = [fn EXCEPT ![p] = [k \in TuningKeys |-> None]]
                /\ \A k \in TuningKeys :
                      \/ After(k) = Before(k)
                      \/ After(k) = None /\ \A q \in Procs : fn'[q][k] = None
    PROVE  [Choice!Next]_ChoiceVars
<1> DEFINE before == [k \in TuningKeys |-> Before(k)]
           after == [k \in TuningKeys |-> After(k)]
<1>1. CASE (\A k \in TuningKeys : After(k) = Before(k)) /\ fn' = fn
  <2>1. after = before
    BY <1>1
  <2>2. QED
    BY <1>1, <2>1, Mapped DEF ChoiceVars
<1>2. ASSUME NEW k \in TuningKeys, NEW s \in Scheds,
             Before(k) = None, After(k) = s, fn' = fn,
             \A j \in TuningKeys \ {k} : After(j) = Before(j)
      PROVE  Choice!Next
  <2>1. after = [before EXCEPT ![k] = s]
    BY <1>2
  <2>2. Choice!Choose(k, s)
    BY <1>2, <2>1, Mapped DEF Choice!Choose
  <2>3. QED
    BY <2>2 DEF Choice!Next
<1>3. ASSUME NEW p \in Procs, NEW k \in TuningKeys,
             \A j \in TuningKeys : After(j) = Before(j),
             After(k) # None, fn' = [fn EXCEPT ![p][k] = After(k)]
      PROVE  Choice!Next
  <2>1. after = before /\ before[k] = After(k)
    BY <1>3
  <2>2. Choice!Learn(p, k)
    BY <1>3, <2>1, Mapped DEF Choice!Learn
  <2>3. QED
    BY <2>2 DEF Choice!Next
<1>4. ASSUME NEW p \in Procs,
             fn' = [fn EXCEPT ![p] = [k \in TuningKeys |-> None]],
             \A k \in TuningKeys :
                \/ After(k) = Before(k)
                \/ After(k) = None /\ \A q \in Procs : fn'[q][k] = None
      PROVE  Choice!Next
  <2> DEFINE lost == {k \in TuningKeys : After(k) # Before(k)}
  <2>1. lost \in SUBSET {k \in TuningKeys : \A q \in Procs : fn'[q][k] = None}
    BY <1>4
  <2>2. after = [k \in TuningKeys |-> IF k \in lost THEN None ELSE before[k]]
    BY <1>4
  <2>3. [k \in TuningKeys |-> ChosenFor(k)]'
          = [k \in TuningKeys |-> IF k \in lost THEN None
                                  ELSE [j \in TuningKeys |-> ChosenFor(j)][k]]
    <3>1. [j \in TuningKeys |-> ChosenFor(j)] = before
      BY Mapped, Zenon
    <3>2. [k \in TuningKeys |-> ChosenFor(k)]' = after
      BY Mapped, Zenon
    <3>3. QED
      BY <2>2, <3>1, <3>2, Zenon
  <2>5. Choice!Forget(p)
    BY <1>4, <2>1, <2>3, Zenon DEF Choice!Forget, Choice!Unlearned
  <2>6. QED
    BY <2>5 DEF Choice!Next
<1>5. QED
  BY <1>1, <1>2, <1>3, <1>4

\* Every step of the processes is a choice, a lesson, a loss or none of these.
LEMMA ChoiceStep ==
    ASSUME TypeOK, Tuned, TuningExclusive, AgreementInv, AgreementInv', [Next]_vars
    PROVE  [Choice!Next]_ChoiceVars
<1> USE DEF AgreementInv
<1>1. ASSUME UNCHANGED <<table, file>> PROVE \A k \in TuningKeys : After(k) = Before(k)
  BY <1>1 DEF After, Before
<1>2. ASSUME NEW p \in Procs, Aside(p) PROVE [Choice!Next]_ChoiceVars
  <2>1. \A k \in TuningKeys : After(k) = Before(k)
    BY <1>1, <1>2, AsideFacts
  <2>2. CASE Pick(p) /\ table[p][key[p]] # None
    <3>1. /\ pc[p] = "pick" /\ table' = table /\ Serve(p, table[p][key[p]])
          /\ key[p] \in TuningKeys /\ table[p][key[p]] \in Entry
      BY <2>2 DEF Pick, TypeOK, Table
    <3>2. Honest(table[p][key[p]])
      BY <2>2, <3>1 DEF IndexIsPlace
    <3>3. fn' = [fn EXCEPT ![p][key[p]] = After(key[p])] /\ After(key[p]) # None
      BY <3>1, <3>2, ServeLearns
    <3>4. QED
      BY <2>1, <3>1, <3>3, AsChoice
  <2>3. CASE ~(Pick(p) /\ table[p][key[p]] # None)
    <3>1. fn' = fn
      BY <1>2, <2>3 DEF Aside, Call, BuildNext, BuildAborts, BuildDone, Pick, Acquire, BenchFails,
                        Sync, Reload
    <3>2. QED
      BY <2>1, <3>1, AsChoice
  <2>4. QED
    BY <2>2, <2>3
<1>3. ASSUME NEW p \in Procs, Sync(p) \/ Reload(p), file # TornFile PROVE [Choice!Next]_ChoiceVars
  <2>1. /\ \A q \in Procs, k \in TuningKeys : table[q][k] # None => table'[q][k] = table[q][k]
        /\ \A q \in Procs, k \in TuningKeys :
              table'[q][k] # None => file \in Saved /\ file.entries[k] = table'[q][k]
        /\ file' = file
    BY <1>3, LoadFacts
  <2>2. ASSUME NEW k \in TuningKeys PROVE After(k) = Before(k)
    BY <2>1, SameChoice
  <2>3. CASE Reload(p) /\ table'[p][key[p]] # None
    <3>1. /\ pc[p] = "reload" /\ Serve(p, table'[p][key[p]]) /\ key[p] \in TuningKeys
      BY <1>3, <2>3 DEF Reload, TypeOK
    <3>2. /\ table'[p][key[p]] \in Entry
          /\ Honest(table'[p][key[p]])
      BY <2>1, <2>3, <3>1 DEF IndexIsPlace, Saved, Table
    <3>3. fn' = [fn EXCEPT ![p][key[p]] = After(key[p])] /\ After(key[p]) # None
      BY <3>1, <3>2, ServeLearns
    <3>4. QED
      BY <2>2, <3>1, <3>3, AsChoice
  <2>4. CASE ~(Reload(p) /\ table'[p][key[p]] # None)
    <3>1. fn' = fn
      BY <1>3, <2>4 DEF Sync, Reload
    <3>2. QED
      BY <2>2, <3>1, AsChoice
  <2>5. QED
    BY <2>3, <2>4
<1>4. ASSUME NEW p \in Procs, Tune(p) PROVE [Choice!Next]_ChoiceVars
  <2>1. /\ pc[p] = "tune" /\ file' = file /\ fn' = fn /\ key[p] \in TuningKeys
    BY <1>4 DEF Tune, TypeOK
  <2>2. PICK new \in Entry :
          /\ table'[p][key[p]] = new
          /\ \A k \in TuningKeys \ {key[p]} : table'[p][k] = table[p][k]
          /\ \A q \in Procs \ {p} : table'[q] = table[q]
    BY <1>4, TuneFacts
  <2>3. \A q \in Procs : table[q][key[p]] = None
    BY <2>1, FreshKey DEF Tuning
  <2>4. Before(key[p]) = None
    <3>1. file \in Saved => file.entries[key[p]] = None
      BY <2>1 DEF Tuning
    <3>2. QED
      BY <2>3, <3>1, ChosenOnDisk DEF Before
  <2>5. After(key[p]) = new.sched /\ new.sched \in Scheds
    <3>1. new # None /\ new.sched \in Scheds
      BY NoneAssumption DEF Entry
    <3>2. AgreeOn(table', key[p])
      BY <2>1 DEF Agree, AgreeOn
    <3>3. QED
      BY <2>2, <3>1, <3>2, ChosenInformed DEF After
  <2>6. ASSUME NEW j \in TuningKeys \ {key[p]} PROVE After(j) = Before(j)
    <3>1. \A q \in Procs : table'[q][j] = table[q][j]
      BY <2>2
    <3>2. QED
      BY <2>1, <3>1, SameChoice
  <2>7. QED
    BY <2>1, <2>4, <2>5, <2>6, AsChoice
<1>5. ASSUME NEW p \in Procs, OpenTable(p) PROVE [Choice!Next]_ChoiceVars
  <2>1. pc[p] = "dump" /\ table' = table /\ fn' = fn /\ file' = TornFile /\ TornFile \notin Saved
    BY <1>5, MarksAssumption DEF OpenTable
  <2>2. ASSUME NEW k \in TuningKeys PROVE After(k) = Before(k)
    <3>1. CASE \E q \in Procs : table[q][k] # None
      BY <2>1, <3>1, SameChoice
    <3>2. CASE \A q \in Procs : table[q][k] = None
      <4>1. file \in Saved => file.entries[k] = None
        BY <2>1, <3>2 DEF Tuning
      <4>2. Before(k) = None /\ After(k) = None
        BY <2>1, <3>2, <4>1, ChosenOnDisk DEF Before, After
      <4>3. QED
        BY <4>2
    <3>3. QED
      BY <3>1, <3>2
  <2>3. QED
    BY <2>1, <2>2, AsChoice
<1>6. ASSUME NEW p \in Procs, WriteTable(p) PROVE [Choice!Next]_ChoiceVars
  <2>1. /\ pc[p] = "write" /\ table' = table /\ Serve(p, table[p][key[p]])
        /\ file' = [meta |-> env[p], entries |-> table[p]]
    BY <1>6, ReportServes DEF WriteTable
  <2>2. file \notin Saved /\ key[p] \in TuningKeys
    BY <2>1, MarksAssumption DEF Tuning, TypeOK
  <2>3. ASSUME NEW k \in TuningKeys PROVE After(k) = Before(k)
    <3>1. (\A q \in Procs : table'[q][k] = None) => file'.entries[k] = None
      BY <2>1
    <3>2. QED
      BY <2>1, <2>2, <3>1, SameChoice
  <2>4. table[p][key[p]] \in Entry /\ table[p][key[p]] # None
    BY <2>1, <2>2 DEF Tuned, TypeOK, Table
  <2>5. Honest(table[p][key[p]])
    BY <2>2, <2>4 DEF IndexIsPlace
  <2>6. fn' = [fn EXCEPT ![p][key[p]] = After(key[p])] /\ After(key[p]) # None
    BY <2>1, <2>4, <2>5, ServeLearns
  <2>7. QED
    BY <2>2, <2>3, <2>6, AsChoice
<1>7. ASSUME NEW p \in Procs, SwitchEnv(p) PROVE [Choice!Next]_ChoiceVars
  <2>1. UNCHANGED <<table, file>> /\ fn' = fn
    BY <1>7 DEF SwitchEnv
  <2>2. QED
    BY <1>1, <2>1, AsChoice
<1>8. ASSUME NEW p \in Procs, Crash(p) PROVE [Choice!Next]_ChoiceVars
  <2>1. /\ fn' = [fn EXCEPT ![p] = [k \in TuningKeys |-> None]] /\ file' = file
        /\ \A k \in TuningKeys : table'[p][k] = None
        /\ \A q \in Procs \ {p} : table'[q] = table[q]
    BY <1>8 DEF Crash, NoTable, TypeOK
  <2>2. ASSUME NEW k \in TuningKeys
        PROVE  \/ After(k) = Before(k)
               \/ After(k) = None /\ \A q \in Procs : fn'[q][k] = None
    <3>1. CASE \E q \in Procs : table'[q][k] # None
      <4>1. PICK q \in Procs : table'[q][k] # None
        BY <3>1
      <4>2. table'[q][k] = table[q][k]
        BY <2>1, <4>1
      <4>3. After(k) = table'[q][k].sched /\ Before(k) = table[q][k].sched
        <5>1. AgreeOn(table, k) /\ AgreeOn(table', k)
          BY DEF Agree, AgreeOn
        <5>2. After(k) = table'[q][k].sched
          BY <4>1, <5>1, ChosenInformed DEF After
        <5>3. Before(k) = table[q][k].sched
          BY <4>1, <4>2, <5>1, ChosenInformed DEF Before
        <5>4. QED
          BY <5>2, <5>3
      <4>4. QED
        BY <4>2, <4>3
    <3>2. CASE \A q \in Procs : table'[q][k] = None
      <4>1. \A q \in Procs : fn'[q][k] = None
        BY <3>2 DEF Dispatched
      <4>2. After(k)
              = IF file \in Saved /\ file.entries[k] # None THEN file.entries[k].sched ELSE None
        BY <2>1, <3>2, ChosenOnDisk DEF After
      <4>3. CASE table[p][k] = None
        <5>1. \A q \in Procs : table[q][k] = None
          BY <2>1, <3>2, <4>3
        <5>2. QED
          BY <4>2, <5>1, ChosenOnDisk DEF Before
      <4>4. CASE table[p][k] # None
        <5>1. AgreeOn(table, k)
          BY DEF Agree, AgreeOn
        <5>2. Before(k) = table[p][k].sched
          BY <4>4, <5>1, ChosenInformed DEF Before
        <5>3. CASE file \in Saved /\ file.entries[k] = table[p][k]
          BY <4>2, <4>4, <5>2, <5>3
        <5>4. CASE file = TornFile
          BY <4>1, <4>2, <5>4, MarksAssumption
        <5>5. CASE pc[p] = "dump" /\ k = key[p]
          <6>1. file \in Saved => file.entries[k] = None
            BY <5>5 DEF Tuning
          <6>2. QED
            BY <4>1, <4>2, <6>1
        <5>6. QED
          BY <4>4, <5>3, <5>4, <5>5 DEF Known
      <4>5. QED
        BY <4>3, <4>4
    <3>3. QED
      BY <3>1, <3>2
  <2>3. QED
    BY <2>1, <2>2, AsChoice
<1>9. CASE UNCHANGED vars
  <2>1. UNCHANGED <<table, file>> /\ fn' = fn
    BY <1>9 DEF vars
  <2>2. QED
    BY <1>1, <2>1, AsChoice
<1>10. QED
  BY <1>2, <1>3, <1>4, <1>5, <1>6, <1>7, <1>8, <1>9, Steps

\* The lock, the file and the tables in memory implement one choice per key that
\* all processes follow (JitInstance._pick_best_program with dump_dispatch_table
\* and load_dispatch_table).
THEOREM TableImplementsChoice == ASSUME OneMachine PROVE Spec => ImplementsChoice
<1>1. Init => Choice!Init
  <2> SUFFICES ASSUME Init PROVE Choice!Init
    OBVIOUS
  <2>1. ASSUME NEW k \in TuningKeys PROVE Before(k) = None
    <3>1. \A p \in Procs : table[p][k] = None
      BY DEF Init, NoTable
    <3>2. file \notin Saved
      BY MarksAssumption DEF Init
    <3>3. QED
      BY <3>1, <3>2, ChosenOnDisk DEF Before
  <2>2. [k \in TuningKeys |-> Before(k)] = [k \in TuningKeys |-> None]
    BY <2>1
  <2>3. QED
    BY <2>2, Mapped DEF Init, Choice!Init, Choice!Unlearned
<1>2. TypeOK /\ Tuned /\ TuningExclusive /\ AgreementInv /\ AgreementInv' /\ [Next]_vars
        => [Choice!Next]_ChoiceVars
  BY ChoiceStep
<1>3. Spec => [](TypeOK /\ Tuned /\ TuningExclusive /\ AgreementInv)
  BY JitTypeInvariant, TunedInvariant, TunersExclude, AgreementInvariant, PTL
<1>4. QED
  BY <1>1, <1>2, <1>3, PTL DEF Spec, ImplementsChoice, Choice!Spec, ChoiceVars
=============================================================================

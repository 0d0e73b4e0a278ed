------------------------- MODULE ProgramCacheProofs -------------------------
(***************************************************************************)
(* The safety of the program cache, for any number of processes, programs, *)
(* targets and directories: types, exclusion of builders, stability of a   *)
(* finished library, and delivery of a caller's own library.               *)
(***************************************************************************)
EXTENDS ProgramCache, TLAPS

\* Every label an action jumps to is one of the program counter's values.
LEMMA Labels ==
    /\ {"idle", "crashed", "done", "mismatch", "failed", "badLib"} \subseteq PCs
    /\ {"stat", "readProg", "readOpts"} \subseteq PCs
    /\ {"openProg", "writeProg", "openOpts", "writeOpts"} \subseteq PCs
    /\ {"fast", "acquire", "load", "recheck", "compile", "link"} \subseteq PCs
BY DEF PCs, Returned, Running, Writing, Resolved, Locked, Building

\* The compiler of a killed process writes libraries and nothing else.
LEMMA OrphanTypes ==
  ASSUME TypeOK, OrphanStep
  PROVE  lib' \in [Dirs -> LibFile] /\ orphans' \subseteq Orphan
<1>1. PICK o \in orphans : OrphanStartsLink(o) \/ OrphanFinishes(o) \/ OrphanFails(o)
  BY DEF OrphanStep
<1>2. o \in Orphan /\ o.dir \in Dirs /\ o.key \in Keys
  BY DEF TypeOK, Orphan
<1>3. lib \in [Dirs -> LibFile] /\ orphans \subseteq Orphan
  BY DEF TypeOK
<1>4. CASE OrphanStartsLink(o)
  <2>1. [o EXCEPT !.at = "link"] \in Orphan
    BY <1>2 DEF Orphan, Building
  <2> QED BY <1>3, <1>4, <2>1 DEF OrphanStartsLink, LibFile
<1>5. CASE OrphanFinishes(o)
  BY <1>2, <1>3, <1>5 DEF OrphanFinishes, Linked, LibFile
<1>6. CASE OrphanFails(o)
  BY <1>3, <1>6 DEF OrphanFails, Failed, LibFile
<1> QED BY <1>1, <1>4, <1>5, <1>6

\* Every step keeps the types.
LEMMA TypeStep == TypeOK /\ [Next]_vars => TypeOK'
<1> SUFFICES ASSUME TypeOK, [Next]_vars PROVE TypeOK'
  OBVIOUS
<1> USE Labels DEF TypeOK, Goto
<1>1. ASSUME NEW p \in Procs, Call(p) PROVE TypeOK'
  <2>1. PICK g \in Progs, t \in TargetsOf[p] : Call(p)!(g, t)
    BY <1>1 DEF Call
  <2>2. /\ <<g, t>> \in Keys
        /\ calls[p] + 1 \in 0 .. MaxCalls
        /\ memo[p][g] \in Dirs \union {None}
    <3>1. t \in Targets
      BY TargetsOfAssumption
    <3>2. calls[p] \in 0 .. MaxCalls /\ calls[p] < MaxCalls /\ MaxCalls \in Nat
      BY <2>1, BoundAssumption
    <3>3. memo[p] \in [Progs -> Dirs \union {None}]
      OBVIOUS
    <3>4. calls[p] + 1 \in 0 .. MaxCalls
      BY <3>2
    <3>5. QED
      BY <3>1, <3>3, <3>4 DEF Keys
  <2>3. PICK d \in Dirs, label \in {"fast", "stat"} :
          dir' = [dir EXCEPT ![p] = d] /\ pc' = [pc EXCEPT ![p] = label]
    <3>1. CASE memo[p][g] # None
      BY <2>1, <2>2, <3>1
    <3>2. CASE memo[p][g] = None
      <4>1. Digest[<<g, t>>] \in Dirs
        BY <2>2, DigestAssumption
      <4>2. QED
        BY <2>1, <3>2, <4>1 DEF CacheDir
    <3>3. QED
      BY <3>1, <3>2
  <2>4. dir' \in [Procs -> Dirs] /\ pc' \in [Procs -> PCs]
    BY <2>3
  <2>5. /\ calls' \in [Procs -> 0 .. MaxCalls]
        /\ call' \in [Procs -> Keys]
        /\ got' \in [Procs -> LibFile]
    BY <2>1, <2>2 DEF LibFile
  <2>6. UNCHANGED <<progFile, optsFile, lib, lock, cached, memo, orphans, crashes>>
    BY <2>1 DEF files
  <2>7. QED
    BY <2>4, <2>5, <2>6
<1>2. ASSUME NEW p \in Procs, Stat(p) PROVE TypeOK'
  BY <1>2 DEF Stat, files, locals
<1>3. ASSUME NEW p \in Procs, ReadProg(p) PROVE TypeOK'
  BY <1>3 DEF ReadProg, files
<1>4. ASSUME NEW p \in Procs, ReadOpts(p) PROVE TypeOK'
  <2>1. CASE SameTexts(p)
    <3>1. Prog(p) \in Progs /\ dir[p] \in Dirs
      BY DEF Prog, Keys
    <3>2. memo' \in [Procs -> [Progs -> Dirs \union {None}]]
      <4>1. memo' = [memo EXCEPT ![p] = [memo[p] EXCEPT ![Prog(p)] = dir[p]]]
        BY <1>4, <2>1 DEF ReadOpts, Remember
      <4>2. memo[p] \in [Progs -> Dirs \union {None}]
        OBVIOUS
      <4>3. [memo[p] EXCEPT ![Prog(p)] = dir[p]] \in [Progs -> Dirs \union {None}]
        BY <3>1, <4>2
      <4>4. QED
        BY <4>1, <4>3
    <3>3. QED
      BY <1>4, <2>1, <3>2 DEF ReadOpts, files
  <2>2. CASE ~SameTexts(p)
    BY <1>4, <2>2 DEF ReadOpts, files
  <2>3. QED
    BY <2>1, <2>2
<1>5. ASSUME NEW p \in Procs, OpenProg(p) PROVE TypeOK'
  BY <1>5 DEF OpenProg, locals, ProgText
<1>6. ASSUME NEW p \in Procs, WriteProg(p) PROVE TypeOK'
  BY <1>6 DEF WriteProg, locals, Overlay, ProgText, Keys
<1>7. ASSUME NEW p \in Procs, OpenOpts(p) PROVE TypeOK'
  BY <1>7 DEF OpenOpts, locals, OptsText
<1>8. ASSUME NEW p \in Procs, WriteOpts(p) PROVE TypeOK'
  BY <1>8 DEF WriteOpts, Overlay, Remember, Prog, OptsText, Keys
<1>9. ASSUME NEW p \in Procs, Fast(p) PROVE TypeOK'
  <2>1. CASE ProgramExists(dir[p])
    BY <1>9, <2>1 DEF Fast, files, locals
  <2>2. CASE ~ProgramExists(dir[p])
    BY <1>9, <2>2 DEF Fast, files, locals
  <2>3. QED
    BY <2>1, <2>2
<1>10. ASSUME NEW p \in Procs, Acquire(p) PROVE TypeOK'
  BY <1>10 DEF Acquire, files, locals
<1>11. ASSUME NEW p \in Procs, Recheck(p) PROVE TypeOK'
  <2>1. CASE ProgramExists(dir[p])
    BY <1>11, <2>1 DEF Recheck, Release, files, locals
  <2>2. CASE ~ProgramExists(dir[p])
    BY <1>11, <2>2 DEF Recheck, files, locals
  <2>3. QED
    BY <2>1, <2>2
<1>12. ASSUME NEW p \in Procs, StartLink(p) PROVE TypeOK'
  BY <1>12 DEF StartLink, locals, LibFile
<1>13. ASSUME NEW p \in Procs, FinishLink(p) PROVE TypeOK'
  BY <1>13 DEF FinishLink, Linked, Release, locals, LibFile
<1>14. ASSUME NEW p \in Procs, BuildFails(p) PROVE TypeOK'
  BY <1>14 DEF BuildFails, Failed, Release, locals, LibFile
<1>15. ASSUME NEW p \in Procs, Load(p) PROVE TypeOK'
  BY <1>15 DEF Load, files
<1>16. ASSUME NEW p \in Procs, Crash(p) PROVE TypeOK'
  <2>1. orphans' \subseteq Orphan
    <3>1. pc[p] \in Building =>
            [id |-> crashes + 1, key |-> call[p], dir |-> dir[p], at |-> pc[p]] \in Orphan
      BY <1>16, BoundAssumption DEF Crash, Orphan
    <3> QED BY <1>16, <3>1 DEF Crash
  <2> QED BY <1>16, <2>1, BoundAssumption DEF Crash, files, locals
<1>17. ASSUME NEW p \in Procs, Restart(p) PROVE TypeOK'
  BY <1>17 DEF Restart, files
<1>18. CASE OrphanStep
  BY <1>18, OrphanTypes DEF OrphanStep, locals
<1>19. CASE UNCHANGED vars
  BY <1>19 DEF vars, files, locals
<1>20. QED
  BY <1>1, <1>2, <1>3, <1>4, <1>5, <1>6, <1>7, <1>8, <1>9, <1>10, <1>11, <1>12,
     <1>13, <1>14, <1>15, <1>16, <1>17, <1>18, <1>19
     DEF Next, Step, GetCacheDir, BuildProgram

\* The variables keep their types in every reachable state.
THEOREM TypeInvariant == Spec => []TypeOK
<1>1. Init => TypeOK
  BY Labels, DigestAssumption, BoundAssumption
     DEF Init, TypeOK, LibFile, ProgText, OptsText
<1>2. QED
  BY <1>1, TypeStep, PTL DEF Spec
-----------------------------------------------------------------------------
(***************************************************************************)
(* Builders exclude each other, and a finished library stays.              *)
(***************************************************************************)
BuildInv == TypeOK /\ LockInv /\ FilesInv

\* No text and no key is the mark of an absent or of a torn file.
LEMMA Marks ==
    /\ NoFile \notin Progs /\ NoFile \notin Targets
    /\ NoFile \notin Keys /\ Torn \notin Keys
    /\ NoFile # Empty /\ NoFile # Torn
    /\ None \notin Procs /\ None \notin Dirs
BY MarkAssumption

\* The two text files, once created, are never removed.
LEMMA FilesStay ==
  ASSUME TypeOK, [Next]_vars, NEW d \in Dirs
  PROVE  /\ progFile[d] # NoFile => progFile'[d] # NoFile
         /\ optsFile[d] # NoFile => optsFile'[d] # NoFile
<1>1. ASSUME NEW p \in Procs, OpenProg(p)
      PROVE  progFile'[d] = progFile[d] \/ progFile'[d] = Empty
  BY <1>1 DEF OpenProg, TypeOK
<1>2. ASSUME NEW p \in Procs, WriteProg(p)
      PROVE  progFile'[d] \in {progFile[d], Torn} \union Progs
  BY <1>2 DEF WriteProg, TypeOK, Overlay, Keys
<1>3. ASSUME NEW p \in Procs, OpenOpts(p)
      PROVE  optsFile'[d] = optsFile[d] \/ optsFile'[d] = Empty
  BY <1>3 DEF OpenOpts, TypeOK
<1>4. ASSUME NEW p \in Procs, WriteOpts(p)
      PROVE  optsFile'[d] \in {optsFile[d], Torn} \union Targets
  BY <1>4 DEF WriteOpts, TypeOK, Overlay, Keys
<1>5. ASSUME NEW p \in Procs, OpenProg(p) \/ WriteProg(p)
      PROVE  optsFile' = optsFile
  BY <1>5 DEF OpenProg, WriteProg
<1>6. ASSUME NEW p \in Procs, OpenOpts(p) \/ WriteOpts(p)
      PROVE  progFile' = progFile
  BY <1>6 DEF OpenOpts, WriteOpts
<1>7. ASSUME NEW p \in Procs,
             \/ Call(p) \/ Stat(p) \/ ReadProg(p) \/ ReadOpts(p)
             \/ BuildProgram(p) \/ Load(p) \/ Crash(p) \/ Restart(p)
      PROVE  progFile' = progFile /\ optsFile' = optsFile
  BY <1>7 DEF Call, Stat, ReadProg, ReadOpts, BuildProgram, Fast, Acquire, Recheck,
              StartLink, FinishLink, BuildFails, Load, Crash, Restart, files
<1>8. CASE UNCHANGED vars
  BY <1>8 DEF vars, files
<1>9. CASE OrphanStep
  BY <1>9 DEF OrphanStep
<1>10. QED
  BY <1>1, <1>2, <1>3, <1>4, <1>5, <1>6, <1>7, <1>8, <1>9, Marks
     DEF Next, Step, GetCacheDir

\* A step keeps the ownership of the lock and what the holder knows of lib.so.
LEMMA LockStep == BuildInv /\ [Next]_vars => LockInv'
<1> SUFFICES ASSUME BuildInv, [Next]_vars PROVE LockInv'
  OBVIOUS
<1> USE Marks DEF BuildInv, TypeOK, LockInv, Locked, Building, Goto
<1>1. ASSUME NEW p \in Procs, Call(p) PROVE LockInv'
  BY <1>1 DEF Call, files, Returned
<1>2. ASSUME NEW p \in Procs, Stat(p) PROVE LockInv'
  BY <1>2 DEF Stat, files, locals
<1>3. ASSUME NEW p \in Procs, ReadProg(p) PROVE LockInv'
  BY <1>3 DEF ReadProg, files
<1>4. ASSUME NEW p \in Procs, ReadOpts(p) PROVE LockInv'
  BY <1>4 DEF ReadOpts, files, Remember
<1>5. ASSUME NEW p \in Procs, OpenProg(p) PROVE LockInv'
  BY <1>5 DEF OpenProg, locals
<1>6. ASSUME NEW p \in Procs, WriteProg(p) PROVE LockInv'
  BY <1>6 DEF WriteProg, locals
<1>7. ASSUME NEW p \in Procs, OpenOpts(p) PROVE LockInv'
  BY <1>7 DEF OpenOpts, locals
<1>8. ASSUME NEW p \in Procs, WriteOpts(p) PROVE LockInv'
  BY <1>8 DEF WriteOpts, Remember
<1>9. ASSUME NEW p \in Procs, Fast(p) PROVE LockInv'
  BY <1>9 DEF Fast, files, locals
<1>10. ASSUME NEW p \in Procs, Acquire(p) PROVE LockInv'
  BY <1>10 DEF Acquire, files, locals
<1>11. ASSUME NEW p \in Procs, Recheck(p) PROVE LockInv'
  <2>1. dir' = dir
    BY <1>11 DEF Recheck, locals
  <2>2. CASE ProgramExists(dir[p])
    BY <1>11, <2>1, <2>2 DEF Recheck, Release
  <2>3. CASE ~ProgramExists(dir[p])
    BY <1>11, <2>1, <2>3 DEF Recheck
  <2> QED BY <2>2, <2>3
<1>12. ASSUME NEW p \in Procs, StartLink(p) PROVE LockInv'
  BY <1>12 DEF StartLink, locals
<1>13. ASSUME NEW p \in Procs, FinishLink(p) PROVE LockInv'
  BY <1>13 DEF FinishLink, locals, Release
<1>14. ASSUME NEW p \in Procs, BuildFails(p) PROVE LockInv'
  BY <1>14 DEF BuildFails, locals, Release
<1>15. ASSUME NEW p \in Procs, Load(p) PROVE LockInv'
  BY <1>15 DEF Load, files
<1>16. ASSUME NEW p \in Procs, Crash(p) PROVE LockInv'
  BY <1>16 DEF Crash, files, locals
<1>17. ASSUME NEW p \in Procs, Restart(p) PROVE LockInv'
  BY <1>17 DEF Restart, files
<1>18. CASE OrphanStep
  BY <1>18 DEF OrphanStep, locals
<1>19. CASE UNCHANGED vars
  BY <1>19 DEF vars, files, locals
<1>20. QED
  BY <1>1, <1>2, <1>3, <1>4, <1>5, <1>6, <1>7, <1>8, <1>9,
     <1>10, <1>11, <1>12, <1>13, <1>14, <1>15, <1>16, <1>17, <1>18, <1>19
     DEF Next, Step, GetCacheDir, BuildProgram

\* A step keeps what get_cache_dir guarantees of the two text files.
LEMMA FilesStep == BuildInv /\ [Next]_vars => FilesInv'
<1> SUFFICES ASSUME BuildInv, [Next]_vars PROVE FilesInv'
  OBVIOUS
<1> USE Marks DEF BuildInv, TypeOK, FilesInv, FilesExist, Resolved, Locked, Building, Goto
<1>1. ASSUME NEW p \in Procs, Call(p) PROVE FilesInv'
  <2>1. PICK g \in Progs, t \in TargetsOf[p] : Call(p)!(g, t)
    BY <1>1 DEF Call
  <2>2. /\ progFile' = progFile /\ optsFile' = optsFile /\ memo' = memo
        /\ \A q \in Procs \ {p} : pc'[q] = pc[q] /\ dir'[q] = dir[q]
    BY <2>1 DEF files
  <2>3. pc'[p] = "stat" \/ (pc'[p] = "fast" /\ dir'[p] = memo[p][g] /\ memo[p][g] # None)
    BY <2>1
  <2>4. QED
    BY <2>2, <2>3
<1>2. ASSUME NEW p \in Procs, Stat(p) PROVE FilesInv'
  BY <1>2 DEF Stat, files, locals
<1>3. ASSUME NEW p \in Procs, ReadProg(p) PROVE FilesInv'
  BY <1>3 DEF ReadProg, files
<1>4. ASSUME NEW p \in Procs, ReadOpts(p) PROVE FilesInv'
  BY <1>4 DEF ReadOpts, files, Remember, Prog
<1>5. ASSUME NEW p \in Procs, OpenProg(p) PROVE FilesInv'
  BY <1>5, FilesStay DEF OpenProg, locals
<1>6. ASSUME NEW p \in Procs, WriteProg(p) PROVE FilesInv'
  BY <1>6, FilesStay DEF WriteProg, locals
<1>7. ASSUME NEW p \in Procs, OpenOpts(p) PROVE FilesInv'
  BY <1>7, FilesStay DEF OpenOpts, locals
<1>8. ASSUME NEW p \in Procs, WriteOpts(p) PROVE FilesInv'
  BY <1>8, FilesStay DEF WriteOpts, Remember, Prog
<1>9. ASSUME NEW p \in Procs, Fast(p) PROVE FilesInv'
  BY <1>9 DEF Fast, files, locals
<1>10. ASSUME NEW p \in Procs, Acquire(p) PROVE FilesInv'
  BY <1>10 DEF Acquire, files, locals
<1>11. ASSUME NEW p \in Procs, Recheck(p) PROVE FilesInv'
  BY <1>11 DEF Recheck, files, locals, Release
<1>12. ASSUME NEW p \in Procs, StartLink(p) PROVE FilesInv'
  BY <1>12 DEF StartLink, locals
<1>13. ASSUME NEW p \in Procs, FinishLink(p) PROVE FilesInv'
  BY <1>13 DEF FinishLink, locals, Release
<1>14. ASSUME NEW p \in Procs, BuildFails(p) PROVE FilesInv'
  BY <1>14 DEF BuildFails, locals, Release
<1>15. ASSUME NEW p \in Procs, Load(p) PROVE FilesInv'
  BY <1>15 DEF Load, files
<1>16. ASSUME NEW p \in Procs, Crash(p) PROVE FilesInv'
  BY <1>16 DEF Crash, files, locals
<1>17. ASSUME NEW p \in Procs, Restart(p) PROVE FilesInv'
  BY <1>17 DEF Restart, files
<1>18. CASE OrphanStep
  BY <1>18 DEF OrphanStep, locals
<1>19. CASE UNCHANGED vars
  BY <1>19 DEF vars, files, locals
<1>20. QED
  BY <1>1, <1>2, <1>3, <1>4, <1>5, <1>6, <1>7, <1>8, <1>9,
     <1>10, <1>11, <1>12, <1>13, <1>14, <1>15, <1>16, <1>17, <1>18, <1>19
     DEF Next, Step, GetCacheDir, BuildProgram

\* BuildInv is inductive.
THEOREM BuildInvariant == Spec => []BuildInv
<1>1. Init => BuildInv
  <2> SUFFICES ASSUME Init PROVE BuildInv
    OBVIOUS
  <2>1. TypeOK
    BY Labels, DigestAssumption, BoundAssumption
       DEF Init, TypeOK, LibFile, ProgText, OptsText
  <2>2. LockInv /\ FilesInv
    BY DEF Init, LockInv, FilesInv, Locked, Building, Resolved
  <2>3. QED
    BY <2>1, <2>2 DEF BuildInv
<1>2. BuildInv /\ [Next]_vars => BuildInv'
  BY TypeStep, LockStep, FilesStep DEF BuildInv
<1>3. QED
  BY <1>1, <1>2, PTL DEF Spec

\* Two processes are never both inside the locked region of one directory.
THEOREM BuildersExclude == Spec => []BuildExclusion
<1>1. BuildInv => BuildExclusion
  BY DEF BuildInv, LockInv, BuildExclusion
<1>2. QED
  BY <1>1, BuildInvariant, PTL

\* Nobody begins to compile where a finished library is.
LEMMA NobodyCompiles ==
  ASSUME BuildInv, [Next]_vars, NEW d \in Dirs, Finished(d)
  PROVE  /\ \A p \in Procs : ~(pc'[p] \in Building /\ dir'[p] = d)
         /\ \A o \in orphans' : o.dir # d
<1>1. /\ lib[d] # NoFile
      /\ \A p \in Procs : ~(pc[p] \in Building /\ dir[p] = d)
      /\ \A o \in orphans : o.dir # d
  BY Marks DEF Finished, Compilers
<1> DEFINE Nobody == /\ \A p \in Procs : ~(pc'[p] \in Building /\ dir'[p] = d)
                     /\ \A o \in orphans' : o.dir # d
<1> USE DEF BuildInv, TypeOK, Building, Goto
<1>2. ASSUME NEW p \in Procs, Recheck(p) PROVE Nobody
  <2>1. dir' = dir /\ orphans' = orphans
    BY <1>2 DEF Recheck, locals
  <2>2. CASE ProgramExists(dir[p])
    BY <1>1, <1>2, <2>1, <2>2 DEF Recheck
  <2>3. CASE ~ProgramExists(dir[p])
    <3>1. FilesExist(dir[p])
      BY <1>2 DEF Recheck, FilesInv, Resolved, Locked
    <3>2. dir[p] # d
      BY <1>1, <2>3, <3>1 DEF ProgramExists, FilesExist
    <3> QED BY <1>1, <1>2, <2>1, <3>2 DEF Recheck
  <2> QED BY <2>2, <2>3
<1>3. ASSUME NEW p \in Procs, Crash(p) PROVE Nobody
  <2>1. dir' = dir /\ \A q \in Procs : pc'[q] \in Building => pc[q] \in Building
    BY <1>3 DEF Crash, locals
  <2>2. \A o \in orphans' : o \in orphans \/ (pc[p] \in Building /\ o.dir = dir[p])
    BY <1>3 DEF Crash
  <2> QED BY <1>1, <2>1, <2>2
<1>4. CASE OrphanStep
  <2>1. pc' = pc /\ dir' = dir
    BY <1>4 DEF OrphanStep, locals
  <2>2. PICK o \in orphans : OrphanStartsLink(o) \/ OrphanFinishes(o) \/ OrphanFails(o)
    BY <1>4 DEF OrphanStep
  <2>3. [o EXCEPT !.at = "link"].dir = o.dir
    BY DEF Orphan
  <2>4. \A q \in orphans' : q \in orphans \/ q = [o EXCEPT !.at = "link"]
    BY <2>2 DEF OrphanStartsLink, OrphanFinishes, OrphanFails
  <2> QED BY <1>1, <2>1, <2>3, <2>4
<1>5. ASSUME NEW p \in Procs, Call(p) PROVE Nobody
  BY <1>1, <1>5 DEF Call, Returned
<1>6. ASSUME NEW p \in Procs, GetCacheDir(p) PROVE Nobody
  BY <1>1, <1>6 DEF GetCacheDir, Stat, ReadProg, ReadOpts, OpenProg, WriteProg, OpenOpts,
                    WriteOpts, locals
<1>7. ASSUME NEW p \in Procs, Fast(p) \/ Acquire(p) PROVE Nobody
  BY <1>1, <1>7 DEF Fast, Acquire, locals
<1>8. ASSUME NEW p \in Procs, StartLink(p) \/ FinishLink(p) \/ BuildFails(p) PROVE Nobody
  BY <1>1, <1>8 DEF StartLink, FinishLink, BuildFails, locals
<1>9. ASSUME NEW p \in Procs, Load(p) \/ Restart(p) PROVE Nobody
  BY <1>1, <1>9 DEF Load, Restart
<1>10. CASE UNCHANGED vars
  BY <1>1, <1>10 DEF vars, locals
<1> QED
  BY <1>2, <1>3, <1>4, <1>5, <1>6, <1>7, <1>8, <1>9, <1>10 DEF Next, Step, BuildProgram

\* A finished library is never overwritten, removed or built again: neither a late
\* builder, nor a failing one, nor the compiler a killed one left behind touches it.
THEOREM FinishedLibraryStays == Spec => LibraryStable
<1> DEFINE Stays == \A d \in Dirs : Finished(d) => Finished(d)' /\ lib'[d] = lib[d]
<1>1. ASSUME BuildInv, [Next]_vars PROVE Stays
  <2> SUFFICES ASSUME NEW d \in Dirs, Finished(d) PROVE Finished(d)' /\ lib'[d] = lib[d]
    OBVIOUS
  <2> USE <1>1
  <2>1. /\ lib[d] \in Keys
        /\ \A p \in Procs : ~(pc[p] \in Building /\ dir[p] = d)
        /\ \A o \in orphans : o.dir # d
    BY DEF Finished, Compilers
  <2>2. lib'[d] = lib[d]
    <3> USE <2>1 DEF BuildInv, TypeOK, Building
    <3>1. ASSUME NEW p \in Procs, StartLink(p) \/ FinishLink(p) PROVE lib'[d] = lib[d]
      BY <3>1 DEF StartLink, FinishLink
    <3>2. ASSUME NEW p \in Procs, BuildFails(p) PROVE lib'[d] = lib[d]
      BY <3>2 DEF BuildFails, Failed
    <3>3. CASE OrphanStep
      BY <3>3 DEF OrphanStep, OrphanStartsLink, OrphanFinishes, OrphanFails, Failed
    <3>4. ASSUME NEW p \in Procs,
                 \/ Call(p) \/ GetCacheDir(p) \/ Fast(p) \/ Acquire(p) \/ Recheck(p)
                 \/ Load(p) \/ Crash(p) \/ Restart(p)
          PROVE  lib' = lib
      BY <3>4 DEF Call, GetCacheDir, Stat, ReadProg, ReadOpts, OpenProg, WriteProg, OpenOpts,
                  WriteOpts, Fast, Acquire, Recheck, Load, Crash, Restart, files
    <3>5. CASE UNCHANGED vars
      BY <3>5 DEF vars, files
    <3> QED
      BY <3>1, <3>2, <3>3, <3>4, <3>5 DEF Next, Step, BuildProgram
  <2>3. Finished(d)'
    <3>1. /\ \A p \in Procs : ~(pc'[p] \in Building /\ dir'[p] = d)
          /\ \A o \in orphans' : o.dir # d
      BY NobodyCompiles
    <3> QED BY <2>1, <2>2, <3>1 DEF Finished, Compilers
  <2> QED BY <2>2, <2>3
<1>2. BuildInv /\ [Next]_vars => [Stays]_vars
  BY <1>1
<1>3. QED
  BY <1>2, BuildInvariant, PTL DEF Spec, LibraryStable
-----------------------------------------------------------------------------
(***************************************************************************)
(* Every caller gets its own library, under two assumptions: distinct keys *)
(* have distinct digests, and a process does not change its target.        *)
(***************************************************************************)
DigestInjective == \A k, l \in Keys : Digest[k] = Digest[l] => k = l

OneTarget == \A p \in Procs : \A t, u \in TargetsOf[p] : t = u

OwnInv == TypeOK /\ DirInv /\ OrphanInv /\ LibraryFiledRight /\ OwnLibrary

\* With one target per process a memo entry names the digest of the call's texts.
LEMMA OwnStep ==
  ASSUME DigestInjective, OneTarget
  PROVE  OwnInv /\ [Next]_vars => OwnInv'
<1> SUFFICES ASSUME OwnInv, [Next]_vars PROVE OwnInv'
  OBVIOUS
<1>0. TypeOK'
  BY TypeStep DEF OwnInv
<1>a. ASSUME NEW p \in Procs, pc[p] \in Running, NEW t \in TargetsOf[p]
      PROVE  Digest[<<call[p][1], t>>] = dir[p]
  <2>1. call[p][2] \in TargetsOf[p] /\ dir[p] = Digest[call[p]]
    BY <1>a DEF OwnInv, DirInv
  <2>2. call[p][2] = t
    BY <2>1 DEF OneTarget
  <2>3. call[p] = <<call[p][1], call[p][2]>>
    BY DEF OwnInv, TypeOK, Keys
  <2>4. QED
    BY <2>1, <2>2, <2>3
<1> USE Marks DEF OwnInv, TypeOK, DirInv, OrphanInv, LibraryFiledRight, OwnLibrary, Building, Goto
<1> DEFINE Own == DirInv' /\ OrphanInv' /\ LibraryFiledRight' /\ OwnLibrary'
<1>1. ASSUME NEW p \in Procs, Call(p) PROVE Own
  <2>1. PICK g \in Progs, t \in TargetsOf[p] : Call(p)!(g, t)
    BY <1>1 DEF Call
  <2>2. CASE memo[p][g] # None
    BY <2>1, <2>2 DEF files, Running, Resolved
  <2>3. CASE memo[p][g] = None
    BY <2>1, <2>3 DEF files, Running, CacheDir
  <2>4. QED
    BY <2>2, <2>3
<1>2. ASSUME NEW p \in Procs, Stat(p) PROVE Own
  BY <1>2 DEF Stat, files, locals, Running, Resolved, Locked, Writing, Returned
<1>3. ASSUME NEW p \in Procs, ReadProg(p) PROVE Own
  BY <1>3 DEF ReadProg, files, Running, Resolved, Locked, Writing, Returned
<1>4. ASSUME NEW p \in Procs, ReadOpts(p) PROVE Own
  <2>1. pc[p] \in Running
    BY <1>4 DEF ReadOpts, Running, Writing
  <2>2. \A q \in Procs, g \in Progs :
           memo'[q][g] = memo[q][g] \/ (q = p /\ g = call[p][1] /\ memo'[q][g] = dir[p])
    BY <1>4 DEF ReadOpts, Remember, Prog
  <2>3. OrphanInv'
    BY <1>4 DEF ReadOpts
  <2>4. DirInv'
    <3>1. /\ call' = call /\ dir' = dir
          /\ \A q \in Procs : pc'[q] \in Running => pc[q] \in Running
      BY <1>4, <2>1 DEF ReadOpts, Running, Resolved
    <3>2. \A q \in Procs, g \in Progs : \A t \in TargetsOf[q] :
             memo'[q][g] # None => memo'[q][g] = Digest[<<g, t>>]
      <4>1. \A t \in TargetsOf[p] : Digest[<<call[p][1], t>>] = dir[p]
        BY <1>a, <2>1
      <4>2. \A q \in Procs, g \in Progs : \A t \in TargetsOf[q] :
               memo[q][g] # None => memo[q][g] = Digest[<<g, t>>]
        OBVIOUS
      <4>3. QED
        BY ONLY <2>2, <4>1, <4>2
    <3>3. QED
      BY <3>1, <3>2
  <2>5. LibraryFiledRight' /\ OwnLibrary'
    BY <1>4 DEF ReadOpts, files
  <2>6. QED
    BY <2>3, <2>4, <2>5
<1>5. ASSUME NEW p \in Procs, OpenProg(p) PROVE Own
  BY <1>5 DEF OpenProg, locals, Running, Resolved, Locked, Writing, Returned
<1>6. ASSUME NEW p \in Procs, WriteProg(p) PROVE Own
  BY <1>6 DEF WriteProg, locals, Running, Resolved, Locked, Writing, Returned
<1>7. ASSUME NEW p \in Procs, OpenOpts(p) PROVE Own
  BY <1>7 DEF OpenOpts, locals, Running, Resolved, Locked, Writing, Returned
<1>8. ASSUME NEW p \in Procs, WriteOpts(p) PROVE Own
  <2>1. pc[p] \in Running
    BY <1>8 DEF WriteOpts, Running, Writing
  <2>2. \A q \in Procs, g \in Progs :
           memo'[q][g] = memo[q][g] \/ (q = p /\ g = call[p][1] /\ memo'[q][g] = dir[p])
    BY <1>8 DEF WriteOpts, Remember, Prog
  <2>3. DirInv'
    <3>1. /\ call' = call /\ dir' = dir
          /\ \A q \in Procs : pc'[q] \in Running => pc[q] \in Running
      BY <1>8, <2>1 DEF WriteOpts
    <3>2. \A q \in Procs, g \in Progs : \A t \in TargetsOf[q] :
             memo'[q][g] # None => memo'[q][g] = Digest[<<g, t>>]
      <4>1. \A t \in TargetsOf[p] : Digest[<<call[p][1], t>>] = dir[p]
        BY <1>a, <2>1
      <4>2. \A q \in Procs, g \in Progs : \A t \in TargetsOf[q] :
               memo[q][g] # None => memo[q][g] = Digest[<<g, t>>]
        OBVIOUS
      <4>3. QED
        BY ONLY <2>2, <4>1, <4>2
    <3>3. QED
      BY <3>1, <3>2
  <2>4. LibraryFiledRight'
    BY <1>8 DEF WriteOpts
  <2>5. OwnLibrary'
    BY <1>8 DEF WriteOpts
  <2>6. OrphanInv'
    BY <1>8 DEF WriteOpts
  <2>7. QED
    BY <2>3, <2>4, <2>5, <2>6
<1>9. ASSUME NEW p \in Procs, Fast(p) PROVE Own
  BY <1>9 DEF Fast, files, locals, Running, Resolved, Locked, Writing, Returned
<1>10. ASSUME NEW p \in Procs, Acquire(p) PROVE Own
  BY <1>10 DEF Acquire, files, locals, Running, Resolved, Locked, Writing, Returned
<1>11. ASSUME NEW p \in Procs, Recheck(p) PROVE Own
  BY <1>11 DEF Recheck, files, locals, Release, Running, Resolved, Locked, Writing, Returned
<1>12. ASSUME NEW p \in Procs, StartLink(p) PROVE Own
  BY <1>12 DEF StartLink, locals, Running, Resolved, Locked, Writing, Returned
<1>13. ASSUME NEW p \in Procs, FinishLink(p) PROVE Own
  BY <1>13 DEF FinishLink, Linked, locals, Release, Running, Resolved, Locked, Writing, Returned
<1>14. ASSUME NEW p \in Procs, BuildFails(p) PROVE Own
  BY <1>14 DEF BuildFails, Failed, locals, Release, Running, Resolved, Locked, Writing, Returned
<1>15. ASSUME NEW p \in Procs, Load(p) PROVE Own
  <2>1. pc[p] \in Running
    BY <1>15 DEF Load, Running, Resolved
  <2>2. lib[dir[p]] \in Keys => lib[dir[p]] = call[p]
    <3>1. dir[p] = Digest[call[p]] /\ dir[p] \in Dirs /\ call[p] \in Keys
      BY <2>1
    <3>2. lib[dir[p]] \in Keys => Digest[lib[dir[p]]] = dir[p]
      BY <3>1
    <3> QED BY <3>1, <3>2 DEF DigestInjective
  <2>3. QED
    BY <1>15, <2>1, <2>2 DEF Load, files, Running
<1>16. ASSUME NEW p \in Procs, Crash(p) PROVE Own
  <2>1. OrphanInv'
    <3>1. pc[p] \in Building => dir[p] = Digest[call[p]]
      BY DEF Running, Resolved, Locked
    <3>2. ASSUME NEW o \in orphans'
          PROVE  o \in orphans \/ (pc[p] \in Building /\ o.dir = dir[p] /\ o.key = call[p])
      BY <1>16 DEF Crash
    <3> QED BY <3>1, <3>2
  <2> QED BY <1>16, <2>1 DEF Crash, files, locals, Running, Resolved, Locked, Writing, Returned
<1>17. ASSUME NEW p \in Procs, Restart(p) PROVE Own
  BY <1>17 DEF Restart, files, Running, Resolved, Locked, Writing, Returned
<1>18. CASE OrphanStep
  <2>1. PICK o \in orphans : OrphanStartsLink(o) \/ OrphanFinishes(o) \/ OrphanFails(o)
    BY <1>18 DEF OrphanStep
  <2>2. UNCHANGED <<pc, locals>>
    BY <1>18 DEF OrphanStep
  <2>3. o \in Orphan /\ o.dir = Digest[o.key]
    OBVIOUS
  <2>4. /\ [o EXCEPT !.at = "link"].dir = o.dir
        /\ [o EXCEPT !.at = "link"].key = o.key
    BY <2>3 DEF Orphan
  <2>5. \A q \in orphans' : q \in orphans \/ q = [o EXCEPT !.at = "link"]
    BY <2>1 DEF OrphanStartsLink, OrphanFinishes, OrphanFails
  <2>6. LibraryFiledRight'
    <3>1. \A d \in Dirs : lib'[d] \in {lib[d], NoFile, Torn} \/ (d = o.dir /\ lib'[d] = o.key)
      BY <2>1 DEF OrphanStartsLink, OrphanFinishes, OrphanFails, Linked, Failed
    <3> QED BY <2>3, <3>1
  <2>7. OrphanInv'
    BY <2>3, <2>4, <2>5
  <2>8. pc' = pc /\ call' = call /\ dir' = dir /\ memo' = memo /\ got' = got
    BY <2>2 DEF locals
  <2>9. DirInv'
    BY <2>8
  <2>10. OwnLibrary'
    BY <2>8
  <2> HIDE DEF DirInv, OrphanInv, LibraryFiledRight, OwnLibrary
  <2> QED BY <1>0, <2>6, <2>7, <2>9, <2>10
<1>19. CASE UNCHANGED vars
  BY <1>19 DEF vars, files, locals
<1>20. QED
  BY <1>0, <1>1, <1>2, <1>3, <1>4, <1>5, <1>6, <1>7, <1>8, <1>9,
     <1>10, <1>11, <1>12, <1>13, <1>14, <1>15, <1>16, <1>17, <1>18, <1>19
     DEF Next, Step, GetCacheDir, BuildProgram

\* A returning call has loaded the library of its own program and target.
THEOREM CallersGetTheirOwn ==
  ASSUME DigestInjective, OneTarget
  PROVE  Spec => [](OwnLibrary /\ LibraryFiledRight)
<1>1. Init => OwnInv
  <2> SUFFICES ASSUME Init PROVE OwnInv
    OBVIOUS
  <2>1. TypeOK
    BY Labels, DigestAssumption, BoundAssumption
       DEF Init, TypeOK, LibFile, ProgText, OptsText
  <2>2. DirInv /\ OrphanInv /\ LibraryFiledRight /\ OwnLibrary
    BY Marks DEF Init, DirInv, OrphanInv, LibraryFiledRight, OwnLibrary, Running, Writing, Resolved, Locked,
                 Building
  <2>3. QED
    BY <2>1, <2>2 DEF OwnInv
<1>2. OwnInv /\ [Next]_vars => OwnInv'
  BY OwnStep
<1>3. OwnInv => OwnLibrary /\ LibraryFiledRight
  BY DEF OwnInv
<1>4. QED
  BY <1>1, <1>2, <1>3, PTL DEF Spec
=============================================================================

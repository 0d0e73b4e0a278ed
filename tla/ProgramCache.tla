---------------------------- MODULE ProgramCache ----------------------------
(***************************************************************************)
(* The on-disk cache of compiled programs: drivers.get_cache_dir,          *)
(* drivers.build_program and drivers.build_and_load_program, run by        *)
(* several processes that share one file system.                           *)
(*                                                                         *)
(* A directory programs/<digest> holds program.txt, options.txt and        *)
(* module/lib.so.  The digest is taken over both texts.  The only option   *)
(* modelled is the compilation target, which get_cache_dir adds to the     *)
(* options text, so a key is a pair <<program, target>>.                   *)
(*                                                                         *)
(* Each step below is one file-system operation or one locked transition,  *)
(* the granularity at which other processes can interleave.  A test such   *)
(* as "a.exists() and b.exists()" is one step: these files are created and *)
(* never removed here, so the answer is the one an atomic test would have  *)
(* given at one of the two moments.                                        *)
(***************************************************************************)
EXTENDS Naturals, FiniteSets

CONSTANTS
    Procs,      \* operating-system processes
    Progs,      \* Program objects; each stands for its text str(prog)
    Targets,    \* compilation targets, e.g. sm_90a, sm_100a
    Dirs,       \* cache directories programs/<digest>
    Digest,     \* [Progs \X Targets -> Dirs]: the truncated SHA-256
    TargetsOf,  \* [Procs -> SUBSET Targets]: the targets a process builds for
    NoFile,     \* the file does not exist
    Empty,      \* the file is open for writing and holds nothing yet
    Torn,       \* the file holds something no single writer wrote
    None,       \* "no process" for a lock, "no directory" for a memo entry
    MaxCalls,   \* bound: calls of build_and_load_program by one process
    MaxCrashes  \* bound: crashes in one behaviour

Keys == Progs \X Targets

ASSUME DigestAssumption == Digest \in [Keys -> Dirs]
ASSUME TargetsOfAssumption == TargetsOf \in [Procs -> SUBSET Targets]
ASSUME MarkAssumption ==
    /\ {NoFile, Empty, Torn} \cap (Progs \union Targets \union Keys) = {}
    /\ NoFile # Empty /\ NoFile # Torn /\ Empty # Torn
    /\ None \notin Procs \union Dirs
ASSUME BoundAssumption == MaxCalls \in Nat /\ MaxCrashes \in Nat

VARIABLES
    progFile,   \* [Dirs -> content of program.txt]
    optsFile,   \* [Dirs -> content of options.txt]
    lib,        \* [Dirs -> content of module/lib.so]
    lock,       \* [Dirs -> the process holding .lock, or None]
    pc,         \* [Procs -> where the process is in its current call]
    call,       \* [Procs -> the key <<program, target>> of its latest call]
    dir,        \* [Procs -> the directory get_cache_dir works on]
    cached,     \* [Procs -> the text it read from program.txt]
    memo,       \* [Procs -> [Progs -> Dirs or None]]: the lru_cache
    got,        \* [Procs -> the library its latest call loaded]
    orphans,    \* compilers at work whose process was killed
    calls,      \* [Procs -> number of calls made]
    crashes     \* number of crashes so far

files == <<progFile, optsFile, lib>>
locals == <<call, dir, cached, memo, got, calls>>
vars == <<files, lock, pc, locals, orphans, crashes>>

\* A call of build_and_load_program ends by returning, by one of three errors, or with the process.
Returned == {"done", "mismatch", "failed", "badLib"}
Building == {"compile", "link"}
Locked   == {"recheck"} \union Building
Resolved == {"fast", "acquire", "load"} \union Locked
Writing  == {"openProg", "writeProg", "openOpts", "writeOpts"}
Running  == {"stat", "readProg", "readOpts"} \union Writing \union Resolved
PCs      == {"idle", "crashed"} \union Returned \union Running

ProgText == Progs \union {NoFile, Empty, Torn}
OptsText == Targets \union {NoFile, Empty, Torn}
LibFile  == Keys \union {NoFile, Torn}
Orphan   == [id : 1 .. MaxCrashes, key : Keys, dir : Dirs, at : Building]

TypeOK ==
    /\ progFile \in [Dirs -> ProgText]
    /\ optsFile \in [Dirs -> OptsText]
    /\ lib \in [Dirs -> LibFile]
    /\ lock \in [Dirs -> Procs \union {None}]
    /\ pc \in [Procs -> PCs]
    /\ call \in [Procs -> Keys]
    /\ dir \in [Procs -> Dirs]
    /\ cached \in [Procs -> ProgText]
    /\ memo \in [Procs -> [Progs -> Dirs \union {None}]]
    /\ got \in [Procs -> LibFile]
    /\ orphans \subseteq Orphan
    /\ calls \in [Procs -> 0 .. MaxCalls]
    /\ crashes \in 0 .. MaxCrashes

Init ==
    /\ progFile = [d \in Dirs |-> NoFile]
    /\ optsFile = [d \in Dirs |-> NoFile]
    /\ lib = [d \in Dirs |-> NoFile]
    /\ lock = [d \in Dirs |-> None]
    /\ pc = [p \in Procs |-> "idle"]
    /\ call \in [Procs -> Keys]
    /\ dir = [p \in Procs |-> Digest[call[p]]]
    /\ cached = [p \in Procs |-> NoFile]
    /\ memo = [p \in Procs |-> [g \in Progs |-> None]]
    /\ got = [p \in Procs |-> NoFile]
    /\ orphans = {}
    /\ calls = [p \in Procs |-> 0]
    /\ crashes = 0
-----------------------------------------------------------------------------
Prog(p) == call[p][1]

Goto(p, label) == pc' = [pc EXCEPT ![p] = label]

\* Mutant: the digest is taken over the program text only.
CacheDir_NoTarget(key) == Digest[<<key[1], CHOOSE t \in Targets : TRUE>>]

\* The directory named by the digest of the two texts.
CacheDir(key) == Digest[key]

(***************************************************************************)
(* get_cache_dir                                                           *)
(***************************************************************************)
\* The lru_cache is keyed by the program and the build options only; the
\* target is read from the ambient scope inside the function.
Call(p) == \E g \in Progs, t \in TargetsOf[p] :
    /\ pc[p] \in Returned \union {"idle"}
    /\ calls[p] < MaxCalls
    /\ calls' = [calls EXCEPT ![p] = @ + 1]
    /\ call' = [call EXCEPT ![p] = <<g, t>>]
    /\ got' = [got EXCEPT ![p] = NoFile]
    /\ IF memo[p][g] # None
         THEN /\ dir' = [dir EXCEPT ![p] = memo[p][g]]
              /\ Goto(p, "fast")
         ELSE /\ dir' = [dir EXCEPT ![p] = CacheDir(<<g, t>>)]
              /\ Goto(p, "stat")
    /\ UNCHANGED <<files, lock, cached, memo, orphans, crashes>>

\* Mutant: one of the two files is enough to take the directory as written.
Stat_EitherFile(p) ==
    /\ pc[p] = "stat"
    /\ IF progFile[dir[p]] # NoFile \/ optsFile[dir[p]] # NoFile
         THEN Goto(p, "readProg")
         ELSE Goto(p, "openProg")
    /\ UNCHANGED <<files, lock, locals, orphans, crashes>>

Stat(p) ==
    /\ pc[p] = "stat"
    /\ IF progFile[dir[p]] # NoFile /\ optsFile[dir[p]] # NoFile
         THEN Goto(p, "readProg")
         ELSE Goto(p, "openProg")
    /\ UNCHANGED <<files, lock, locals, orphans, crashes>>

ReadProg(p) ==
    /\ pc[p] = "readProg"
    /\ cached' = [cached EXCEPT ![p] = progFile[dir[p]]]
    /\ Goto(p, "readOpts")
    /\ UNCHANGED <<files, lock, call, dir, memo, got, calls, orphans, crashes>>

\* Mutant: the cached program text is compared with the options text.
SameTexts_Swapped(p) == /\ cached[p] = call[p][2]
                        /\ optsFile[dir[p]] = call[p][2]

SameTexts(p) == /\ cached[p] = call[p][1]
                /\ optsFile[dir[p]] = call[p][2]

Remember(p) == memo' = [memo EXCEPT ![p][Prog(p)] = dir[p]]

ReadOpts(p) ==
    /\ pc[p] = "readOpts"
    /\ IF SameTexts(p)
         THEN Remember(p) /\ Goto(p, "fast")
         ELSE Goto(p, "mismatch") /\ UNCHANGED memo  \* ValueError
    /\ UNCHANGED <<files, lock, call, dir, cached, got, calls, orphans, crashes>>

\* Flushing a buffer at offset 0 of a file another process has already
\* filled leaves the longer text's tail behind.
Overlay(old, new) == IF old \in {Empty, new} THEN {new} ELSE {new, Torn}

\* open(path, "w") truncates at once; the text arrives when the file is closed.
OpenProg(p) ==
    /\ pc[p] = "openProg"
    /\ progFile' = [progFile EXCEPT ![dir[p]] = Empty]
    /\ Goto(p, "writeProg")
    /\ UNCHANGED <<optsFile, lib, lock, locals, orphans, crashes>>

WriteProg(p) ==
    /\ pc[p] = "writeProg"
    /\ \E text \in Overlay(progFile[dir[p]], call[p][1]) :
          progFile' = [progFile EXCEPT ![dir[p]] = text]
    /\ Goto(p, "openOpts")
    /\ UNCHANGED <<optsFile, lib, lock, locals, orphans, crashes>>

OpenOpts(p) ==
    /\ pc[p] = "openOpts"
    /\ optsFile' = [optsFile EXCEPT ![dir[p]] = Empty]
    /\ Goto(p, "writeOpts")
    /\ UNCHANGED <<progFile, lib, lock, locals, orphans, crashes>>

WriteOpts(p) ==
    /\ pc[p] = "writeOpts"
    /\ \E text \in Overlay(optsFile[dir[p]], call[p][2]) :
          optsFile' = [optsFile EXCEPT ![dir[p]] = text]
    /\ Remember(p)
    /\ Goto(p, "fast")
    /\ UNCHANGED <<progFile, lib, lock, call, dir, cached, got, calls, orphans, crashes>>
-----------------------------------------------------------------------------
(***************************************************************************)
(* build_program and load_compiled_program                                 *)
(***************************************************************************)
ProgramExists(d) ==
    lib[d] # NoFile /\ progFile[d] # NoFile /\ optsFile[d] # NoFile

Fast(p) ==
    /\ pc[p] = "fast"
    /\ IF ProgramExists(dir[p]) THEN Goto(p, "load") ELSE Goto(p, "acquire")
    /\ UNCHANGED <<files, lock, locals, orphans, crashes>>

\* Mutant: the lock is not waited for.
Acquire_NoWait(p) ==
    /\ pc[p] = "acquire"
    /\ lock' = [lock EXCEPT ![dir[p]] = p]
    /\ Goto(p, "recheck")
    /\ UNCHANGED <<files, locals, orphans, crashes>>

Acquire(p) ==
    /\ pc[p] = "acquire"
    /\ lock[dir[p]] = None
    /\ lock' = [lock EXCEPT ![dir[p]] = p]
    /\ Goto(p, "recheck")
    /\ UNCHANGED <<files, locals, orphans, crashes>>

\* Leaving the "with" block, normally or by an exception.
Release(p) == lock' = [lock EXCEPT ![dir[p]] = None]

\* Mutant: the holder does not look again for a library.
Recheck_Skipped(p) ==
    /\ pc[p] = "recheck"
    /\ Goto(p, "compile")
    /\ UNCHANGED <<files, lock, locals, orphans, crashes>>

Recheck(p) ==
    /\ pc[p] = "recheck"
    /\ IF ProgramExists(dir[p])
         THEN Release(p) /\ Goto(p, "load")
         ELSE Goto(p, "compile") /\ UNCHANGED lock
    /\ UNCHANGED <<files, locals, orphans, crashes>>

\* The compilers at work in a directory, and those of them that have lib.so open.
Compilers(d) ==
    {p \in Procs : pc[p] \in Building /\ dir[p] = d} \union {o \in orphans : o.dir = d}
Linkers(d) ==
    {p \in Procs : pc[p] = "link" /\ dir[p] = d} \union {o \in orphans : o.at = "link" /\ o.dir = d}

\* What a linker leaves when it ends: its library, or a mixture if another has the file open.
Linked(linker, key, d) == IF Linkers(d) = {linker} THEN {key} ELSE {key, Torn}

\* The compiler reaches the linker, which creates its -o file in place.
StartLink(p) ==
    /\ pc[p] = "compile"
    /\ lib' = [lib EXCEPT ![dir[p]] = Torn]
    /\ Goto(p, "link")
    /\ UNCHANGED <<progFile, optsFile, lock, locals, orphans, crashes>>

\* compile_source takes the target of the current scope, not the directory's.
FinishLink(p) ==
    /\ pc[p] = "link"
    /\ \E content \in Linked(p, call[p], dir[p]) : lib' = [lib EXCEPT ![dir[p]] = content]
    /\ Release(p)
    /\ Goto(p, "load")
    /\ UNCHANGED <<progFile, optsFile, locals, orphans, crashes>>

\* A linker that fails removes its output; what fails before it never touched the file.
Failed(at, d) == lib' = IF at = "link" THEN [lib EXCEPT ![d] = NoFile] ELSE lib

\* Mutant: an exception leaves the lock held.
BuildFails_KeepsLock(p) ==
    /\ pc[p] \in Building
    /\ Failed(pc[p], dir[p])
    /\ Goto(p, "failed")
    /\ UNCHANGED <<progFile, optsFile, lock, locals, orphans, crashes>>

\* verify, a pass or nvcc raises.
BuildFails(p) ==
    /\ pc[p] \in Building
    /\ Failed(pc[p], dir[p])
    /\ Release(p)
    /\ Goto(p, "failed")
    /\ UNCHANGED <<progFile, optsFile, locals, orphans, crashes>>

\* Mutant: the text file is opened instead of the library.
Load_WrongFile(p) ==
    /\ pc[p] = "load"
    /\ got' = [got EXCEPT ![p] = progFile[dir[p]]]
    /\ Goto(p, IF lib[dir[p]] \in Keys THEN "done" ELSE "badLib")
    /\ UNCHANGED <<files, lock, call, dir, cached, memo, calls, orphans, crashes>>

Load(p) ==
    /\ pc[p] = "load"
    /\ got' = [got EXCEPT ![p] = lib[dir[p]]]
    /\ Goto(p, IF lib[dir[p]] \in Keys THEN "done" ELSE "badLib")
    /\ UNCHANGED <<files, lock, call, dir, cached, memo, calls, orphans, crashes>>
-----------------------------------------------------------------------------
\* The process is killed and the system drops its lock.  subprocess.run ties the
\* compiler to nothing: it may be killed, too, or go on alone.
Crash(p) ==
    /\ pc[p] \in Running
    /\ crashes < MaxCrashes
    /\ crashes' = crashes + 1
    /\ lock' = [d \in Dirs |-> IF lock[d] = p THEN None ELSE lock[d]]
    /\ \/ UNCHANGED orphans
       \/ /\ pc[p] \in Building
          /\ orphans' = orphans \union
                {[id |-> crashes + 1, key |-> call[p], dir |-> dir[p], at |-> pc[p]]}
    /\ Goto(p, "crashed")
    /\ UNCHANGED <<files, locals>>

\* A compiler without its process works on as it would have with it.
OrphanStartsLink(o) ==
    /\ o.at = "compile"
    /\ lib' = [lib EXCEPT ![o.dir] = Torn]
    /\ orphans' = (orphans \ {o}) \union {[o EXCEPT !.at = "link"]}

OrphanFinishes(o) ==
    /\ o.at = "link"
    /\ \E content \in Linked(o, o.key, o.dir) : lib' = [lib EXCEPT ![o.dir] = content]
    /\ orphans' = orphans \ {o}

OrphanFails(o) ==
    /\ Failed(o.at, o.dir)
    /\ orphans' = orphans \ {o}

OrphanStep == \E o \in orphans :
    /\ OrphanStartsLink(o) \/ OrphanFinishes(o) \/ OrphanFails(o)
    /\ UNCHANGED <<progFile, optsFile, lock, pc, locals, crashes>>

\* A new process starts with an empty lru_cache.
Restart(p) ==
    /\ pc[p] = "crashed"
    /\ memo' = [memo EXCEPT ![p] = [g \in Progs |-> None]]
    /\ Goto(p, "idle")
    /\ UNCHANGED <<files, lock, call, dir, cached, got, calls, orphans, crashes>>

GetCacheDir(p) ==
    \/ Stat(p) \/ ReadProg(p) \/ ReadOpts(p)
    \/ OpenProg(p) \/ WriteProg(p) \/ OpenOpts(p) \/ WriteOpts(p)

BuildProgram(p) ==
    \/ Fast(p) \/ Acquire(p) \/ Recheck(p)
    \/ StartLink(p) \/ FinishLink(p) \/ BuildFails(p)

Step(p) == GetCacheDir(p) \/ BuildProgram(p) \/ Load(p)

Next ==
    \/ \E p \in Procs : Call(p) \/ Step(p) \/ Crash(p) \/ Restart(p)
    \/ OrphanStep

Spec == Init /\ [][Next]_vars

\* A process that is running a call keeps running it.  Nothing more is
\* assumed of the polled file lock than that a free lock is taken at last.
Fairness == \A p \in Procs : WF_vars(Step(p))

FairSpec == Spec /\ Fairness
-----------------------------------------------------------------------------
\* At most one process is in the locked region of a directory, whatever crashes;
\* the compiler of a killed process is not in it (CompilersExclude).
BuildExclusion == \A p, q \in Procs :
    (pc[p] \in Locked /\ pc[q] \in Locked /\ dir[p] = dir[q]) => p = q

\* "lock the cache directory to prevent multiple processes from building the
\* program at the same time": one compiler at a time works in a directory.
CompilersExclude == \A d \in Dirs : Cardinality(Compilers(d)) <= 1

\* A complete library, with no compiler at work in its directory that could touch it.
Finished(d) == lib[d] \in Keys /\ Compilers(d) = {}

\* A finished library is never rebuilt, truncated or replaced: a process that
\* lost the race for the lock finds it.  Compilers of killed processes are in
\* the model: a library is finished only when the last of them has ended, and
\* until then they may take a complete one away (CompilersExclude).
LibraryStable ==
    [][\A d \in Dirs : Finished(d) => Finished(d)' /\ lib'[d] = lib[d]]_vars

\* A call that returns has loaded a library compiled from its own program
\* for its own target, whatever the other processes built meanwhile.
OwnLibrary == \A p \in Procs : pc[p] = "done" => got[p] = call[p]

\* The directory's library was compiled for the options it is filed under.
LibraryFiledRight == \A d \in Dirs : lib[d] \in Keys => Digest[lib[d]] = d

\* The inductive invariant behind the properties above.  A process in the
\* locked region holds the lock:
LockInv == \A p \in Procs : pc[p] \in Locked => lock[dir[p]] = p

\* get_cache_dir returns only directories that have both text files, which
\* is why the second check cannot miss a finished library:
FilesExist(d) == progFile[d] # NoFile /\ optsFile[d] # NoFile

FilesInv == \A p \in Procs :
    /\ pc[p] \in {"readProg", "readOpts"} \union Resolved => FilesExist(dir[p])
    /\ pc[p] \in {"writeProg", "openOpts", "writeOpts"} => progFile[dir[p]] # NoFile
    /\ pc[p] = "writeOpts" => optsFile[dir[p]] # NoFile
    /\ \A g \in Progs : memo[p][g] # None => FilesExist(memo[p][g])

\* While each process keeps to one target, the memo never goes stale:
DirInv == \A p \in Procs :
    /\ pc[p] \in Running => /\ call[p][2] \in TargetsOf[p]
                           /\ dir[p] = Digest[call[p]]
    /\ \A g \in Progs, t \in TargetsOf[p] :
          memo[p][g] # None => memo[p][g] = Digest[<<g, t>>]

\* An orphan builds what the directory it writes to is named for.
OrphanInv == \A o \in orphans : o.dir = Digest[o.key]

\* Everything in the directory is complete and nobody is about to rewrite it.
Settled(d) ==
    /\ \E k \in Keys : /\ Digest[k] = d
                       /\ progFile[d] = k[1] /\ optsFile[d] = k[2]
    /\ Finished(d)
    /\ \A q \in Procs : dir[q] = d => pc[q] \notin Writing

\* A warm cache stays warm: a call whose directory is settled hits it,
\* without an error and without building, unless its process is killed.
WarmHit == \A p \in Procs :
    (pc[p] = "stat" /\ Settled(dir[p])) ~> pc[p] \in {"done", "crashed"}

\* Every call ends: nobody waits for ever for the lock, even if a holder is killed.
CallsReturn == \A p \in Procs :
    (pc[p] \in Running) ~> (pc[p] \in Returned \union {"crashed"})

\* "make sure the program is the same as the cached one": the error means
\* that another program or other options have this digest.
MismatchIsReal == \A p \in Procs :
    pc[p] = "mismatch" => \E k \in Keys : k # call[p] /\ Digest[k] = dir[p]
=============================================================================

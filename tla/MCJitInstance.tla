---------------------------- MODULE MCJitInstance ----------------------------
(***************************************************************************)
(* Small instances of JitInstance for TLC.                                 *)
(***************************************************************************)
EXTENDS JitInstance, TLC

CONSTANTS p1, p2, p3, b200, b300

\* All processes run on the same machine.
OneEnv == [p \in Procs |-> {b200}]

\* They are interchangeable: no property of that run tells them apart, and none
\* of its properties is a liveness property.
Interchangeable == Permutations(Procs)

\* Two machines share the cache directory; p3 runs beside p1.
TwoMachines == [p \in Procs |-> IF p = p2 THEN {b300} ELSE {b200}]

\* p1's environment changes between calls.
Switching == [p \in Procs |-> IF p = p1 THEN {b200, b300} ELSE {b200}]
=============================================================================

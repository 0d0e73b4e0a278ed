--------------------------- MODULE MCProgramCache ---------------------------
(***************************************************************************)
(* Small instances of ProgramCache for TLC.                                *)
(***************************************************************************)
EXTENDS ProgramCache, TLC

CONSTANTS p1, p2, p3, prog1, sm90, sm100, dir1, dir2

\* Every key has a directory of its own.
KeyedDigest == (<<prog1, sm90>> :> dir1) @@ (<<prog1, sm100>> :> dir2)
\* Each process builds for one target; p3 shares p1's.
SplitTargets == [p \in Procs |-> IF p = p2 THEN {sm100} ELSE {sm90}]
SameTarget == [p \in Procs |-> {sm90}]

\* p1 changes its target between calls.
Retargeting == [p \in Procs |-> IF p = p1 THEN {sm90, sm100} ELSE {sm90}]
=============================================================================

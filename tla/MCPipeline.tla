----------------------------- MODULE MCPipeline -----------------------------
(***************************************************************************)
(* Small instances of Pipeline for TLC.                                    *)
(***************************************************************************)
EXTENDS Pipeline

CONSTANTS p1, p2, c1, c2
=============================================================================

--------------------------- MODULE MCThreadGroup ---------------------------
(***************************************************************************)
(* Small instances of ThreadGroup for TLC: blocks of 8 or 16 threads in   *)
(* warps of 2 or 4, so every test against the warp size has both answers.  *)
(***************************************************************************)
EXTENDS ThreadGroup
=============================================================================

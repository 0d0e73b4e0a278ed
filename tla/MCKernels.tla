----------------------------- MODULE MCKernels -----------------------------
(***************************************************************************)
(* What generated kernels do when they run, in one instance for TLC: the    *)
(* thread groups of a block, blocks that add to a tile in turn, the         *)
(* collective instructions of a thread group, and the pipeline of copies.   *)
(* The subject chosen at the start moves, the others keep an initial state. *)
(***************************************************************************)
EXTENDS MCThreadGroup, SplitK, MCCollectives, MCPipeline

VARIABLE subject

kernelVars == <<subject, groupVars, splitVars, collectiveVars, vars>>

-----------------------------------------------------------------------------
(* Launches: 1 to 3 tiles, the last one with fewer active splits where the  *)
(* mask is causal.                                                          *)

Matmul(tiles, splits) ==
  [kernel |-> "matmul", tiles |-> tiles, splits |-> splits, block_q |-> 0, split_kv |-> 0]
Attention(q_len, block_q, split_kv) ==
  [kernel |-> "attention", tiles |-> (q_len + block_q - 1) \div block_q,
   splits |-> (q_len + split_kv - 1) \div split_kv, block_q |-> block_q, split_kv |-> split_kv]
MCGrids == {Matmul(1, 3), Matmul(2, 2), Attention(5, 2, 2), Attention(5, 2, 4)}

-----------------------------------------------------------------------------
KernelInit ==
  /\ subject \in {"groups", "split", "collectives", "pipeline"}
  /\ GroupInit /\ SplitInit /\ CollectiveInit /\ Init
  /\ subject # "collectives" => \A g \in Groups : program[g] = <<ScanAll>>

GroupStep ==
  subject = "groups" /\ GroupNext /\ UNCHANGED <<subject, splitVars, collectiveVars, vars>>
SplitStep ==
  subject = "split" /\ SplitNext /\ UNCHANGED <<subject, groupVars, collectiveVars, vars>>
CollectiveStep ==
  subject = "collectives" /\ CollectiveNext /\ UNCHANGED <<subject, groupVars, splitVars, vars>>
PipelineStep ==
  subject = "pipeline" /\ Next /\ UNCHANGED <<subject, groupVars, splitVars, collectiveVars>>

KernelNext == GroupStep \/ SplitStep \/ CollectiveStep \/ PipelineStep

\* What FairSpec assumes of the pipeline's warps and copies, and SplitK of the device.
KernelSpec ==
  /\ KernelInit /\ [][KernelNext]_kernelVars
  /\ WF_splitVars(subject = "split" /\ Device)
  /\ \A p \in Producers : WF_vars(subject = "pipeline" /\ Producer(p))
  /\ \A c \in Consumers : WF_vars(subject = "pipeline" /\ Consumer(c))
  /\ WF_vars(subject = "pipeline" /\ CopyEngine)

\* Every launch of blocks that wait for each other ends (LaunchesEnd).
SplitEnds == subject = "split" => LaunchesEnd

\* Every consumer of the pipeline gets through all the tiles (AllConsumed).
PipelineEnds == subject = "pipeline" => AllConsumed
=============================================================================

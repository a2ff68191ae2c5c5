------------------------------ MODULE MCKernel ------------------------------
(* Instances of Kernel for TLC: four descriptors, two of them for Create. *)
EXTENDS Kernel

MCPriorities == {10}
MCTwoPriorities == {5, 10}
MCReplyTids == Tids
MCAllTids == -1 .. MAX_NUM_TASKS + 1
=============================================================================

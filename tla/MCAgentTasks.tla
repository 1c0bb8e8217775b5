---------------------------- MODULE MCAgentTasks ---------------------------
(* Small instances of AgentTasks. *)
EXTENDS AgentTasks, TLC

CONSTANTS t1, t2, t3, bg, ui, ui2

TaskSymmetry == Permutations(Tasks)
=============================================================================

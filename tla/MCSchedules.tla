---------------------------- MODULE MCSchedules ----------------------------
(* Constants of the TLC instances of ScheduleSync. *)
EXTENDS ScheduleSync

CONSTANTS w1, w2, d1, d2, s1, s2, r1, r2

\* The devices share a workspace, or each has its own.
OneWorkspace  == [d \in Devices |-> w1]
TwoWorkspaces == [d \in Devices |-> IF d = d1 THEN w1 ELSE w2]
=============================================================================

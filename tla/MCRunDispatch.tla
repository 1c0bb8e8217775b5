--------------------------- MODULE MCRunDispatch ---------------------------
(* Constants of the TLC instances of RunDispatch. *)
EXTENDS RunDispatch, TLC

CONSTANTS r1, r2, t1, t2, t3

AllProcess      == [r \in Runs |-> "process"]
OneElevated     == [r \in Runs |-> IF r = r1 THEN "process" ELSE "elevated"]
OneForeground   == [r \in Runs |-> IF r = r1 THEN "process" ELSE "foreground"]

TaskSymmetry == Permutations(Tasks)
Symmetry     == Permutations(Tasks) \cup Permutations(Runs)
=============================================================================

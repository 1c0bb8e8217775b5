-------------------------- MODULE MCSessionFamilies -------------------------
(* Constants of the TLC instances of SessionFamilies. *)
EXTENDS SessionFamilies, TLC

CONSTANTS p1, p2, p3, p4, d1, d2, q1, q2, q3

Symmetry == Permutations(Pairs) \cup Permutations(Desktops) \cup Permutations(Calls)
=============================================================================

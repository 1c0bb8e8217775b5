--------------------------- MODULE MCControlPlane --------------------------
EXTENDS ControlPlane, TLC

CONSTANTS u1, u2, w1, w2, d1, d2, a1, r1, s1, n1

MCUsers        == {u1, u2}
MCReviewers    == {u1, u2}
MCWorkspaces   == {w1, w2}
MCDevices      == {d1, d2}
MCApplications == {a1}
MCReleases     == {r1}
MCSchedules    == {s1}
MCRuns         == {n1}
Symmetry       == Permutations(MCUsers) \cup Permutations(MCWorkspaces) \cup Permutations(MCDevices)
=============================================================================

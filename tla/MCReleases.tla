----------------------------- MODULE MCReleases ----------------------------
(* Constants of the TLC instances of ReleasePipeline and ReleaseChannels. *)
EXTENDS ReleaseChannels

CONSTANTS r1, r2, a1, a2, s1, s2, c1, c2, p1, p2

\* A release declares all artifacts.
AllDeclared == [r \in Releases |-> Artifacts]
=============================================================================

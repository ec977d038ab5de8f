---------------------------- MODULE MCProjection ----------------------------
(* Bounds for checking Projection. *)
EXTENDS Projection, TLC

CONSTANTS p1, p2, s, k, home, v1, v2, v3, m1, m2

Symmetric == Permutations(Proc) \cup Permutations(Version) \cup Permutations(Mine)
             \cup Permutations(Record)
=============================================================================

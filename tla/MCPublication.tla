---------------------------- MODULE MCPublication ----------------------------
(* Bounds, symmetry and a view for checking Publication. *)
EXTENDS Publication, TLC

CONSTANTS a, b, c, e1, e2

AllSymmetry == Permutations(Proc) \cup Permutations(Edit)

\* Of a call that is over, what it was about decides nothing, and of its result
\* only whether it is to be tried again: Begin sets both.
Pending(p) == IF Over(p) THEN <<>> ELSE <<op[p], expected[p]>>
LiveState == <<lockVars, fileVars, alive, pc, disp, todo, tries,
               [p \in Proc |-> Pending(p)], [p \in Proc |-> res[p] = "retry"]>>
=============================================================================

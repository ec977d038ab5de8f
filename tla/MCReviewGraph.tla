---------------------------- MODULE MCReviewGraph ----------------------------
(* Every process works in the one clone. *)
EXTENDS ReviewGraph

CONSTANTS p1, p2, source, v1, e1, e2, here

OneClone == [p \in Proc |-> here]
=============================================================================

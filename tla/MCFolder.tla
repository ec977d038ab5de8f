------------------------------- MODULE MCFolder --------------------------------
(* Bounds and symmetry for checking Folder. *)
EXTENDS Folder, TLC

CONSTANTS p1, p2, first, second, d1, d2, f, t, i

\* The file is edited, deleted, and may come back as it was.
AnySave == {<<first, second>>, <<second, first>>, <<first, None>>, <<second, None>>,
            <<None, first>>, <<None, second>>}
Damages == {<<"extractions", t>>}

Symmetric == Permutations(Proc) \cup Permutations(Draft) \cup Permutations(Content)
=============================================================================

-------------------------- MODULE MCAssetLifecycle --------------------------
(* Bounds for checking AssetLifecycle. *)
EXTENDS AssetLifecycle, TLC

CONSTANTS p1, p2, a, b, d1, d2

\* The file is edited to b, deleted, and may come back as it was.
AnySave == {<<a, b>>, <<b, a>>, <<a, None>>, <<b, None>>, <<None, a>>, <<None, b>>}
\* It is edited and then deleted.
EditedThenGone == {<<a, b>>, <<b, None>>}
\* One edit.
Once == {<<a, b>>}

Symmetric == Permutations(Proc) \cup Permutations(Draft)
=============================================================================

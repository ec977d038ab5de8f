------------------------------- MODULE MCReviews -------------------------------
(* Bounds and symmetry for checking Reviews. *)
EXTENDS Reviews, TLC

CONSTANTS p1, p2, only, here, there, source, knowledge, source1, knowledge1, v1, v2, e1, e2, e3

InOneClone == [p \in Proc |-> only]
InTwoClones == (p1 :> here) @@ (p2 :> there)
AtItsDesk == p1 :> only

\* It does not matter which process is which, in one clone, nor which clone is
\* which, with its process.
Swap == (p1 :> p2) @@ (p2 :> p1) @@ (here :> there) @@ (there :> here)
Symmetric == Permutations(Rev) \cup Permutations(Id) \cup Permutations(Record) \cup {Swap}

\* How much has been written, or is being written, in all clones: many reviews of
\* one revision, or fewer of more.
All(f) == UNION {f[c] : c \in DOMAIN f}
Drafted(written, doing) ==
    All(written) \cup
        {<<doing[p].record, doing[p].rev>> : p \in {q \in DOMAIN doing : doing[q].kind = "draft"}}
Decided(published, mine) == All(published) \cup ({mine[p] : p \in DOMAIN mine} \ {None})
Answered(given, doing) ==
    All(given) \cup {doing[p].resolution : p \in {q \in DOMAIN doing : doing[q].kind = "resolve"}}
Work(written, published, given, doing, mine) ==
    2 * Cardinality(Drafted(written, doing)) + Cardinality(Decided(published, mine))
      + Cardinality(Answered(given, doing))
ShortHistory ==
    IF kind = "one clone" THEN Work(revs, reviews, resolved, task, new) <= 6
    ELSE Work(files, decided, answers, tasks, ids) <= IF kind = "two clones" THEN 5 ELSE 6
=============================================================================

------------------------------ MODULE MCRecovery ------------------------------
(***************************************************************************)
(* What is left behind is put right in the end: the generated views        *)
(* (Projection) and the locks of a dead process (LockFiles). The two share *)
(* nothing: a behaviour is one of a single model, `focus`, and the other   *)
(* stays as it begins.                                                     *)
(***************************************************************************)
EXTENDS Projection, TLC

CONSTANTS p1, s, home, v1, v2, m1, a, b, n1, n2

VARIABLES focus, pub, quar, blank, alive, step, tgt, clear, tok, captured, todo

\* Bounds: one process recovers, the other may be killed.
L == INSTANCE LockFiles WITH
         Proc <- {a, b}, Nonce <- {n1, n2}, MayClear <- {a}, MayCrash <- {b},
         Overlap <- FALSE, Inspects <- FALSE, Faults <- {}, pc <- step

locks == <<pub, quar, blank, alive, step, tgt, clear, tok, captured, todo>>
all == <<focus, vars, locks>>

\* Nothing is published yet while the locks are looked at.
InitBoth ==
    /\ focus \in {"views", "locks"}
    /\ Init /\ L!Init
    /\ want[home] = v1

\* Bound: what is generated moves on from v1 to v2 and no further.
Forward == \A v \in View : want'[v] # want[v] => <<want[v], want'[v]>> \in {<<None, v1>>, <<v1, v2>>}

Views(A) == focus = "views" /\ A /\ Forward /\ UNCHANGED <<focus, locks>>
Locks(A) == focus = "locks" /\ A /\ UNCHANGED <<focus, vars>>

\* The fairness of FairSpec in Projection and in LockFiles.
FairViews ==
    /\ WF_all(Views(Step(p1)))
    /\ SF_all(Views(Dashboard(p1)))
    /\ \A v \in View : WF_all(Views(Relocate(v)))
    /\ WF_all(Views(\E place \in locked : Unlock(place)))
FairLocks ==
    /\ \A p \in {a, b} : WF_all(Locks(L!Step(p))) /\ WF_all(Locks(L!Release(p)))
    /\ SF_all(Locks(L!Begin(a) /\ clear'[a]))

SideBySide == InitBoth /\ [][Views(Next) \/ Locks(L!Next)]_all /\ FairViews /\ FairLocks

\* Projection: every definition and every view of a record comes up to date once
\* nothing is published or edited and no command stops early, whatever edits,
\* other releases, killed commands and their locks left behind.
ViewsRestored == focus = "views" => ViewsCatchUp

\* LockFiles: "an abandoned lock must be recoverable": what a dead process left
\* is removed in the end, unless a record it could not write needs a look by hand.
LocksRecovered == L!AbandonedRecoverable
===============================================================================

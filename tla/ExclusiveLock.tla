--------------------------- MODULE ExclusiveLock ---------------------------
(***************************************************************************)
(* What the lock of mko-core/src/lock.rs promises its callers, whatever    *)
(* the files do: it is free, held by one process, or stranded by a process *)
(* that died or could not take its files back. Nobody acquires a stranded  *)
(* lock; an explicit recovery, where there is one, makes it free again.    *)
(***************************************************************************)
CONSTANTS Proc, Recoverable

VARIABLE holder

TypeOK == holder \in Proc \cup {"free", "stranded"}

Init == holder = "free"

Acquire(p) == holder = "free" /\ holder' = p

Release(p) == holder = p /\ holder' = "free"

Strand == holder' = "stranded"

Recover == Recoverable /\ holder = "stranded" /\ holder' = "free"

Next == (\E p \in Proc : Acquire(p) \/ Release(p)) \/ Strand \/ Recover

Spec == Init /\ [][Next]_holder
=============================================================================

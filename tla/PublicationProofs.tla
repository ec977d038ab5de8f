-------------------------- MODULE PublicationProofs --------------------------
(***************************************************************************)
(* For any number of processes, crashes and faults: the publication lock   *)
(* of atomic.rs admits one publisher at a time, and no content is lost: no *)
(* publisher's, whatever they run and whoever else writes the file, and no *)
(* other program's by a compare-exchange. To who looks at the file, the    *)
(* many steps of a publication are the few of AtomicFile.                  *)
(*                                                                         *)
(* The argument: the lock file is its owner's until the owner renames it   *)
(* (LockIsOwn). So between the last look at the destination and the end of *)
(* a commit only other programs touch it, and what a compare-exchange      *)
(* moved aside (Displaced) is all that is missing under the public name.   *)
(***************************************************************************)
EXTENDS Publication, TLAPS

\* A publisher that goes on holding the lock finds its own file there.
Holds(p) == p \in alive /\ pc[p] \in {"write", "recheck", "check", "rename", "move",
                                      "compare", "link", "drop", "restore", "rmRename"}
LockIsOwn == \A p \in Proc : Holds(p) => lock = p

\* The dead are at rest; a publisher has displaced an entry exactly between
\* moving it aside and dropping or restoring it.
Displaces(p) == pc[p] \in {"compare", "link", "drop", "restore"}
Displaced ==
    /\ \A p \in Proc : pc[p] # "idle" => p \in alive
    /\ \A p \in Proc : disp[p] # None <=> Displaces(p)

\* The displaced entry is the expected one when the new file is linked, and
\* from then on it is nobody's only copy.
Spent == \A p \in Proc :
    /\ pc[p] = "link" => disp[p] = expected[p]
    /\ pc[p] = "drop" /\ disp[p] \in owed => dest = disp[p]

\* Since the last look at the destination only other programs changed it.
Unchanged == \A p \in Proc : pc[p] = "rename" =>
    /\ op[p] # "cas"
    /\ op[p] = "new" => dest \in Edit \cup {None}
    /\ op[p] = "checked" => dest \in Edit \cup {None, expected[p]}

Inv == TypeOK /\ LockIsOwn /\ Displaced
-----------------------------------------------------------------------------
(* Types *)

LEMMA ContentType == Proc \subseteq Content /\ Edit \subseteq Content /\ None \notin Content
BY ConstantsAssumption DEF Content

LEMMA RetryType ==
    ASSUME TypeOK, NEW p \in Proc, NEW r \in Res, Retry(p, r)
    PROVE  /\ todo' \in [Proc -> SUBSET Proc]
           /\ tries' \in [Proc -> 0..MaxTries]
           /\ pc' \in [Proc -> Pc]
           /\ res' \in [Proc -> Res]
BY ConstantsAssumption DEF TypeOK, Retry, Goto, Pc

LEMMA ContendedType ==
    ASSUME TypeOK, NEW p \in Proc, NEW q \in Proc, Contended(p, q)
    PROVE  /\ todo' \in [Proc -> SUBSET Proc]
           /\ tries' \in [Proc -> 0..MaxTries]
           /\ pc' \in [Proc -> Pc]
           /\ res' \in [Proc -> Res]
           /\ saw' \in [Proc -> BOOLEAN]
<1>1. Retry(p, "locked") /\ "locked" \in Res
  BY DEF Contended, Res
<1>2. saw' \in [Proc -> BOOLEAN]
  BY DEF Contended, TypeOK
<1> QED
  BY <1>1, <1>2, RetryType

LEMMA CleanedType ==
    ASSUME TypeOK, NEW p \in Proc, Cleaned(p)
    PROVE  /\ todo' \in [Proc -> SUBSET Proc]
           /\ tries' \in [Proc -> 0..MaxTries]
           /\ pc' \in [Proc -> Pc]
           /\ res' \in [Proc -> Res]
           /\ saw' = saw
<1>1. CASE res[p] = "retry"
  <2>1. \E r \in Res : Retry(p, r)
    BY <1>1 DEF Cleaned, Res
  <2> QED
    BY <2>1, RetryType DEF Cleaned
<1>2. CASE res[p] # "retry"
  BY <1>2 DEF Cleaned, TypeOK, Goto, Pc
<1> QED
  BY <1>1, <1>2

LEMMA TypeStep == TypeOK /\ Displaced /\ [Next]_vars => TypeOK'
<1> SUFFICES ASSUME TypeOK, Displaced, [Next]_vars PROVE TypeOK'
  OBVIOUS
<1> USE ContentType DEF lockVars, fileVars, callVars, tryVars
<1>1. CASE UNCHANGED vars
  BY <1>1 DEF TypeOK, vars
<1>2. ASSUME NEW p \in Proc, Begin(p) PROVE TypeOK'
  <2>1. op' \in [Proc -> Commit] /\ expected' \in [Proc -> Content \cup {None}]
    BY <1>2, ConstantsAssumption DEF Begin, TypeOK
  <2> QED
    BY <1>2, <2>1, ConstantsAssumption DEF Begin, TypeOK, Goto, Pc, Res
<1>3. ASSUME NEW p \in Proc, Crash(p) PROVE TypeOK'
  <2>1. tries' \in [Proc -> 0..MaxTries]
    BY <1>3, ConstantsAssumption DEF Crash, TypeOK
  <2> QED
    BY <1>3, <2>1 DEF Crash, TypeOK, Goto, Pc, Res
<1>4. ASSUME NEW e \in Edit, Replace(e) PROVE TypeOK'
  BY <1>4 DEF Replace, TypeOK
<1>5. CASE Delete
  BY <1>5 DEF Delete, TypeOK
<1>6. CASE RemoveByHand
  BY <1>6 DEF RemoveByHand, TypeOK
<1>7. ASSUME NEW p \in Proc, Step(p) PROVE TypeOK'
  <2>1. CASE Scan(p)
    BY <2>1 DEF Scan, TypeOK, Goto, Pc, Entries
  <2>2. CASE ScanTimesOut(p)
    <3>1. \E r \in Res : Retry(p, r)
      BY <2>2 DEF ScanTimesOut, Res
    <3> QED
      BY <2>2, <3>1, RetryType DEF ScanTimesOut, TypeOK
  <2>3. CASE ResolveEntry(p)
    <3>1. PICK n \in todo[p] :
            \/ Contended(p, n) /\ UNCHANGED lockq
            \/ /\ lockq' = [lockq EXCEPT ![n] = None]
               /\ todo' = [todo EXCEPT ![p] = @ \ {n}]
               /\ UNCHANGED <<pc, tries, saw, res>>
      BY <2>3 DEF ResolveEntry
    <3>2. n \in Proc
      BY <3>1 DEF TypeOK
    <3>3. CASE Contended(p, n) /\ UNCHANGED lockq
      BY <2>3, <3>2, <3>3, ContendedType DEF ResolveEntry, TypeOK
    <3>4. CASE ~(Contended(p, n) /\ UNCHANGED lockq)
      BY <2>3, <3>1, <3>2, <3>4 DEF ResolveEntry, TypeOK
    <3> QED
      BY <3>3, <3>4
  <2>4. CASE Resolved(p)
    BY <2>4 DEF Resolved, TypeOK, Goto, Pc
  <2>5. CASE Create(p)
    <3>1. CASE lock = None
      BY <2>5, <3>1 DEF Create, TypeOK, Goto, Pc
    <3>2. CASE lock # None
      BY <2>5, <3>2, ContendedType DEF Create, TypeOK
    <3> QED
      BY <3>1, <3>2
  <2>6. CASE Write(p)
    BY <2>6 DEF Write, TypeOK, Goto, Pc, Res
  <2>7. CASE Recheck(p)
    <3>2. saw' \in [Proc -> BOOLEAN]
      BY <2>7 DEF Recheck, TypeOK
    <3>4. pc' \in [Proc -> Pc] /\ res' \in [Proc -> Res]
      BY <2>7 DEF Recheck, Finish, TypeOK, Goto, Pc, Res
    <3>3. UNCHANGED <<lockVars, fileVars, callVars, alive, disp, todo, tries>>
      BY <2>7 DEF Recheck
    <3> QED
      BY <3>2, <3>3, <3>4 DEF TypeOK
  <2>8. CASE Check(p)
    BY <2>8 DEF Check, Finish, TypeOK, Goto, Pc, Res
  <2>9. CASE Rename(p)
    BY <2>9 DEF Rename, Finish, TypeOK, Goto, Pc, Res
  <2>10. CASE Move(p)
    BY <2>10 DEF Move, Finish, TypeOK, Goto, Pc, Res
  <2>11. CASE Compare(p)
    BY <2>11 DEF Compare, TypeOK, Goto, Pc, Res
  <2>12. CASE Link(p)
    BY <2>12 DEF Link, Finish, At, Displaced, Displaces, TypeOK, Goto, Pc, Res
  <2>13. CASE Drop(p)
    BY <2>13 DEF Drop, Finish, At, Displaced, Displaces, TypeOK, Goto, Pc, Res
  <2>14. CASE Restore(p)
    BY <2>14 DEF Restore, At, Displaced, Displaces, TypeOK, Goto, Pc, Res
  <2>15. CASE RmRename(p)
    <3>1. CASE Cleaned(p)
      BY <2>15, <3>1, CleanedType DEF RmRename, TypeOK
    <3>2. CASE ~Cleaned(p)
      BY <2>15, <3>2 DEF RmRename, TypeOK, Goto, Pc
    <3> QED
      BY <3>1, <3>2
  <2>16. CASE RmVerify(p)
    <3>1. CASE Cleaned(p)
      BY <2>16, <3>1, CleanedType DEF RmVerify, TypeOK
    <3>2. CASE ~Cleaned(p)
      BY <2>16, <3>2 DEF RmVerify, TypeOK, Goto, Pc
    <3> QED
      BY <3>1, <3>2
  <2>17. CASE RmRestored(p)
    BY <2>17, CleanedType DEF RmRestored, TypeOK
  <2> QED
    BY <1>7, <2>1, <2>2, <2>3, <2>4, <2>5, <2>6, <2>7, <2>8, <2>9, <2>10, <2>11,
       <2>12, <2>13, <2>14, <2>15, <2>16, <2>17 DEF Step
<1> QED
  BY <1>1, <1>2, <1>3, <1>4, <1>5, <1>6, <1>7 DEF Next
-----------------------------------------------------------------------------
(* Locks *)

\* An attempt that ends leaves the section of the lock.
LEMMA Leaves ==
    ASSUME NEW p, \/ \E r : Retry(p, r)
                  \/ \E q : Contended(p, q)
                  \/ Cleaned(p)
    PROVE  \/ pc' = [pc EXCEPT ![p] = "scan"]
           \/ pc' = [pc EXCEPT ![p] = "idle"]
<1>1. \A r : Retry(p, r) => \/ pc' = [pc EXCEPT ![p] = "scan"]
                            \/ pc' = [pc EXCEPT ![p] = "idle"]
  BY DEF Retry, Goto
<1> QED
  BY <1>1 DEF Contended, Cleaned, Goto

LEMMA LockStep == TypeOK /\ LockIsOwn /\ Displaced /\ [Next]_vars => LockIsOwn' /\ Displaced'
<1> SUFFICES ASSUME TypeOK, LockIsOwn, Displaced, [Next]_vars PROVE LockIsOwn' /\ Displaced'
  OBVIOUS
<1> USE ContentType DEF lockVars, fileVars, callVars, tryVars
<1>1. CASE UNCHANGED vars
  BY <1>1 DEF LockIsOwn, Holds, Displaced, Displaces, vars
<1>2. ASSUME NEW p \in Proc, Begin(p) PROVE LockIsOwn' /\ Displaced'
  BY <1>2 DEF Begin, TypeOK, Goto, At, LockIsOwn, Holds, Displaced, Displaces
<1>3. ASSUME NEW p \in Proc, Crash(p) PROVE LockIsOwn' /\ Displaced'
  BY <1>3 DEF Crash, TypeOK, Goto, LockIsOwn, Holds, Displaced, Displaces
<1>4. ASSUME NEW e \in Edit, Replace(e) PROVE LockIsOwn' /\ Displaced'
  BY <1>4 DEF Replace, TypeOK, LockIsOwn, Holds, Displaced, Displaces
<1>5. CASE Delete
  BY <1>5 DEF Delete, TypeOK, LockIsOwn, Holds, Displaced, Displaces
<1>6. CASE RemoveByHand
  BY <1>6 DEF RemoveByHand, TypeOK, LockIsOwn, Holds, Displaced, Displaces
<1>7. ASSUME NEW p \in Proc, Step(p) PROVE LockIsOwn' /\ Displaced'
  <2> USE DEF At, Goto, TypeOK, LockIsOwn, Holds, Displaced, Displaces
  <2>1. CASE Scan(p)
    BY <2>1 DEF Scan
  <2>2. CASE ScanTimesOut(p)
    <3>1. pc' = [pc EXCEPT ![p] = "scan"] \/ pc' = [pc EXCEPT ![p] = "idle"]
      BY <2>2, Leaves DEF ScanTimesOut
    <3> QED
      BY <2>2, <3>1 DEF ScanTimesOut
  <2>3. CASE ResolveEntry(p)
    <3>1. pc' \in {pc, [pc EXCEPT ![p] = "scan"], [pc EXCEPT ![p] = "idle"]}
      BY <2>3, Leaves DEF ResolveEntry
    <3> QED
      BY <2>3, <3>1 DEF ResolveEntry
  <2>4. CASE Resolved(p)
    BY <2>4 DEF Resolved
  <2>5. CASE Create(p)
    <3>1. CASE lock = None
      BY <2>5, <3>1, ConstantsAssumption DEF Create
    <3>2. CASE lock # None
      <4>1. pc' = [pc EXCEPT ![p] = "scan"] \/ pc' = [pc EXCEPT ![p] = "idle"]
        BY <2>5, <3>2, Leaves DEF Create
      <4> QED
        BY <2>5, <3>2, <4>1 DEF Create
    <3> QED
      BY <3>1, <3>2
  <2>6. CASE Write(p)
    BY <2>6 DEF Write
  <2>7. CASE Recheck(p)
    BY <2>7 DEF Recheck
  <2>8. CASE Check(p)
    BY <2>8 DEF Check, Finish
  <2>9. CASE Rename(p)
    BY <2>9 DEF Rename, Finish
  <2>10. CASE Move(p)
    BY <2>10 DEF Move, Finish
  <2>11. CASE Compare(p)
    BY <2>11 DEF Compare
  <2>12. CASE Link(p)
    BY <2>12 DEF Link, Finish
  <2>13. CASE Drop(p)
    BY <2>13 DEF Drop, Finish
  <2>14. CASE Restore(p)
    BY <2>14 DEF Restore
  <2>15. CASE RmRename(p)
    <3>1. /\ lock = p /\ lock' = None
          /\ UNCHANGED <<alive, disp>>
          /\ pc' \in {[pc EXCEPT ![p] = "rmVerify"], [pc EXCEPT ![p] = "scan"],
                     [pc EXCEPT ![p] = "idle"]}
      BY <2>15, Leaves, ConstantsAssumption DEF RmRename
    <3> QED
      BY <3>1, <2>15 DEF RmRename
  <2>16. CASE RmVerify(p)
    <3>1. /\ lock' = lock \/ lock = None
          /\ UNCHANGED <<alive, disp>>
          /\ pc' \in {[pc EXCEPT ![p] = "rmRestored"], [pc EXCEPT ![p] = "scan"],
                     [pc EXCEPT ![p] = "idle"]}
      BY <2>16, Leaves DEF RmVerify
    <3> QED
      BY <3>1, <2>16, ConstantsAssumption DEF RmVerify
  <2>17. CASE RmRestored(p)
    <3>1. pc' = [pc EXCEPT ![p] = "scan"] \/ pc' = [pc EXCEPT ![p] = "idle"]
      BY <2>17, Leaves DEF RmRestored
    <3> QED
      BY <2>17, <3>1 DEF RmRestored
  <2> QED
    BY <1>7, <2>1, <2>2, <2>3, <2>4, <2>5, <2>6, <2>7, <2>8, <2>9, <2>10, <2>11,
       <2>12, <2>13, <2>14, <2>15, <2>16, <2>17 DEF Step
<1> QED
  BY <1>1, <1>2, <1>3, <1>4, <1>5, <1>6, <1>7 DEF Next

LEMMA InvInit == Init => Inv
<1> SUFFICES ASSUME Init PROVE Inv
  OBVIOUS
<1>1. dest \in Content \cup {None} /\ owed \subseteq Content /\ 0 \in 0..MaxTries
  BY ConstantsAssumption DEF Init, Content
<1>2. TypeOK
  BY <1>1 DEF Init, TypeOK, Pc, Res, Commit
<1>3. LockIsOwn /\ Displaced
  BY DEF Init, LockIsOwn, Holds, Displaced, Displaces
<1> QED
  BY <1>2, <1>3 DEF Inv

LEMMA InvStep == Inv /\ [Next]_vars => Inv'
BY TypeStep, LockStep DEF Inv

LEMMA Invariant == Spec => []Inv
BY InvInit, InvStep, PTL DEF Spec

\* Every step of a publication keeps the files and the calls well typed.
THEOREM PublicationTypes == Spec => []TypeOK
<1>1. Inv => TypeOK
  BY DEF Inv
<1> QED
  BY Invariant, <1>1, PTL

\* For any processes and faults there is one publisher at a time.
THEOREM PublisherExclusive == Spec => []OnePublisher
<1>1. Inv => OnePublisher
  BY DEF Inv, LockIsOwn, Holds, OnePublisher, Commits
<1> QED
  BY Invariant, <1>1, PTL
-----------------------------------------------------------------------------
(* Contents *)

\* A step outside the commits leaves the destination and what is owed alone.
Quiet(p) ==
    /\ UNCHANGED <<dest, kept, owed, op, expected, disp>>
    /\ ~Displaces(p) /\ pc[p] # "idle"
    /\ \A q \in Proc : pc'[q] = pc[q] \/ (q = p /\ pc'[p] \notin {"rename", "move", "compare", "link",
                                                       "drop", "restore"})
    /\ \A q \in Proc \ {p} : res'[q] = res[q]

LEMMA QuietSteps ==
    ASSUME TypeOK, NEW p \in Proc,
           \/ Scan(p) \/ ScanTimesOut(p) \/ ResolveEntry(p) \/ Resolved(p) \/ Create(p)
           \/ Write(p) \/ Recheck(p) \/ RmRename(p) \/ RmVerify(p) \/ RmRestored(p)
    PROVE  Quiet(p)
<1> USE DEF lockVars, fileVars, callVars, tryVars
<1>1. /\ UNCHANGED <<dest, kept, owed, op, expected, disp>>
      /\ pc[p] # "idle" /\ ~Displaces(p)
  BY DEF Scan, ScanTimesOut, ResolveEntry, Resolved, Create, Write, Recheck, RmRename,
         RmVerify, RmRestored, At, Displaces
<1> DEFINE Far == {"rename", "move", "compare", "link", "drop", "restore"}
<1>2. \E s \in (Pc \ Far) \cup {pc[p]} : pc' = [pc EXCEPT ![p] = s]
  <2>1. CASE ResolveEntry(p) /\ pc' = pc
    BY <2>1 DEF TypeOK
  <2>2. CASE ~(ResolveEntry(p) /\ pc' = pc)
    BY <2>2, Leaves DEF Scan, ScanTimesOut, ResolveEntry, Resolved, Create, Write,
       Recheck, RmRename, RmVerify, RmRestored, Goto, Pc
  <2> QED
    BY <2>1, <2>2
<1>3. PICK s \in (Pc \ Far) \cup {pc[p]} : pc' = [pc EXCEPT ![p] = s]
  BY <1>2
<1>4. \A q \in Proc : pc'[q] = pc[q] \/ (q = p /\ pc'[q] = s /\ s # pc[q])
  BY <1>3 DEF TypeOK
<1>5. \A q \in Proc \ {p} : res'[q] = res[q]
  <2>1. \A r : Retry(p, r) => \A q \in Proc \ {p} : res'[q] = res[q]
    BY DEF Retry, TypeOK
  <2> QED
    BY <2>1 DEF Scan, ScanTimesOut, ResolveEntry, Resolved, Create, Write, Recheck, RmRename,
       RmVerify, RmRestored, Cleaned, Contended, TypeOK
<1> QED
  BY <1>1, <1>3, <1>4, <1>5 DEF Quiet

FileInv == NothingLost /\ Spent /\ Unchanged

\* The publisher at work is the only one.
LEMMA Alone ==
    ASSUME Inv, NEW p \in Proc, At(p, "rename") \/ At(p, "move") \/ Displaces(p)
    PROVE  \A q \in Proc \ {p} : ~Displaces(q) /\ pc[q] # "rename" /\ disp[q] = None
BY ConstantsAssumption DEF Inv, LockIsOwn, Holds, Displaced, Displaces, At

LEMMA FileStep == Inv /\ FileInv /\ [Next]_vars => FileInv'
<1> SUFFICES ASSUME Inv, FileInv, [Next]_vars PROVE FileInv'
  OBVIOUS
<1> USE ContentType DEF lockVars, fileVars, callVars, tryVars
<1>1. CASE UNCHANGED vars
  BY <1>1 DEF FileInv, NothingLost, Spent, Unchanged, vars
<1>2. ASSUME NEW p \in Proc, Quiet(p) PROVE FileInv'
  BY <1>2 DEF Quiet, Displaces, FileInv, NothingLost, Spent, Unchanged
<1>3. ASSUME NEW p \in Proc, Begin(p) PROVE FileInv'
  BY <1>3 DEF Begin, Goto, At, Inv, TypeOK, FileInv, NothingLost, Spent, Unchanged
<1>4. ASSUME NEW p \in Proc, Crash(p) PROVE FileInv'
  <2>1. NothingLost'
    BY <1>4 DEF Crash, Inv, TypeOK, FileInv, NothingLost
  <2>2. Spent' /\ Unchanged'
    BY <1>4 DEF Crash, Goto, Inv, TypeOK, FileInv, Spent, Unchanged
  <2> QED
    BY <2>1, <2>2 DEF FileInv
<1>5. ASSUME NEW e \in Edit, Replace(e) PROVE FileInv'
  BY <1>5 DEF Replace, FileInv, NothingLost, Spent, Unchanged
<1>6. CASE Delete
  BY <1>6 DEF Delete, FileInv, NothingLost, Spent, Unchanged
<1>7. CASE RemoveByHand
  BY <1>7 DEF RemoveByHand, FileInv, NothingLost, Spent, Unchanged
<1>8. ASSUME NEW p \in Proc, Check(p) PROVE FileInv'
  <2>1. op[p] \in Commit
    BY DEF Inv, TypeOK
  <2> QED
    BY <1>8, <2>1 DEF Check, Finish, Goto, At, Commit, Inv, TypeOK, FileInv, NothingLost,
       Spent, Unchanged
<1>9. ASSUME NEW p \in Proc, Rename(p) PROVE FileInv'
  <2>1. \A q \in Proc \ {p} : ~Displaces(q) /\ pc[q] # "rename" /\ disp[q] = None
    BY <1>9, Alone DEF Rename
  <2>2. disp[p] = None
    BY <1>9 DEF Rename, At, Inv, Displaced, Displaces
  <2>3. NothingLost'
    BY <1>9, <2>1, <2>2 DEF Rename, At, Inv, TypeOK, Commit, FileInv, NothingLost, Unchanged
  <2>4. Spent' /\ Unchanged'
    BY <1>9, <2>1 DEF Rename, Finish, Goto, At, Displaces, Inv, TypeOK, FileInv, Spent,
       Unchanged
  <2> QED
    BY <2>3, <2>4 DEF FileInv
<1>10. ASSUME NEW p \in Proc, Move(p) \/ Compare(p) \/ Link(p) \/ Drop(p) \/ Restore(p)
       PROVE  FileInv'
  <2>1. \A q \in Proc \ {p} : ~Displaces(q) /\ pc[q] # "rename" /\ disp[q] = None
    BY <1>10, Alone DEF Move, Compare, Link, Drop, Restore, At, Displaces
  <2>2. Unchanged'
    BY <1>10, <2>1 DEF Move, Compare, Link, Drop, Restore, Finish, Goto, At, Inv, TypeOK,
       FileInv, Unchanged
  <2>3. NothingLost' /\ Spent'
    <3> USE <2>1 DEF Finish, Goto, At, Displaces, Inv, TypeOK, FileInv, NothingLost, Spent
    <3>1. CASE Move(p)
      BY <3>1 DEF Move, Displaced
    <3>2. CASE Compare(p)
      BY <3>2 DEF Compare
    <3>3. CASE Link(p)
      BY <3>3 DEF Link
    <3>4. CASE Drop(p)
      BY <3>4 DEF Drop
    <3>5. CASE Restore(p)
      BY <3>5 DEF Restore
    <3> QED
      BY <1>10, <3>1, <3>2, <3>3, <3>4, <3>5
  <2> QED
    BY <2>2, <2>3 DEF FileInv
<1> QED
  <2>1. ASSUME NEW p \in Proc, Step(p) PROVE FileInv'
    BY <2>1, <1>2, <1>8, <1>9, <1>10, QuietSteps DEF Step, Inv
  <2> QED
    BY <2>1, <1>1, <1>3, <1>4, <1>5, <1>6, <1>7 DEF Next

\* No content that somebody relies on is ever without a file, whatever the
\* publishers run and whoever else writes the destination.
THEOREM ContentsSurvive == Spec => []NothingLost
<1>1. Init => FileInv
  BY DEF Init, FileInv, NothingLost, Spent, Unchanged
<1>2. Inv /\ FileInv /\ [Next]_vars => FileInv'
  BY FileStep
<1>3. FileInv => NothingLost
  BY DEF FileInv
<1> QED
  BY Invariant, <1>1, <1>2, <1>3, PTL DEF Spec
-----------------------------------------------------------------------------
(* Refinement of AtomicFile *)

\* What a compare-exchange knows while the name is vacant: only another program
\* may have put something there, which it did not expect to find.
Away == \A p \in Proc :
    /\ pc[p] \in {"move", "compare", "link", "drop"} => op[p] = "cas"
    /\ pc[p] = "drop" => disp[p] = expected[p]
    /\ pc[p] = "restore" => res[p] \in {"changed", "failed"}
    /\ pc[p] \in {"compare", "link"} => dest = None \/ (dest \in Edit /\ dest # expected[p])

LEMMA AwayStep == Inv /\ FileInv /\ Away /\ [Next]_vars => Away'
<1> SUFFICES ASSUME Inv, FileInv, Away, [Next]_vars PROVE Away'
  OBVIOUS
<1> USE ContentType DEF lockVars, fileVars, callVars, tryVars
<1>1. CASE UNCHANGED vars
  BY <1>1 DEF Away, vars
<1>2. ASSUME NEW p \in Proc, Quiet(p) PROVE Away'
  BY <1>2 DEF Quiet, Displaces, Away
<1>3. ASSUME NEW p \in Proc, Begin(p) PROVE Away'
  BY <1>3 DEF Begin, Goto, At, Inv, TypeOK, Away
<1>4. ASSUME NEW p \in Proc, Crash(p) PROVE Away'
  BY <1>4 DEF Crash, Goto, Inv, TypeOK, Away
<1>5. ASSUME NEW e \in Edit, Replace(e) PROVE Away'
  BY <1>5 DEF Replace, Over, Away
<1>6. CASE Delete
  BY <1>6 DEF Delete, Away
<1>7. CASE RemoveByHand
  BY <1>7 DEF RemoveByHand, Away
<1>8. ASSUME NEW p \in Proc, Check(p) PROVE Away'
  BY <1>8 DEF Check, Finish, Goto, At, Inv, TypeOK, Away
<1>9. ASSUME NEW p \in Proc,
             Rename(p) \/ Move(p) \/ Compare(p) \/ Link(p) \/ Drop(p) \/ Restore(p)
      PROVE  Away'
  <2>1. \A q \in Proc \ {p} : ~Displaces(q)
    BY <1>9, Alone DEF Rename, Move, Compare, Link, Drop, Restore, At, Displaces
  <2> USE <2>1 DEF Finish, Goto, At, Displaces, Inv, TypeOK, FileInv, Spent, Away
  <2>2. CASE Rename(p)
    BY <2>2 DEF Rename
  <2>3. CASE Move(p)
    BY <2>3 DEF Move
  <2>4. CASE Compare(p)
    BY <2>4 DEF Compare
  <2>5. CASE Link(p)
    BY <2>5 DEF Link
  <2>6. CASE Drop(p)
    BY <2>6 DEF Drop
  <2>7. CASE Restore(p)
    BY <2>7 DEF Restore
  <2> QED
    BY <1>9, <2>2, <2>3, <2>4, <2>5, <2>6, <2>7
<1> QED
  <2>1. ASSUME NEW p \in Proc, Step(p) PROVE Away'
    BY <2>1, <1>2, <1>8, <1>9, QuietSteps DEF Step, Inv
  <2> QED
    BY <2>1, <1>1, <1>3, <1>4, <1>5, <1>6, <1>7 DEF Next

\* With at most one content out, the file is what the name holds, or that.
LEMMA HeldIs ==
    ASSUME NEW d, NEW out, NEW p \in Proc, \A q \in Proc \ {p} : out[q] = None
    PROVE  Held(d, out) = IF d # None THEN d ELSE out[p]
BY DEF Held

LEMMA OutIs ==
    /\ Out = [p \in Proc |-> Out[p]] /\ Told = [p \in Proc |-> Told[p]]
    /\ Out' = [p \in Proc |-> Out'[p]] /\ Told' = [p \in Proc |-> Told'[p]]
BY DEF Out, Told

\* Nothing is out while another publisher looks at the name.
LEMMA Nobody ==
    ASSUME Inv, NEW p \in Proc,
           At(p, "check") \/ At(p, "rename") \/ At(p, "move") \/ Displaces(p)
    PROVE  \A q \in Proc \ {p} : Out[q] = None
BY ConstantsAssumption DEF Inv, LockIsOwn, Holds, Displaced, Displaces, At, Out, Outside

LEMMA OthersTold ==
    ASSUME NEW p \in Proc, \A q \in Proc \ {p} : pc'[q] = pc[q] /\ res'[q] = res[q]
    PROVE  Told' = [Told EXCEPT ![p] = Tells(pc'[p], res'[p])]
<1>1. \A q \in Proc \ {p} : Tells(pc'[q], res'[q]) = Tells(pc[q], res[q])
  OBVIOUS
<1> HIDE DEF Tells
<1> QED
  BY <1>1 DEF Told

LEMMA OthersOut ==
    ASSUME NEW p \in Proc, \A q \in Proc \ {p} : pc'[q] = pc[q] /\ disp'[q] = disp[q]
    PROVE  Out' = [Out EXCEPT ![p] = IF pc'[p] \in Outside THEN disp'[p] ELSE None]
BY DEF Out

\* A step that changes neither the content nor what is out is the end of a call,
\* or nothing to its caller.
LEMMA QuietMaps ==
    ASSUME TypeOK, NEW p \in Proc,
           \/ Scan(p) \/ ScanTimesOut(p) \/ ResolveEntry(p) \/ Resolved(p) \/ Create(p)
           \/ Write(p) \/ Recheck(p) \/ RmRename(p) \/ RmVerify(p) \/ RmRestored(p)
    PROVE  File!Next \/ UNCHANGED File!vars
<1>1. Quiet(p)
  BY QuietSteps
<1>2. Out[p] = None /\ Out' = Out /\ UNCHANGED <<dest, kept, op, expected>>
  <2>1. pc[p] \notin Outside /\ pc'[p] \notin Outside /\ disp' = disp
    BY <1>1 DEF Quiet, Displaces, Outside
  <2>2. \A q \in Proc \ {p} : pc'[q] = pc[q]
    BY <1>1 DEF Quiet
  <2> QED
    BY <1>1, <2>1, <2>2 DEF Out, Quiet
<1>3. Held(dest, Out)' = Held(dest, Out)
  BY <1>2 DEF Held
<1>4. Told' = [Told EXCEPT ![p] = Tells(pc'[p], res'[p])]
  BY <1>1, OthersTold DEF Quiet
<1>5. Tells(pc'[p], res'[p]) \in {Tells(pc[p], res[p]), "none"}
  <2> USE DEF TypeOK, Tells, Ending, At, Goto
  <2>1. ASSUME NEW r, Retry(p, r)
        PROVE  pc'[p] \in {"scan", "idle"}
    BY <2>1 DEF Retry
  <2>2. CASE Scan(p) \/ Resolved(p) \/ Write(p)
    BY <2>2 DEF Scan, Resolved, Write
  <2>3. CASE ScanTimesOut(p)
    BY <2>1, <2>3 DEF ScanTimesOut
  <2>4. CASE ResolveEntry(p)
    BY <2>1, <2>4 DEF ResolveEntry, Contended
  <2>5. CASE Create(p)
    BY <2>1, <2>5 DEF Create, Contended
  <2>6. CASE Recheck(p)
    BY <2>6 DEF Recheck
  <2>7. CASE RmRename(p) \/ RmVerify(p) \/ RmRestored(p)
    <3>1. ASSUME Cleaned(p), pc[p] \in Ending
          PROVE  Tells(pc'[p], res'[p]) \in {Tells(pc[p], res[p]), "none"}
      BY <2>1, <3>1 DEF Cleaned
    <3>2. CASE Cleaned(p)
      BY <2>7, <3>1, <3>2 DEF RmRename, RmVerify, RmRestored
    <3>3. CASE ~Cleaned(p)
      BY <2>7, <3>3 DEF RmRename, RmVerify, RmRestored
    <3> QED
      BY <3>2, <3>3
  <2> QED
    BY <2>2, <2>3, <2>4, <2>5, <2>6, <2>7
<1>6. CASE Told' = Told
  BY <1>2, <1>3, <1>6 DEF File!vars
<1>7. CASE Told' # Told
  <2>1. Told[p] # "none" /\ Told' = [Told EXCEPT ![p] = "none"]
    <3>1. Told[p] = Tells(pc[p], res[p])
      BY DEF Told
    <3>2. Told = [Told EXCEPT ![p] = Told[p]]
      BY OutIs
    <3> QED
      BY <1>4, <1>5, <1>7, <3>1, <3>2
  <2>2. Told'[p] = "none"
    BY <2>1, OutIs
  <2>3. File!End(p)
    BY <1>2, <1>3, <2>1, <2>2 DEF File!End, File!Answer, File!KeepsOut
  <2> QED
    BY <2>3 DEF File!Next
<1> QED
  BY <1>6, <1>7

\* The calls of the other programs, and those that nobody can tell from outside.
LEMMA WorldMaps ==
    ASSUME TypeOK, \/ \E e \in Edit : Replace(e)
                   \/ Delete
                   \/ RemoveByHand
    PROVE  File!Next \/ UNCHANGED File!vars
<1> USE DEF lockVars, fileVars, callVars, tryVars
<1>1. Out' = Out /\ Told' = Told /\ UNCHANGED <<kept, op, expected>>
  BY DEF Replace, Delete, RemoveByHand, Out, Told
<1>2. ASSUME NEW e \in Edit, Replace(e) PROVE File!Put(e)
  <2>1. dest' = e /\ e # None
    BY <1>2, ConstantsAssumption DEF Replace
  <2>2. Held(dest', Out') = e
    BY <2>1 DEF Held
  <2> QED
    BY <1>1, <2>2 DEF File!Put
<1>3. CASE Delete
  <2>1. dest' = None
    BY <1>3 DEF Delete
  <2>2. CASE \A p \in Proc : Out[p] = None
    <3>1. Held(dest', Out') = None
      BY <1>1, <2>1, <2>2 DEF Held
    <3> QED
      BY <1>1, <2>2, <3>1 DEF File!Next, File!Remove
  <2>3. CASE \E p \in Proc : Out[p] # None
    <3>1. PICK p \in Proc : Out[p] # None /\ p = CHOOSE q \in Proc : Out[q] # None
      BY <2>3
    <3>2. Held(dest', Out') = Out[p]
      BY <1>1, <2>1, <3>1 DEF Held
    <3> QED
      BY <1>1, <3>1, <3>2 DEF File!Next, File!Remove
  <2> QED
    BY <2>2, <2>3
<1>4. CASE RemoveByHand
  <2>1. Held(dest, Out)' = Held(dest, Out)
    BY <1>1, <1>4 DEF RemoveByHand, Held
  <2> QED
    BY <1>1, <2>1 DEF File!vars
<1> QED
  BY <1>2, <1>3, <1>4 DEF File!Next

LEMMA BeginMaps ==
    ASSUME TypeOK, NEW p \in Proc, Begin(p)
    PROVE  File!Next
<1> USE DEF lockVars, fileVars, callVars, tryVars
<1>1. /\ UNCHANGED <<dest, kept, disp>>
      /\ pc' = [pc EXCEPT ![p] = "scan"] /\ res' = [res EXCEPT ![p] = "none"]
      /\ pc[p] = "idle"
  BY DEF Begin, Goto, At
<1>2. Out' = Out
  BY <1>1 DEF TypeOK, Out, Outside
<1>3. Held(dest, Out)' = Held(dest, Out)
  BY <1>1, <1>2 DEF Held
<1>4. Told[p] = "none" /\ Told'[p] = "asked" /\ Told' = [Told EXCEPT ![p] = "asked"]
  <2>1. Told' = [Told EXCEPT ![p] = Tells(pc'[p], res'[p])]
    BY <1>1, OthersTold DEF TypeOK
  <2>2. Tells(pc'[p], res'[p]) = "asked" /\ Tells(pc[p], res[p]) = "none"
    BY <1>1 DEF TypeOK, Tells, Ending
  <2> QED
    BY <2>1, <2>2, OutIs DEF Told
<1>5. PICK o \in Ops : (o # "new" => dest # None) /\ op' = [op EXCEPT ![p] = o]
  BY DEF Begin
<1>6. dest # None => Held(dest, Out) = dest
  BY DEF Held
<1>7. expected' = [expected EXCEPT ![p] =
                      IF o \in {"checked", "cas"} THEN Held(dest, Out) ELSE None]
  <2>1. op'[p] = o
    BY <1>5 DEF TypeOK
  <2> QED
    BY <1>5, <1>6, <2>1 DEF Begin
<1>8. File!Ask(p)
  BY <1>1, <1>2, <1>3, <1>4, <1>5, <1>6, <1>7 DEF File!Ask, File!Answer
<1> QED
  BY <1>8 DEF File!Next

\* A crash leaves aside what was taken out or, when it was replaced already, what
\* it replaced.
LEMMA CrashMaps ==
    ASSUME Inv, Away, NEW p \in Proc, Crash(p)
    PROVE  File!Next \/ UNCHANGED File!vars
<1> USE DEF lockVars, fileVars, callVars, tryVars
<1>1. /\ UNCHANGED <<dest, op, expected>>
      /\ pc' = [pc EXCEPT ![p] = "idle"] /\ res' = [res EXCEPT ![p] = "none"]
      /\ disp' = [disp EXCEPT ![p] = None]
      /\ kept' = IF disp[p] = None THEN kept ELSE kept \cup {disp[p]}
  BY DEF Crash, Goto
<1>2. Told' = [Told EXCEPT ![p] = "none"] /\ Told'[p] = "none"
  <2>1. Told' = [Told EXCEPT ![p] = Tells(pc'[p], res'[p])]
    BY <1>1, OthersTold DEF Inv, TypeOK
  <2>2. Tells(pc'[p], res'[p]) = "none"
    BY <1>1 DEF Inv, TypeOK, Tells
  <2> QED
    BY <2>1, <2>2, OutIs
<1>3. Out' = [Out EXCEPT ![p] = None]
  <2>1. Out' = [Out EXCEPT ![p] = IF pc'[p] \in Outside THEN disp'[p] ELSE None]
    BY <1>1, OthersOut DEF Inv, TypeOK
  <2>2. pc'[p] \notin Outside
    BY <1>1 DEF Inv, TypeOK, Outside
  <2> QED
    BY <2>1, <2>2
<1>4. Told[p] = Tells(pc[p], res[p]) /\ Out[p] = IF pc[p] \in Outside THEN disp[p] ELSE None
  BY DEF Told, Out
<1>5. CASE pc[p] \in Outside
  <2>1. disp[p] # None /\ Out[p] = disp[p]
    BY <1>4, <1>5 DEF Inv, Displaced, Displaces, Outside
  <2>2. \A q \in Proc \ {p} : Out[q] = None
    BY <1>5, Nobody DEF Displaces, Outside
  <2>3. Told[p] # "none"
    BY <1>4, <1>5 DEF Tells, Outside, Ending, Away
  <2>4. Held(dest, Out) = (IF dest # None THEN dest ELSE disp[p]) /\ Held(dest', Out') = dest
    <3>1. Out' = [q \in Proc |-> None]
      BY <1>3, <2>2, OutIs
    <3> QED
      BY <1>1, <2>1, <2>2, <3>1, HeldIs DEF Held
  <2>5. File!GivesBack(p)
    BY <1>1, <1>3, <2>1, <2>4 DEF File!GivesBack
  <2>6. File!End(p)
    BY <1>1, <1>2, <2>3, <2>5 DEF File!End, File!Answer
  <2> QED
    BY <2>6 DEF File!Next
<1>6. CASE pc[p] \notin Outside
  <2>1. Out' = Out /\ Out[p] = None
    BY <1>3, <1>4, <1>6, OutIs
  <2>2. Held(dest, Out)' = Held(dest, Out)
    BY <1>1, <2>1 DEF Held
  <2>3. CASE pc[p] = "drop"
    <3>1. Told[p] = "published" /\ kept' = kept \cup {expected[p]}
      BY <1>1, <1>4, <2>3 DEF Tells, Ending, Away, Inv, Displaced, Displaces
    <3> QED
      BY <1>1, <1>2, <2>1, <2>2, <3>1 DEF File!Next, File!End, File!Answer
  <2>4. CASE pc[p] # "drop"
    <3>1. kept' = kept
      BY <1>1, <1>6, <2>4 DEF Inv, Displaced, Displaces, Outside
    <3>2. CASE Told[p] = "none"
      <4>1. Told' = Told
        BY <1>2, <3>2, OutIs
      <4> QED
        BY <1>1, <2>1, <2>2, <3>1, <4>1 DEF File!vars
    <3>3. CASE Told[p] # "none"
      BY <1>1, <1>2, <2>1, <2>2, <3>1, <3>3 DEF File!Next, File!End, File!Answer, File!KeepsOut
    <3> QED
      BY <3>2, <3>3
  <2> QED
    BY <2>3, <2>4
<1> QED
  BY <1>5, <1>6

\* A publisher between its look at the name and the end of its commit: it is the
\* only one to take something out, and what it tells is read off its pc and res.
LEMMA CommitView ==
    ASSUME Inv, NEW p \in Proc,
           At(p, "check") \/ At(p, "rename") \/ At(p, "move") \/ Displaces(p),
           \A q \in Proc \ {p} : /\ pc'[q] = pc[q] /\ res'[q] = res[q]
                                 /\ disp'[q] = disp[q]
    PROVE  /\ Told[p] = Tells(pc[p], res[p])
           /\ Told' = [Told EXCEPT ![p] = Tells(pc'[p], res'[p])]
           /\ Told'[p] = Tells(pc'[p], res'[p])
           /\ \A q \in Proc \ {p} : Out[q] = None
           /\ Out[p] = IF pc[p] \in Outside THEN disp[p] ELSE None
           /\ Out' = [Out EXCEPT ![p] = IF pc'[p] \in Outside THEN disp'[p] ELSE None]
           /\ Held(dest, Out) = IF dest # None THEN dest
                                ELSE IF pc[p] \in Outside THEN disp[p] ELSE None
           /\ Held(dest', Out') = IF dest' # None THEN dest'
                                  ELSE IF pc'[p] \in Outside THEN disp'[p] ELSE None
<1>1. Told' = [Told EXCEPT ![p] = Tells(pc'[p], res'[p])]
  BY OthersTold
<1>2. Out' = [Out EXCEPT ![p] = IF pc'[p] \in Outside THEN disp'[p] ELSE None]
  BY OthersOut
<1>3. \A q \in Proc \ {p} : Out[q] = None
  BY Nobody
<1>4. Out[p] = IF pc[p] \in Outside THEN disp[p] ELSE None
  BY DEF Out
<1>5. /\ \A q \in Proc \ {p} : Out'[q] = None
      /\ Out'[p] = IF pc'[p] \in Outside THEN disp'[p] ELSE None
  BY <1>2, <1>3, OutIs
<1>6. Held(dest, Out) = IF dest # None THEN dest ELSE Out[p]
  BY <1>3, HeldIs
<1>7. Held(dest', Out') = IF dest' # None THEN dest' ELSE Out'[p]
  BY <1>5, HeldIs
<1>8. Told[p] = Tells(pc[p], res[p]) /\ Told'[p] = Tells(pc'[p], res'[p])
  BY <1>1, OutIs DEF Told
<1> QED
  BY <1>1, <1>2, <1>3, <1>4, <1>5, <1>6, <1>7, <1>8

LEMMA CheckMaps ==
    ASSUME Inv, NEW p \in Proc, Check(p)
    PROVE  File!Next \/ UNCHANGED File!vars
<1> USE DEF lockVars, fileVars, callVars, tryVars
<1>1. UNCHANGED <<dest, kept, op, expected, disp>> /\ pc[p] = "check" /\ At(p, "check")
  BY DEF Check, At
<1>2. /\ \A q \in Proc \ {p} : pc'[q] = pc[q] /\ res'[q] = res[q] /\ disp'[q] = disp[q]
      /\ pc'[p] \in {"move", "rename", "rmRename"}
  BY DEF Check, Finish, Goto, Inv, TypeOK
<1>3. /\ Told[p] = Tells(pc[p], res[p]) /\ Told'[p] = Tells(pc'[p], res'[p])
      /\ Told' = [Told EXCEPT ![p] = Tells(pc'[p], res'[p])]
      /\ Out' = [Out EXCEPT ![p] = IF pc'[p] \in Outside THEN disp'[p] ELSE None]
      /\ Out[p] = IF pc[p] \in Outside THEN disp[p] ELSE None
      /\ Held(dest, Out) = IF dest # None THEN dest
                           ELSE IF pc[p] \in Outside THEN disp[p] ELSE None
  BY <1>1, <1>2, CommitView
<1>4. Out' = Out /\ Out[p] = None /\ Held(dest, Out) = dest
  BY <1>1, <1>2, <1>3, OutIs DEF Outside
<1>5. Held(dest, Out)' = Held(dest, Out)
  BY <1>1, <1>4 DEF Held
<1>6. Told[p] = "asked"
  BY <1>1, <1>3 DEF Tells, Ending
<1>7. ASSUME NEW r \in {"existing", "missing", "changed", "failed"}, Finish(p, r)
      PROVE  Told'[p] = r /\ Told' = [Told EXCEPT ![p] = r]
  BY <1>3, <1>7 DEF Finish, Goto, Tells, Ending, Inv, TypeOK
<1>8. CASE \/ op[p] = "new" /\ dest # None /\ Finish(p, "existing")
           \/ op[p] # "new" /\ dest = None /\ Finish(p, "missing")
           \/ /\ op[p] \in {"checked", "cas"}
              /\ dest \notin {None, expected[p]}
              /\ Finish(p, "changed")
           \/ Finish(p, "failed")
  <2>1. File!Refuse(p)
    BY <1>1, <1>4, <1>5, <1>6, <1>7, <1>8 DEF File!Refuse, File!Answer, File!KeepsOut
  <2> QED
    BY <2>1 DEF File!Next
<1>9. CASE pc'[p] \in {"move", "rename"}
  <2>1. Told' = Told
    BY <1>3, <1>6, <1>9, OutIs DEF Tells, Ending
  <2> QED
    BY <1>1, <1>4, <1>5, <2>1 DEF File!vars
<1> QED
  BY <1>8, <1>9 DEF Check, Goto, Inv, TypeOK

\* A rename is the effect of a creation or a replacement.
LEMMA RenameMaps ==
    ASSUME Inv, FileInv, NEW p \in Proc, Rename(p)
    PROVE  File!Next
<1> USE DEF lockVars, fileVars, callVars, tryVars
<1>1. /\ dest' = p /\ UNCHANGED <<kept, op, expected, disp>>
      /\ pc[p] = "rename" /\ At(p, "rename")
      /\ Finish(p, "ok") \/ Finish(p, "failed")
  BY DEF Rename, At
<1>2. /\ \A q \in Proc \ {p} : pc'[q] = pc[q] /\ res'[q] = res[q] /\ disp'[q] = disp[q]
      /\ pc'[p] = "rmRename" /\ res'[p] \in {"ok", "failed"}
  BY <1>1 DEF Finish, Goto, Inv, TypeOK
<1>3. /\ Told[p] = Tells(pc[p], res[p]) /\ Told'[p] = Tells(pc'[p], res'[p])
      /\ Told' = [Told EXCEPT ![p] = Tells(pc'[p], res'[p])]
      /\ \A q \in Proc \ {p} : Out[q] = None
      /\ Out' = [Out EXCEPT ![p] = IF pc'[p] \in Outside THEN disp'[p] ELSE None]
      /\ Held(dest, Out) = IF dest # None THEN dest
                           ELSE IF pc[p] \in Outside THEN disp[p] ELSE None
      /\ Held(dest', Out') = IF dest' # None THEN dest'
                             ELSE IF pc'[p] \in Outside THEN disp'[p] ELSE None
  BY <1>1, <1>2, CommitView
<1>4. Out' = [Out EXCEPT ![p] = None]
  BY <1>2, <1>3 DEF Outside
<1>5. Held(dest, Out) = dest /\ Held(dest', Out') = p
  BY <1>1, <1>2, <1>3, ConstantsAssumption DEF Outside
<1>6. Told[p] = "asked" /\ Told'[p] = res'[p] /\ Told' = [Told EXCEPT ![p] = res'[p]]
  BY <1>1, <1>2, <1>3 DEF Tells, Ending
<1>7. File!Fits(p) /\ op[p] # "cas"
  <2>1. op[p] \in Commit
    BY DEF Inv, TypeOK
  <2>2. /\ op[p] # "cas"
        /\ op[p] = "new" => dest \in Edit \cup {None}
        /\ op[p] = "checked" => dest \in Edit \cup {None, expected[p]}
    BY <1>1 DEF FileInv, Unchanged
  <2>3. CASE op[p] = "new"
    BY <1>5, <2>2, <2>3 DEF File!Fits
  <2>4. CASE op[p] = "checked"
    BY <1>5, <2>2, <2>4 DEF File!Fits
  <2>5. CASE op[p] = "replace"
    BY <2>5 DEF File!Fits
  <2> QED
    BY <2>1, <2>2, <2>3, <2>4, <2>5 DEF Commit
<1>8. File!Publish(p)
  BY <1>1, <1>2, <1>3, <1>4, <1>5, <1>6, <1>7 DEF File!Publish, File!Answer
<1> QED
  BY <1>8 DEF File!Next

\* The steps of a compare-exchange.
LEMMA ExchangeMaps ==
    ASSUME Inv, FileInv, Away, NEW p \in Proc,
           Move(p) \/ Compare(p) \/ Link(p) \/ Drop(p) \/ Restore(p)
    PROVE  File!Next \/ UNCHANGED File!vars
<1> USE DEF lockVars, fileVars, callVars, tryVars
<1>1. /\ At(p, "move") \/ Displaces(p)
      /\ UNCHANGED <<op, expected>>
      /\ \A q \in Proc \ {p} : pc'[q] = pc[q] /\ res'[q] = res[q] /\ disp'[q] = disp[q]
  BY DEF Move, Compare, Link, Drop, Restore, Finish, Goto, At, Displaces, Inv, TypeOK
<1>2. /\ Told[p] = Tells(pc[p], res[p]) /\ Told'[p] = Tells(pc'[p], res'[p])
      /\ Told' = [Told EXCEPT ![p] = Tells(pc'[p], res'[p])]
      /\ \A q \in Proc \ {p} : Out[q] = None
      /\ Out[p] = IF pc[p] \in Outside THEN disp[p] ELSE None
      /\ Out' = [Out EXCEPT ![p] = IF pc'[p] \in Outside THEN disp'[p] ELSE None]
      /\ Held(dest, Out) = IF dest # None THEN dest
                           ELSE IF pc[p] \in Outside THEN disp[p] ELSE None
      /\ Held(dest', Out') = IF dest' # None THEN dest'
                             ELSE IF pc'[p] \in Outside THEN disp'[p] ELSE None
  BY <1>1, CommitView
<1>3. /\ Told = [Told EXCEPT ![p] = Told[p]] /\ Out = [Out EXCEPT ![p] = Out[p]]
      /\ \A x : Told' = [Told EXCEPT ![p] = x] => Told'[p] = x
      /\ pc[p] \in Outside => disp[p] # None
      /\ dest # p \/ dest # None
  BY OutIs, ConstantsAssumption DEF Inv, Displaced, Displaces, Outside
<1> DEFINE Tell(r) == Told'[p] = r /\ Told' = [Told EXCEPT ![p] = r]
<1>4. CASE Move(p)
  <2>1. /\ pc[p] = "move" /\ op[p] = "cas" /\ UNCHANGED kept
        /\ Told[p] = "asked" /\ Out[p] = None /\ Held(dest, Out) = dest
    BY <1>2, <1>4 DEF Move, At, Tells, Ending, Outside, Away
  <2>2. CASE dest = None
    <3>1. dest' = dest /\ pc'[p] = "rmRename" /\ res'[p] = "failed"
      BY <1>4, <2>2 DEF Move, Finish, Goto, Inv, TypeOK
    <3>2. Tell("failed") /\ Out' = Out /\ Held(dest', Out') = Held(dest, Out)
      BY <1>2, <1>3, <2>1, <2>2, <3>1 DEF Tells, Ending, Outside
    <3>3. File!Refuse(p)
      BY <1>1, <2>1, <3>2 DEF File!Refuse, File!Answer, File!KeepsOut
    <3> QED
      BY <3>3 DEF File!Next
  <2>3. CASE dest # None
    <3>1. /\ dest' = None /\ disp'[p] = dest
          /\ pc'[p] = "compare" \/ (pc'[p] = "restore" /\ res'[p] = "failed")
      BY <1>4, <2>3 DEF Move, Goto, Inv, TypeOK
    <3>2. /\ Out' = [Out EXCEPT ![p] = dest]
          /\ Held(dest', Out') = dest
          /\ Told' = Told \/ Tell("failed")
      BY <1>2, <1>3, <2>1, <3>1 DEF Tells, Ending, Outside
    <3>3. \A q \in Proc : Out[q] = None
      BY <1>2, <2>1
    <3>4. File!TakeOut(p)
      BY <1>1, <2>1, <2>3, <3>2, <3>3 DEF File!TakeOut, File!Answer
    <3> QED
      BY <3>4 DEF File!Next
  <2> QED
    BY <2>2, <2>3
<1>5. CASE Compare(p)
  <2>1. /\ pc[p] = "compare" /\ op[p] = "cas" /\ UNCHANGED <<dest, kept, disp>>
        /\ Told[p] = "asked" /\ Out[p] = disp[p]
        /\ dest # None => dest # expected[p]
    BY <1>2, <1>5 DEF Compare, At, Tells, Ending, Outside, Away
  <2>2. \/ pc'[p] = "link"
        \/ pc'[p] = "restore" /\ res'[p] = "changed"
    BY <1>5 DEF Compare, Goto, Inv, TypeOK
  <2>3. Out' = Out /\ Held(dest', Out') = Held(dest, Out)
    BY <1>2, <1>3, <2>1, <2>2 DEF Outside
  <2>4. CASE pc'[p] = "link"
    <3>1. Told' = Told
      BY <1>2, <1>3, <2>1, <2>4 DEF Tells, Ending
    <3> QED
      BY <1>1, <2>1, <2>3, <3>1 DEF File!vars
  <2>5. CASE pc'[p] # "link"
    <3>1. Tell("changed")
      BY <1>2, <2>2, <2>5 DEF Tells, Ending
    <3>2. Out[p] # None
      BY <1>3, <2>1 DEF Outside
    <3>3. File!Refuse(p)
      BY <1>1, <2>1, <2>3, <3>1, <3>2 DEF File!Refuse, File!Answer, File!KeepsOut
    <3> QED
      BY <3>3 DEF File!Next
  <2> QED
    BY <2>4, <2>5
<1>6. CASE Link(p)
  <2>1. /\ pc[p] = "link" /\ op[p] = "cas" /\ disp[p] = expected[p] /\ disp[p] # None
        /\ Told[p] = "asked" /\ Out[p] = disp[p]
        /\ dest # None => dest # expected[p]
    BY <1>2, <1>3, <1>6 DEF Link, At, Tells, Ending, Outside, Away, FileInv, Spent
  <2>2. \/ /\ dest = None /\ dest' = p /\ pc'[p] = "drop" /\ UNCHANGED kept
        \/ /\ dest # None /\ dest' = dest /\ pc'[p] = "rmRename" /\ res'[p] = "changed"
           /\ kept' = kept \cup {disp[p]}
        \/ /\ UNCHANGED <<dest, kept, disp>> /\ pc'[p] = "restore" /\ res'[p] = "failed"
    BY <1>6 DEF Link, Finish, Goto, Inv, TypeOK
  <2>3. CASE dest = None /\ dest' = p /\ pc'[p] = "drop" /\ UNCHANGED kept
    <3>1. /\ Held(dest, Out) = expected[p] /\ Out[p] = expected[p]
          /\ Held(dest', Out') = p
      BY <1>2, <2>1, <2>3, ConstantsAssumption DEF Outside
    <3>2. Out' = [Out EXCEPT ![p] = None] /\ Tell("published")
      BY <1>2, <2>3 DEF Outside, Tells, Ending
    <3>3. File!Publish(p)
      BY <1>1, <1>2, <2>1, <2>3, <3>1, <3>2 DEF File!Publish, File!Fits, File!Answer
    <3> QED
      BY <3>3 DEF File!Next
  <2>4. CASE /\ dest # None /\ dest' = dest /\ pc'[p] = "rmRename" /\ res'[p] = "changed"
             /\ kept' = kept \cup {disp[p]}
    <3>1. /\ Held(dest, Out) = dest /\ Held(dest', Out') = dest
          /\ Out' = [Out EXCEPT ![p] = None] /\ Tell("changed")
      BY <1>2, <2>4 DEF Outside, Tells, Ending
    <3>2. File!GivesBack(p)
      BY <2>1, <2>4, <3>1 DEF File!GivesBack
    <3>3. File!Refuse(p)
      BY <1>1, <2>1, <2>4, <3>1, <3>2 DEF File!Refuse, File!Answer
    <3> QED
      BY <3>3 DEF File!Next
  <2>5. CASE UNCHANGED <<dest, kept, disp>> /\ pc'[p] = "restore" /\ res'[p] = "failed"
    <3>1. Out' = Out /\ Held(dest', Out') = Held(dest, Out) /\ Tell("failed")
      BY <1>2, <1>3, <2>1, <2>5 DEF Outside, Tells, Ending
    <3>2. File!Refuse(p)
      BY <1>1, <2>1, <2>5, <3>1 DEF File!Refuse, File!Answer, File!KeepsOut
    <3> QED
      BY <3>2 DEF File!Next
  <2> QED
    BY <2>2, <2>3, <2>4, <2>5
<1>7. CASE Drop(p)
  <2>1. pc[p] = "drop" /\ disp[p] = expected[p] /\ Told[p] = "published" /\ Out[p] = None
    BY <1>2, <1>7 DEF Drop, At, Tells, Ending, Outside, Away
  <2>2. /\ dest' = dest /\ pc'[p] = "rmRename"
        /\ \/ res'[p] = "ok" /\ UNCHANGED kept
           \/ res'[p] = "failed" /\ kept' = kept \cup {disp[p]}
    BY <1>7 DEF Drop, Finish, Goto, Inv, TypeOK
  <2>3. Out' = Out /\ Held(dest', Out') = Held(dest, Out)
    BY <1>2, <1>3, <2>1, <2>2 DEF Outside
  <2>4. Tell(res'[p])
    BY <1>2, <2>2 DEF Tells, Ending
  <2>5. File!Settle(p)
    BY <1>1, <2>1, <2>2, <2>3, <2>4 DEF File!Settle, File!Answer
  <2> QED
    BY <2>5 DEF File!Next
<1>8. CASE Restore(p)
  <2>1. /\ pc[p] = "restore" /\ disp[p] # None /\ Out[p] = disp[p]
        /\ Told[p] = res[p] /\ res[p] \in {"changed", "failed"}
        /\ Held(dest, Out) = IF dest # None THEN dest ELSE disp[p]
    BY <1>2, <1>3, <1>8 DEF Restore, At, Tells, Ending, Outside, Away
  <2>2. /\ pc'[p] = "rmRename" /\ res'[p] \in {res[p], "failed"}
        /\ \/ dest = None /\ dest' = disp[p] /\ kept' = kept
           \/ dest' = dest /\ kept' = kept \cup {disp[p]}
           \/ dest = None /\ dest' = disp[p] /\ kept' = kept \cup {disp[p]}
    BY <1>8 DEF Restore, Goto, Inv, TypeOK
  <2>3. Held(dest', Out') = dest' /\ Out' = [Out EXCEPT ![p] = None] /\ Tell(res'[p])
    BY <1>2, <2>1, <2>2 DEF Outside, Tells, Ending
  <2>4. Told' = Told \/ Tell("failed")
    BY <1>3, <2>1, <2>2, <2>3
  <2>5. File!GivesBack(p)
    BY <2>1, <2>2, <2>3 DEF File!GivesBack
  <2>6. File!Return(p)
    BY <1>1, <2>1, <2>4, <2>5 DEF File!Return, File!Answer
  <2> QED
    BY <2>6 DEF File!Next
<1> QED
  BY <1>4, <1>5, <1>6, <1>7, <1>8

\* For any processes, crashes and faults, and whatever other programs write, a
\* publication is one step of a file that holds whole contents: with its locks,
\* its retries and its restorations atomic.rs implements AtomicFile.
THEOREM PublicationIsOneStep == Spec => ImplementsAtomicFile
<1> DEFINE RefInv == Inv /\ FileInv /\ Away
<1>1. Init => RefInv /\ File!Init
  <2> SUFFICES ASSUME Init PROVE RefInv /\ File!Init
    OBVIOUS
  <2>1. RefInv
    BY InvInit DEF Init, FileInv, NothingLost, Spent, Unchanged, Away
  <2>2. Out = [p \in Proc |-> None] /\ Told = [p \in Proc |-> "none"]
    BY DEF Init, Out, Outside, Told, Tells
  <2>3. Held(dest, Out) = dest
    BY <2>2 DEF Held
  <2> QED
    BY <2>1, <2>2, <2>3 DEF Init, File!Init
<1>2. RefInv /\ [Next]_vars => RefInv' /\ (File!Next \/ UNCHANGED File!vars)
  <2> SUFFICES ASSUME RefInv, [Next]_vars
               PROVE  RefInv' /\ (File!Next \/ UNCHANGED File!vars)
    OBVIOUS
  <2>1. RefInv'
    BY InvStep, FileStep, AwayStep
  <2>2. CASE UNCHANGED vars
    <3>1. /\ Out' = Out /\ Told' = Told
          /\ UNCHANGED <<dest, kept, op, expected>>
      BY <2>2 DEF vars, fileVars, callVars, Out, Told
    <3>2. Held(dest, Out)' = Held(dest, Out)
      BY <3>1 DEF Held
    <3> QED
      BY <2>1, <3>1, <3>2 DEF File!vars
  <2>3. ASSUME NEW p \in Proc, Step(p) PROVE File!Next \/ UNCHANGED File!vars
    BY <2>3, QuietMaps, CheckMaps, RenameMaps, ExchangeMaps DEF Step, Inv
  <2> QED
    BY <2>1, <2>2, <2>3, BeginMaps, CrashMaps, WorldMaps DEF Next, Inv
<1> QED
  BY <1>1, <1>2, PTL DEF Spec, ImplementsAtomicFile, File!Spec
=============================================================================

--------------------------- MODULE LockFilesProofs ---------------------------
(***************************************************************************)
(* For any processes, crashes, faults and tokens: as long as explicit      *)
(* recoveries do not overlap, the lock of lock.rs is exclusive, stays on   *)
(* disk while it is held, and no live process loses a file to another one. *)
(*                                                                         *)
(* The argument: the token of a live process names the file under the      *)
(* public name from its creation until the process itself renames it away  *)
(* (Published), and a recovery moves exactly the dead process's file it    *)
(* captured (Capture), because nobody else can replace that file.          *)
(***************************************************************************)
EXTENDS LockFiles, TLAPS

\* An owner token names the process that drew it.
OwnTokens == \A p \in Proc, F \in Target : tok[p][F] # None => Owner(tok[p][F]) = p

\* A call that wrote, checks or removes a file has that file's token.
Owned == \A p \in Proc :
    pc[p] \in {"write", "recheck", "rmRename", "rmVerify", "rmRestored"}
        => tok[p][tgt[p]] # None

\* p's file is in its own quarantine while p verifies it.
Moved(p, F) == tgt[p] = F /\ pc[p] \in {"rmVerify", "rmRestored"}

Published ==
    \A p \in alive, F \in Target :
        tok[p][F] # None /\ ~Moved(p, F) => pub[F] = tok[p][F]

Serial == \A p, q \in alive : clear[p] /\ clear[q] => p = q

Capture ==
    \A p \in alive : pc[p] = "staleRename" =>
        /\ clear[p]
        /\ captured[p] \in Token
        /\ Owner(captured[p]) \notin alive
        /\ pub[tgt[p]] = captured[p]

Inv == TypeOK /\ OwnTokens /\ Published /\ Serial /\ Capture

-----------------------------------------------------------------------------
(* Tokens *)

LEMMA TokenFacts ==
    /\ None \notin Token
    /\ \A p \in Proc, n \in Nonce : <<p, n>> \in Token /\ Owner(<<p, n>>) = p
    /\ \A t \in Token : Owner(t) \in Proc
BY ConstantsAssumption DEF Token, Owner

\* Renaming and linking keep the two kinds of names well typed.
LEMMA DiskType ==
    ASSUME TypeOK, NEW F \in Target, NEW n, NEW x \in Token \cup {None}
    PROVE  /\ [quar EXCEPT ![F][n] = x] \in [Target -> [Token -> Token \cup {None}]]
           /\ [pub EXCEPT ![F] = x] \in [Target -> Token \cup {None}]
<1>1. [quar[F] EXCEPT ![n] = x] \in [Token -> Token \cup {None}]
  BY DEF TypeOK
<1> QED
  BY <1>1 DEF TypeOK

\* An early return and the end of a removal keep the locals well typed.
LEMMA FailType ==
    ASSUME TypeOK, NEW p \in Proc, Fail(p)
    PROVE  /\ pc' \in [Proc -> Pc] /\ tgt' \in [Proc -> Target]
           /\ clear' \in [Proc -> BOOLEAN]
           /\ tok' \in [Proc -> [Target -> Token \cup {None}]]
           /\ captured' \in [Proc -> Token \cup {None}]
           /\ todo' \in [Proc -> SUBSET (Token \X Token)]
<1>1. /\ pc' \in [Proc -> Pc] /\ tgt' \in [Proc -> Target]
      /\ clear' \in [Proc -> BOOLEAN]
  BY ZenonT(60) DEF TypeOK, Fail, Goto, Pc, Target
<1>2. /\ captured' \in [Proc -> Token \cup {None}]
      /\ todo' \in [Proc -> SUBSET (Token \X Token)]
  BY DEF TypeOK, Fail
<1>3. tok' \in [Proc -> [Target -> Token \cup {None}]]
  BY DEF TypeOK, Fail, Target
<1> QED
  BY <1>1, <1>2, <1>3

LEMMA AbandonType ==
    ASSUME TypeOK, NEW p \in Proc
    PROVE  Abandon(p) \in [Proc -> [Target -> Token \cup {None}]]
<1> DEFINE t == IF tgt[p] = "takeover" THEN None ELSE tok[p]["main"]
<1>1. t \in Token \cup {None} /\ tok[p] \in [Target -> Token \cup {None}]
  BY DEF TypeOK, Target
<1>2. [tok[p] EXCEPT !["main"] = t] \in [Target -> Token \cup {None}]
  BY <1>1
<1>3. Abandon(p) = [tok EXCEPT ![p] = [tok[p] EXCEPT !["main"] = t]]
  BY DEF TypeOK, Abandon
<1> QED
  BY <1>2, <1>3 DEF TypeOK

LEMMA RemovedType ==
    ASSUME TypeOK, NEW p \in Proc, Removed(p)
    PROVE  /\ pc' \in [Proc -> Pc] /\ tgt' \in [Proc -> Target]
           /\ clear' \in [Proc -> BOOLEAN]
           /\ tok' \in [Proc -> [Target -> Token \cup {None}]]
           /\ captured' \in [Proc -> Token \cup {None}]
           /\ todo' \in [Proc -> SUBSET (Token \X Token)]
BY ZenonT(60) DEF TypeOK, Removed, Goto, Pc, Target

LEMMA TypeStep == TypeOK /\ Owned /\ [Next]_vars => TypeOK'
<1> SUFFICES ASSUME TypeOK, Owned, [Next]_vars PROVE TypeOK'
  OBVIOUS
<1>1. CASE UNCHANGED vars
  BY <1>1 DEF TypeOK, vars, disk, local
<1>2. ASSUME NEW p \in Proc, Begin(p) PROVE TypeOK'
  BY <1>2 DEF TypeOK, Begin, Goto, At, Pc, Target, disk
<1>3. ASSUME NEW p \in Proc, Release(p) PROVE TypeOK'
  BY <1>3 DEF TypeOK, Release, Goto, Pc, Target, disk
<1>4. ASSUME NEW p \in Proc, Crash(p) PROVE TypeOK'
  BY <1>4 DEF TypeOK, Crash, Goto, Pc, Target, disk
<1>5. ASSUME NEW p \in Proc, Step(p) PROVE TypeOK'
  <2>1. CASE ScanRefuses(p)
    BY <2>1, FailType DEF TypeOK, ScanRefuses, disk
  <2>2. CASE ScanPasses(p)
    <3>1. {<<n, quar[tgt[p]][n]>> : n \in Entries(tgt[p])} \subseteq Token \X Token
      BY DEF TypeOK, Entries
    <3>2. todo' \in [Proc -> SUBSET (Token \X Token)]
      BY <3>1, <2>2 DEF TypeOK, ScanPasses
    <3> QED
      BY <3>2, <2>2 DEF TypeOK, ScanPasses, Goto, Resolved, Pc, Target, disk
  <2>3. CASE Reap(p)
    <3>1. PICK e \in todo[p] :
            /\ quar' = [quar EXCEPT ![tgt[p]][e[1]] = None]
            /\ \/ /\ todo' = [todo EXCEPT ![p] = @ \ {e}]
                  /\ Goto(p, IF todo[p] = {e} THEN Resolved(tgt[p]) ELSE "reap")
                  /\ UNCHANGED <<tgt, clear, tok, captured>>
               \/ Fail(p)
      BY <2>3 DEF Reap
    <3>2. quar' \in [Target -> [Token -> Token \cup {None}]]
      BY <3>1 DEF TypeOK
    <3>3. CASE Fail(p)
      BY <3>2, <3>3, <2>3, FailType DEF TypeOK, Reap
    <3>4. CASE ~Fail(p)
      <4>1. /\ todo' \in [Proc -> SUBSET (Token \X Token)]
            /\ UNCHANGED <<tgt, clear, tok, captured>>
        BY <3>1, <3>4 DEF TypeOK
      <4>2. pc' \in [Proc -> Pc]
        BY <3>1, <3>4 DEF TypeOK, Goto, Resolved, Pc
      <4> QED
        BY <3>2, <4>1, <4>2, <2>3 DEF TypeOK, Reap
    <3> QED
      BY <3>3, <3>4
  <2>4. CASE NoTakeover(p)
    BY <2>4 DEF TypeOK, NoTakeover, Goto, Pc, Target, disk
  <2>5. CASE CaptureRefuses(p)
    BY <2>5, FailType DEF TypeOK, CaptureRefuses, disk
  <2>6. CASE CaptureStale(p)
    BY <2>6 DEF TypeOK, CaptureStale, Goto, Pc, Target, disk
  <2>7. CASE StaleRename(p)
    <3>1. CASE pub[tgt[p]] = None
      BY <2>7, <3>1, FailType DEF TypeOK, StaleRename
    <3>2. CASE pub[tgt[p]] # None
      <4>1. /\ quar' \in [Target -> [Token -> Token \cup {None}]]
            /\ pub' \in [Target -> Token \cup {None}]
        <5>1. tgt[p] \in Target /\ pub[tgt[p]] \in Token \cup {None}
          BY DEF TypeOK
        <5>2. [quar EXCEPT ![tgt[p]][captured[p]] = pub[tgt[p]]]
                \in [Target -> [Token -> Token \cup {None}]]
          BY <5>1, DiskType
        <5>3. pub' \in [Target -> Token \cup {None}]
          BY <2>7, <3>2 DEF TypeOK, StaleRename
        <5> QED
          BY <2>7, <3>2, <5>2, <5>3 DEF StaleRename
      <4> QED
        BY <2>7, <3>2, <4>1 DEF TypeOK, StaleRename, Goto, Pc
    <3> QED
      BY <3>1, <3>2
  <2>8. CASE StaleVerify(p)
    <3>1. CASE Fail(p)
      BY <2>8, <3>1, FailType DEF TypeOK, StaleVerify, disk
    <3>2. CASE ~Fail(p)
      BY <2>8, <3>2 DEF TypeOK, StaleVerify, Goto, Pc, disk
    <3> QED
      BY <3>1, <3>2
  <2>9. CASE StaleUnlink(p)
    <3>1. quar' \in [Target -> [Token -> Token \cup {None}]]
      BY <2>9 DEF TypeOK, StaleUnlink
    <3>2. CASE Fail(p)
      BY <2>9, <3>1, <3>2, FailType DEF TypeOK, StaleUnlink
    <3>3. CASE ~Fail(p)
      BY <2>9, <3>1, <3>3, ZenonT(60) DEF TypeOK, StaleUnlink, Goto, Pc
    <3> QED
      BY <3>2, <3>3
  <2>10. CASE Ensure(p)
    <3>1. CASE Fail(p)
      BY <2>10, <3>1, FailType DEF TypeOK, Ensure, disk
    <3>2. CASE ~Fail(p)
      BY <2>10, <3>2 DEF TypeOK, Ensure, Goto, Pc, disk
    <3> QED
      BY <3>1, <3>2
  <2>11. CASE Create(p)
    BY <2>11, TokenFacts DEF TypeOK, Create, Goto, Pc, Target
  <2>12. CASE CreateOccupied(p)
    <3>1. CASE Fail(p)
      BY <2>12, <3>1, FailType DEF TypeOK, CreateOccupied, disk
    <3>2. CASE ~Fail(p)
      BY <2>12, <3>2 DEF TypeOK, CreateOccupied, Goto, Pc, disk
    <3> QED
      BY <3>1, <3>2
  <2>13. CASE Write(p)
    <3>1. CASE Fail(p)
      BY <2>13, <3>1, FailType DEF TypeOK, Write
    <3>2. CASE ~Fail(p)
      <4>1. CASE blank' = blank \ {tok[p][tgt[p]]} /\ Goto(p, "recheck")
                 /\ UNCHANGED <<tgt, clear, tok, captured, todo>>
        BY <2>13, <4>1 DEF TypeOK, Write, Goto, Pc
      <4>2. CASE Goto(p, "rmRename") /\ tok' = Abandon(p)
                 /\ UNCHANGED <<blank, tgt, clear, captured, todo>>
        <5>1. tok' \in [Proc -> [Target -> Token \cup {None}]]
          BY <4>2, AbandonType
        <5>2. pc' \in [Proc -> Pc]
          BY <4>2 DEF TypeOK, Goto, Pc
        <5> QED
          BY <2>13, <4>2, <5>1, <5>2 DEF TypeOK, Write
      <4> QED
        BY <2>13, <3>2, <4>1, <4>2 DEF Write
    <3> QED
      BY <3>1, <3>2
  <2>14. CASE Recheck(p)
    <3>1. /\ UNCHANGED <<disk, alive, clear, captured, todo>>
          /\ pc' \in [Proc -> Pc]
      BY <2>14 DEF TypeOK, Recheck, Goto, Pc
    <3>2. tgt' \in [Proc -> Target]
      BY <2>14 DEF TypeOK, Recheck, Target
    <3>3. tok' \in [Proc -> [Target -> Token \cup {None}]]
      BY <2>14, AbandonType DEF TypeOK, Recheck
    <3> QED
      BY <3>1, <3>2, <3>3 DEF TypeOK, disk
  <2>15. CASE RmRename(p)
    <3>1. pub' \in [Target -> Token \cup {None}]
          /\ quar' \in [Target -> [Token -> Token \cup {None}]]
      <4>1. CASE pub[tgt[p]] = None
        BY <2>15, <4>1 DEF TypeOK, RmRename
      <4>2. CASE pub[tgt[p]] # None
        <5>1. tgt[p] \in Target /\ pub[tgt[p]] \in Token \cup {None}
          BY DEF TypeOK
        <5>2. [quar EXCEPT ![tgt[p]][tok[p][tgt[p]]] = pub[tgt[p]]]
                \in [Target -> [Token -> Token \cup {None}]]
          BY <5>1, DiskType
        <5>3. pub' \in [Target -> Token \cup {None}]
          BY <2>15, <4>2 DEF TypeOK, RmRename
        <5> QED
          BY <2>15, <4>2, <5>2, <5>3 DEF RmRename
      <4> QED
        BY <4>1, <4>2
    <3>2. CASE Removed(p)
      BY <2>15, <3>1, <3>2, RemovedType DEF TypeOK, RmRename
    <3>3. CASE ~Removed(p)
      BY <2>15, <3>1, <3>3 DEF TypeOK, RmRename, Goto, Pc
    <3> QED
      BY <3>2, <3>3
  <2>16. CASE RmVerify(p)
    <3>1. /\ pub' \in [Target -> Token \cup {None}]
          /\ quar' \in [Target -> [Token -> Token \cup {None}]]
          /\ blank' \subseteq Token
          /\ alive' = alive
      <4> DEFINE own == tok[p][tgt[p]]
                 moved == quar[tgt[p]][own]
      <4>1. tgt[p] \in Target /\ own \in Token \cup {None}
        BY DEF TypeOK
      <4>2. own # None
        BY <2>16 DEF Owned, RmVerify, At
      <4>3. moved \in Token \cup {None}
        BY <4>1, <4>2 DEF TypeOK
      <4>4. pub' \in [Target -> Token \cup {None}]
        BY <2>16, <4>1, <4>3 DEF TypeOK, RmVerify
      <4>5. [quar EXCEPT ![tgt[p]][own] = None] \in [Target -> [Token -> Token \cup {None}]]
        BY <4>1, DiskType
      <4> QED
        BY <2>16, <4>4, <4>5 DEF TypeOK, RmVerify
    <3>2. CASE Removed(p)
      BY <3>1, <3>2, RemovedType DEF TypeOK
    <3>3. CASE ~Removed(p)
      BY <2>16, <3>1, <3>3 DEF TypeOK, RmVerify, Goto, Pc
    <3> QED
      BY <3>2, <3>3
  <2>17. CASE RmRestored(p)
    BY <2>17, RemovedType DEF TypeOK, RmRestored
  <2> QED
    BY <1>5, <2>1, <2>2, <2>3, <2>4, <2>5, <2>6, <2>7, <2>8, <2>9, <2>10,
       <2>11, <2>12, <2>13, <2>14, <2>15, <2>16, <2>17 DEF Step
<1> QED
  BY <1>1, <1>2, <1>3, <1>4, <1>5 DEF Next

LEMMA OwnedStep == TypeOK /\ Owned /\ [Next]_vars => Owned'
<1> SUFFICES ASSUME TypeOK, Owned, [Next]_vars PROVE Owned'
  OBVIOUS
<1>1. CASE UNCHANGED vars
  BY <1>1 DEF Owned, vars, local
<1>2. ASSUME NEW p \in Proc, Begin(p) PROVE Owned'
  BY <1>2 DEF TypeOK, Owned, Begin, Goto
<1>3. ASSUME NEW p \in Proc, Release(p) PROVE Owned'
  BY <1>3 DEF TypeOK, Owned, Release, Goto
<1>4. ASSUME NEW p \in Proc, Crash(p) PROVE Owned'
  BY <1>4 DEF TypeOK, Owned, Crash, Goto
<1>5. ASSUME NEW p \in Proc, Step(p) PROVE Owned'
  <2>1. CASE Fail(p)
    BY <2>1 DEF TypeOK, Owned, Fail, Goto, Target
  <2>2. CASE Removed(p)
    BY <2>2 DEF TypeOK, Owned, Removed, Goto, Target
  <2> SUFFICES ASSUME ~Fail(p), ~Removed(p) PROVE Owned'
    BY <2>1, <2>2
  <2>3. CASE ScanPasses(p)
    BY <2>3 DEF TypeOK, Owned, ScanPasses, At, Goto, Resolved
  <2>4. CASE Reap(p)
    BY <2>4 DEF TypeOK, Owned, Reap, At, Goto, Resolved
  <2>5. CASE NoTakeover(p)
    BY <2>5 DEF TypeOK, Owned, NoTakeover, At, Goto
  <2>6. CASE CaptureStale(p)
    BY <2>6 DEF TypeOK, Owned, CaptureStale, At, Goto
  <2>7. CASE StaleRename(p)
    BY <2>7 DEF TypeOK, Owned, StaleRename, At, Goto
  <2>8. CASE StaleVerify(p)
    BY <2>8 DEF TypeOK, Owned, StaleVerify, At, Goto
  <2>9. CASE StaleUnlink(p)
    BY <2>9 DEF TypeOK, Owned, StaleUnlink, At, Goto
  <2>10. CASE Ensure(p)
    BY <2>10 DEF TypeOK, Owned, Ensure, At, Goto
  <2>11. CASE Create(p)
    BY <2>11, TokenFacts DEF TypeOK, Owned, Create, At, Goto, Target
  <2>12. CASE CreateOccupied(p)
    BY <2>12 DEF TypeOK, Owned, CreateOccupied, At, Goto
  <2>13. CASE Write(p)
    BY <2>13 DEF TypeOK, Owned, Write, At, Goto, Abandon
  <2>14. CASE Recheck(p)
    BY <2>14 DEF TypeOK, Owned, Recheck, At, Goto, Abandon, Target
  <2>15. CASE RmRename(p)
    BY <2>15 DEF TypeOK, Owned, RmRename, At, Goto
  <2>16. CASE RmVerify(p)
    BY <2>16 DEF TypeOK, Owned, RmVerify, At, Goto
  <2> QED
    BY <1>5, <2>3, <2>4, <2>5, <2>6, <2>7, <2>8, <2>9, <2>10, <2>11, <2>12, <2>13, <2>14, <2>15, <2>16
       DEF Step, ScanRefuses, CaptureRefuses, RmRestored
<1> QED
  BY <1>1, <1>2, <1>3, <1>4, <1>5 DEF Next

\* Type correctness: every step of the lock protocol, a crash included, leaves
\* the directory and the locals of the calls well formed.
THEOREM TypeCorrect == Spec => []TypeOK
<1>1. Init => TypeOK /\ Owned
  BY DEF Init, TypeOK, Owned, Target, Pc
<1>2. TypeOK /\ Owned /\ [Next]_vars => TypeOK' /\ Owned'
  BY TypeStep, OwnedStep
<1> QED
  BY <1>1, <1>2, PTL DEF Spec

-----------------------------------------------------------------------------
(* Exclusion *)

LEMMA OwnTokensStep ==
    ASSUME TypeOK, OwnTokens, [Next]_vars
    PROVE  OwnTokens'
<1> USE DEF TypeOK, OwnTokens
<1>1. CASE UNCHANGED vars
  BY <1>1 DEF vars, disk, local
<1>2. ASSUME NEW p \in Proc, Begin(p) PROVE OwnTokens'
  BY <1>2 DEF Begin, Goto, At, disk
<1>3. ASSUME NEW p \in Proc, Release(p) PROVE OwnTokens'
  BY <1>3 DEF Release, Goto, At, Target, disk
<1>4. ASSUME NEW p \in Proc, Crash(p) PROVE OwnTokens'
  BY <1>4 DEF Crash, Goto, disk
<1>5. ASSUME NEW p \in Proc, Step(p) PROVE OwnTokens'
  <2>1. CASE ScanRefuses(p)
    BY <2>1, SMTT(30) DEF ScanRefuses, At, Goto, Fail, Removed, Target, disk
  <2>2. CASE ScanPasses(p)
    BY <2>2, SMTT(30) DEF ScanPasses, At, Goto, Fail, Removed, Target, disk, Resolved
  <2>3. CASE Reap(p)
    <3>1. Fail(p) \/ tok' = tok
      BY <2>3 DEF Reap
    <3> QED
      BY <3>1, SMTT(30) DEF Fail, Goto, Target
  <2>4. CASE NoTakeover(p)
    BY <2>4, SMTT(30) DEF NoTakeover, At, Goto, Fail, Removed, Target, disk
  <2>5. CASE CaptureRefuses(p)
    BY <2>5, SMTT(30) DEF CaptureRefuses, At, Goto, Fail, Removed, Target, disk
  <2>6. CASE CaptureStale(p)
    BY <2>6, TokenFacts, SMTT(30) DEF CaptureStale, At, Goto, Fail, Removed, Target, disk, Stale
  <2>7. CASE StaleRename(p)
    <3>1. Fail(p) \/ tok' = tok
      BY <2>7 DEF StaleRename
    <3> QED
      BY <3>1, SMTT(30) DEF Fail, Goto, Target
  <2>8. CASE StaleVerify(p)
    BY <2>8, SMTT(30) DEF StaleVerify, At, Goto, Fail, Removed, Target, disk
  <2>9. CASE StaleUnlink(p)
    <3>1. Fail(p) \/ tok' = tok
      BY <2>9 DEF StaleUnlink
    <3> QED
      BY <3>1, SMTT(30) DEF Fail, Goto, Target
  <2>10. CASE Ensure(p)
    BY <2>10, SMTT(30) DEF Ensure, At, Goto, Fail, Removed, Target, disk
  <2>11. CASE Create(p)
    BY <2>11, TokenFacts, SMTT(30) DEF Create, At, Goto, Fail, Removed, Target, disk
  <2>12. CASE CreateOccupied(p)
    BY <2>12, SMTT(30) DEF CreateOccupied, At, Goto, Fail, Removed, Target, disk
  <2>13. CASE Write(p)
    BY <2>13, SMTT(30) DEF Write, At, Goto, Fail, Removed, Target, disk, Abandon
  <2>14. CASE Recheck(p)
    BY <2>14, SMTT(30) DEF Recheck, At, Goto, Fail, Removed, Target, disk, Abandon
  <2>15. CASE RmRename(p)
    BY <2>15, SMTT(30) DEF RmRename, At, Goto, Fail, Removed, Target, disk
  <2>16. CASE RmVerify(p)
    BY <2>16, SMTT(30) DEF RmVerify, At, Goto, Fail, Removed, Target, disk
  <2>17. CASE RmRestored(p)
    BY <2>17, SMTT(30) DEF RmRestored, At, Goto, Fail, Removed, Target, disk
  <2> QED
    BY <1>5, <2>1, <2>2, <2>3, <2>4, <2>5, <2>6, <2>7, <2>8, <2>9,
       <2>10, <2>11, <2>12, <2>13, <2>14, <2>15, <2>16, <2>17 DEF Step
<1> QED
  BY <1>1, <1>2, <1>3, <1>4, <1>5 DEF Next

LEMMA SerialStep ==
    ASSUME ~Overlap, TypeOK, Serial, [Next]_vars
    PROVE  Serial'
<1> USE DEF TypeOK, Serial
<1>1. CASE UNCHANGED vars
  BY <1>1 DEF vars, disk, local
<1>2. ASSUME NEW p \in Proc, Begin(p) PROVE Serial'
  BY <1>2 DEF Begin, Goto, At, disk
<1>3. ASSUME NEW p \in Proc, Release(p) PROVE Serial'
  BY <1>3 DEF Release, Goto, At, Target, disk
<1>4. ASSUME NEW p \in Proc, Crash(p) PROVE Serial'
  BY <1>4 DEF Crash, Goto, disk
<1>5. ASSUME NEW p \in Proc, Step(p) PROVE Serial'
  <2>1. CASE ScanRefuses(p)
    BY <2>1, SMTT(30) DEF ScanRefuses, At, Goto, Fail, Removed, Target, disk
  <2>2. CASE ScanPasses(p)
    BY <2>2, SMTT(30) DEF ScanPasses, At, Goto, Fail, Removed, Target, disk, Resolved
  <2>3. CASE Reap(p)
    BY <2>3, SMTT(30) DEF Reap, At, Goto, Fail, Removed, Target, disk, Resolved
  <2>4. CASE NoTakeover(p)
    BY <2>4, SMTT(30) DEF NoTakeover, At, Goto, Fail, Removed, Target, disk
  <2>5. CASE CaptureRefuses(p)
    BY <2>5, SMTT(30) DEF CaptureRefuses, At, Goto, Fail, Removed, Target, disk
  <2>6. CASE CaptureStale(p)
    BY <2>6, TokenFacts, SMTT(30) DEF CaptureStale, At, Goto, Fail, Removed, Target, disk, Stale
  <2>7. CASE StaleRename(p)
    BY <2>7, SMTT(30) DEF StaleRename, At, Goto, Fail, Removed, Target, disk
  <2>8. CASE StaleVerify(p)
    BY <2>8, SMTT(30) DEF StaleVerify, At, Goto, Fail, Removed, Target, disk
  <2>9. CASE StaleUnlink(p)
    BY <2>9, SMTT(30) DEF StaleUnlink, At, Goto, Fail, Removed, Target, disk
  <2>10. CASE Ensure(p)
    BY <2>10, SMTT(30) DEF Ensure, At, Goto, Fail, Removed, Target, disk
  <2>11. CASE Create(p)
    BY <2>11, TokenFacts, SMTT(30) DEF Create, At, Goto, Fail, Removed, Target, disk
  <2>12. CASE CreateOccupied(p)
    BY <2>12, SMTT(30) DEF CreateOccupied, At, Goto, Fail, Removed, Target, disk
  <2>13. CASE Write(p)
    BY <2>13, SMTT(30) DEF Write, At, Goto, Fail, Removed, Target, disk, Abandon
  <2>14. CASE Recheck(p)
    BY <2>14, SMTT(30) DEF Recheck, At, Goto, Fail, Removed, Target, disk, Abandon
  <2>15. CASE RmRename(p)
    BY <2>15, SMTT(30) DEF RmRename, At, Goto, Fail, Removed, Target, disk
  <2>16. CASE RmVerify(p)
    BY <2>16, SMTT(30) DEF RmVerify, At, Goto, Fail, Removed, Target, disk
  <2>17. CASE RmRestored(p)
    BY <2>17, SMTT(30) DEF RmRestored, At, Goto, Fail, Removed, Target, disk
  <2> QED
    BY <1>5, <2>1, <2>2, <2>3, <2>4, <2>5, <2>6, <2>7, <2>8, <2>9,
       <2>10, <2>11, <2>12, <2>13, <2>14, <2>15, <2>16, <2>17 DEF Step
<1> QED
  BY <1>1, <1>2, <1>3, <1>4, <1>5 DEF Next

LEMMA PublishedStep ==
    ASSUME TypeOK, Owned, OwnTokens, Published, Capture, [Next]_vars
    PROVE  Published'
<1> USE DEF TypeOK, OwnTokens, Published, Moved
<1>1. CASE UNCHANGED vars
  BY <1>1 DEF vars, disk, local
<1>2. ASSUME NEW p \in Proc, Begin(p) PROVE Published'
  BY <1>2 DEF Begin, Goto, At, disk
<1>3. ASSUME NEW p \in Proc, Release(p) PROVE Published'
  BY <1>3 DEF Release, Goto, At, Target, disk
<1>4. ASSUME NEW p \in Proc, Crash(p) PROVE Published'
  BY <1>4 DEF Crash, Goto, disk
<1>5. ASSUME NEW p \in Proc, Step(p) PROVE Published'
  <2>1. CASE ScanRefuses(p)
    BY <2>1, SMTT(30) DEF ScanRefuses, At, Goto, Fail, Removed, Target, disk
  <2>2. CASE ScanPasses(p)
    BY <2>2, SMTT(30) DEF ScanPasses, At, Goto, Fail, Removed, Target, disk, Resolved
  <2>3. CASE Reap(p)
    <3>1. UNCHANGED <<pub, alive>> /\ ~Moved(p, "main") /\ ~Moved(p, "takeover")
      BY <2>3 DEF Reap, At
    <3>2. /\ \A q \in Proc \ {p} : /\ pc'[q] = pc[q] /\ tgt'[q] = tgt[q]
                                  /\ tok'[q] = tok[q]
          /\ \A F \in Target : tok'[p][F] \in {None, tok[p][F]}
      <4>1. CASE Fail(p)
        BY <4>1 DEF Fail, Goto, Target
      <4>2. CASE ~Fail(p)
        BY <2>3, <4>2 DEF Reap, Goto
      <4> QED
        BY <4>1, <4>2
    <3> QED
      BY <3>1, <3>2 DEF Target
  <2>4. CASE NoTakeover(p)
    BY <2>4, SMTT(30) DEF NoTakeover, At, Goto, Fail, Removed, Target, disk
  <2>5. CASE CaptureRefuses(p)
    BY <2>5, SMTT(30) DEF CaptureRefuses, At, Goto, Fail, Removed, Target, disk
  <2>6. CASE CaptureStale(p)
    BY <2>6, TokenFacts, SMTT(30) DEF CaptureStale, At, Goto, Fail, Removed, Target, disk, Stale
  <2>7. CASE StaleRename(p)
    <3>1. CASE pub[tgt[p]] = None
      <4>1. UNCHANGED <<pub, alive>> /\ Fail(p) /\ pc[p] = "staleRename"
        BY <2>7, <3>1 DEF StaleRename, At
      <4> QED
        BY <4>1 DEF Fail, Goto, Target
    <3>2. CASE pub[tgt[p]] # None
      <4>1. /\ UNCHANGED <<tgt, tok, alive>>
            /\ pc' = [pc EXCEPT ![p] = "staleVerify"]
            /\ pub' = [pub EXCEPT ![tgt[p]] = None]
            /\ p \in alive /\ pc[p] = "staleRename"
        BY <2>7, <3>2 DEF StaleRename, Goto, At
      <4>2. Owner(pub[tgt[p]]) \notin alive
        BY <4>1 DEF Capture
      <4>3. ASSUME NEW q \in alive, NEW F \in Target, tok[q][F] # None, ~Moved(q, F)
            PROVE  pub'[F] = tok[q][F]
        <5>1. pub[F] = tok[q][F] /\ Owner(pub[F]) = q
          BY <4>3
        <5>2. F # tgt[p]
          BY <4>2, <5>1
        <5> QED
          BY <4>1, <5>1, <5>2
      <4> QED
        BY <4>1, <4>3
    <3> QED
      BY <3>1, <3>2
  <2>8. CASE StaleVerify(p)
    BY <2>8, SMTT(30) DEF StaleVerify, At, Goto, Fail, Removed, Target, disk
  <2>9. CASE StaleUnlink(p)
    <3>1. UNCHANGED <<pub, alive>> /\ ~Moved(p, "main") /\ ~Moved(p, "takeover")
      BY <2>9 DEF StaleUnlink, At
    <3>2. /\ \A q \in Proc \ {p} : /\ pc'[q] = pc[q] /\ tgt'[q] = tgt[q]
                                  /\ tok'[q] = tok[q]
          /\ \A F \in Target : tok'[p][F] \in {None, tok[p][F]}
      <4>1. CASE Fail(p)
        BY <4>1 DEF Fail, Goto, Target
      <4>2. CASE ~Fail(p)
        BY <2>9, <4>2 DEF StaleUnlink, Goto
      <4> QED
        BY <4>1, <4>2
    <3> QED
      BY <3>1, <3>2 DEF Target
  <2>10. CASE Ensure(p)
    BY <2>10, SMTT(30) DEF Ensure, At, Goto, Fail, Removed, Target, disk
  <2>11. CASE Create(p)
    BY <2>11, TokenFacts, SMTT(30) DEF Create, At, Goto, Fail, Removed, Target, disk
  <2>12. CASE CreateOccupied(p)
    BY <2>12, SMTT(30) DEF CreateOccupied, At, Goto, Fail, Removed, Target, disk
  <2>13. CASE Write(p)
    BY <2>13, SMTT(30) DEF Write, At, Goto, Fail, Removed, Target, disk, Abandon
  <2>14. CASE Recheck(p)
    BY <2>14, SMTT(30) DEF Recheck, At, Goto, Fail, Removed, Target, disk, Abandon
  <2>15. CASE RmRename(p)
    <3> DEFINE T == tgt[p]
    <3>1. p \in alive /\ pc[p] = "rmRename" /\ T \in Target /\ tok[p][T] # None
      BY <2>15 DEF RmRename, At, Owned
    <3>2. pub[T] = tok[p][T] /\ pub[T] # None /\ Owner(pub[T]) = p
      BY <3>1, SMTT(30)
    <3>3. alive' = alive /\ pub' = [pub EXCEPT ![T] = None]
      BY <2>15, <3>2 DEF RmRename
    <3>4. ASSUME NEW q \in alive, NEW F \in Target, tok[q][F] # None, ~Moved(q, F), q # p \/ F # T
          PROVE  pub'[F] = tok[q][F]
      <4>1. pub[F] = tok[q][F] /\ Owner(pub[F]) = q
        BY <3>4
      <4>2. F # T
        BY <3>2, <3>4, <4>1
      <4> QED
        BY <3>3, <4>1, <4>2
    <3>5. CASE Removed(p)
      <4>1. /\ tok' = [tok EXCEPT ![p][T] = None]
            /\ \A q \in Proc \ {p} : pc'[q] = pc[q] /\ tgt'[q] = tgt[q]
        BY <3>5 DEF Removed, Goto
      <4> QED
        BY <3>1, <3>3, <3>4, <4>1
    <3>6. CASE ~Removed(p)
      <4>1. UNCHANGED <<tok, tgt>> /\ pc' = [pc EXCEPT ![p] = "rmVerify"]
        BY <2>15, <3>2, <3>6 DEF RmRename, Goto
      <4> QED
        BY <3>1, <3>3, <3>4, <4>1
    <3> QED
      BY <3>5, <3>6
  <2>16. CASE RmVerify(p)
    BY <2>16, SMTT(30) DEF RmVerify, At, Goto, Fail, Removed, Target, disk
  <2>17. CASE RmRestored(p)
    BY <2>17, SMTT(30) DEF RmRestored, At, Goto, Fail, Removed, Target, disk
  <2> QED
    BY <1>5, <2>1, <2>2, <2>3, <2>4, <2>5, <2>6, <2>7, <2>8, <2>9,
       <2>10, <2>11, <2>12, <2>13, <2>14, <2>15, <2>16, <2>17 DEF Step
<1> QED
  BY <1>1, <1>2, <1>3, <1>4, <1>5 DEF Next

LEMMA CaptureStep ==
    ASSUME TypeOK, Owned, OwnTokens, Published, Serial, Capture, [Next]_vars
    PROVE  Capture'
<1> USE DEF TypeOK, Serial, Capture
<1>1. CASE UNCHANGED vars
  BY <1>1 DEF vars, disk, local
<1>2. ASSUME NEW p \in Proc, Begin(p) PROVE Capture'
  BY <1>2 DEF Begin, Goto, At, disk
<1>3. ASSUME NEW p \in Proc, Release(p) PROVE Capture'
  BY <1>3 DEF Release, Goto, At, Target, disk
<1>4. ASSUME NEW p \in Proc, Crash(p) PROVE Capture'
  BY <1>4 DEF Crash, Goto, disk
<1>5. ASSUME NEW p \in Proc, Step(p) PROVE Capture'
  <2>1. CASE ScanRefuses(p)
    BY <2>1, SMTT(30) DEF ScanRefuses, At, Goto, Fail, Removed, Target, disk
  <2>2. CASE ScanPasses(p)
    BY <2>2, SMTT(30) DEF ScanPasses, At, Goto, Fail, Removed, Target, disk, Resolved
  <2>3. CASE Reap(p)
    BY <2>3, SMTT(30) DEF Reap, At, Goto, Fail, Removed, Target, disk, Resolved
  <2>4. CASE NoTakeover(p)
    BY <2>4, SMTT(30) DEF NoTakeover, At, Goto, Fail, Removed, Target, disk
  <2>5. CASE CaptureRefuses(p)
    BY <2>5, SMTT(30) DEF CaptureRefuses, At, Goto, Fail, Removed, Target, disk
  <2>6. CASE CaptureStale(p)
    BY <2>6, TokenFacts, SMTT(30) DEF CaptureStale, At, Goto, Fail, Removed, Target, disk, Stale
  <2>7. CASE StaleRename(p)
    BY <2>7, SMTT(30) DEF StaleRename, At, Goto, Fail, Removed, Target, disk
  <2>8. CASE StaleVerify(p)
    BY <2>8, SMTT(30) DEF StaleVerify, At, Goto, Fail, Removed, Target, disk
  <2>9. CASE StaleUnlink(p)
    BY <2>9, SMTT(30) DEF StaleUnlink, At, Goto, Fail, Removed, Target, disk
  <2>10. CASE Ensure(p)
    BY <2>10, SMTT(30) DEF Ensure, At, Goto, Fail, Removed, Target, disk
  <2>11. CASE Create(p)
    BY <2>11, TokenFacts, SMTT(30) DEF Create, At, Goto, Fail, Removed, Target, disk
  <2>12. CASE CreateOccupied(p)
    BY <2>12, SMTT(30) DEF CreateOccupied, At, Goto, Fail, Removed, Target, disk
  <2>13. CASE Write(p)
    BY <2>13, SMTT(30) DEF Write, At, Goto, Fail, Removed, Target, disk, Abandon
  <2>14. CASE Recheck(p)
    BY <2>14, SMTT(30) DEF Recheck, At, Goto, Fail, Removed, Target, disk, Abandon
  <2>15. CASE RmRename(p)
    <3> DEFINE T == tgt[p]
    <3>1. p \in alive /\ T \in Target /\ tok[p][T] # None /\ ~Moved(p, T)
      BY <2>15 DEF RmRename, At, Owned, Moved
    <3>2. pub[T] = tok[p][T] /\ Owner(pub[T]) = p
      BY <3>1 DEF Published, OwnTokens
    <3>3. /\ alive' = alive
          /\ \A F \in Target \ {T} : pub'[F] = pub[F]
          /\ pc'[p] # "staleRename"
          /\ \A q \in Proc \ {p} : /\ pc'[q] = pc[q] /\ tgt'[q] = tgt[q]
                                /\ clear'[q] = clear[q] /\ captured'[q] = captured[q]
      <4>1. alive' = alive /\ \A F \in Target \ {T} : pub'[F] = pub[F]
        BY <2>15 DEF RmRename
      <4>2. CASE Removed(p)
        BY <4>1, <4>2 DEF Removed, Goto
      <4>3. CASE ~Removed(p)
        BY <2>15, <4>1, <4>3 DEF RmRename, Goto
      <4> QED
        BY <4>2, <4>3
    <3>4. ASSUME NEW q \in alive, q # p, pc[q] = "staleRename"
          PROVE  tgt[q] # T
      BY <3>1, <3>2, <3>4
    <3> QED
      BY <3>3, <3>4, SMTT(30)
  <2>16. CASE RmVerify(p)
    <3> DEFINE T == tgt[p]
    <3>1. /\ alive' = alive
          /\ \A F \in Target : pub'[F] = pub[F] \/ pub[F] = None
          /\ pc'[p] # "staleRename"
          /\ \A q \in Proc \ {p} : /\ pc'[q] = pc[q] /\ tgt'[q] = tgt[q]
                                /\ clear'[q] = clear[q] /\ captured'[q] = captured[q]
      <4>1. alive' = alive /\ \A F \in Target : pub'[F] = pub[F] \/ pub[F] = None
        BY <2>16 DEF RmVerify
      <4>2. CASE Removed(p)
        BY <4>1, <4>2 DEF Removed, Goto
      <4>3. CASE ~Removed(p)
        BY <2>16, <4>1, <4>3 DEF RmVerify, Goto
      <4> QED
        BY <4>2, <4>3
    <3>2. ASSUME NEW q \in alive, q # p, pc[q] = "staleRename"
          PROVE  pub'[tgt[q]] = captured[q]
      <4>1. pub[tgt[q]] # None /\ tgt[q] \in Target
        BY <3>2, TokenFacts
      <4> QED
        BY <3>1, <3>2, <4>1
    <3> QED
      BY <3>1, <3>2
  <2>17. CASE RmRestored(p)
    BY <2>17, SMTT(30) DEF RmRestored, At, Goto, Fail, Removed, Target, disk
  <2> QED
    BY <1>5, <2>1, <2>2, <2>3, <2>4, <2>5, <2>6, <2>7, <2>8, <2>9,
       <2>10, <2>11, <2>12, <2>13, <2>14, <2>15, <2>16, <2>17 DEF Step
<1> QED
  BY <1>1, <1>2, <1>3, <1>4, <1>5 DEF Next

LEMMA InvInit == Init => Inv /\ Owned
BY DEF Init, Inv, TypeOK, OwnTokens, Published, Serial, Capture, Owned, Target, Pc

LEMMA InvStep == ~Overlap /\ Inv /\ Owned /\ [Next]_vars => Inv' /\ Owned'
BY TypeStep, OwnedStep, OwnTokensStep, SerialStep, PublishedStep, CaptureStep DEF Inv

\* Two processes that hold the lock would both have their own file published.
LEMMA Excludes == Inv => HolderPublished /\ MutualExclusion /\ GuardExclusive
<1> SUFFICES ASSUME Inv PROVE HolderPublished /\ MutualExclusion /\ GuardExclusive
  OBVIOUS
<1> USE DEF Inv
<1>1. ASSUME NEW p \in Proc, Holds(p)
      PROVE  pub["main"] = tok[p]["main"] /\ Owner(pub["main"]) = p
  BY <1>1 DEF Holds, Published, Moved, OwnTokens, Target
<1>2. ASSUME NEW p \in Proc, Guards(p)
      PROVE  Owner(pub["takeover"]) = p
  BY <1>2 DEF Guards, Published, Moved, OwnTokens, Target
<1> QED
  BY <1>1, <1>2 DEF HolderPublished, MutualExclusion, GuardExclusive

\* As long as recoveries do not overlap, at most one process is past acquire
\* and before release, whatever dies, stalls or fails.
THEOREM Exclusive == ~Overlap => (Spec => []MutualExclusion)
<1> SUFFICES ASSUME ~Overlap PROVE Spec => []MutualExclusion
  OBVIOUS
<1>1. Init => Inv /\ Owned
  BY InvInit
<1>2. Inv /\ Owned /\ [Next]_vars => Inv' /\ Owned'
  BY InvStep
<1>3. Inv => MutualExclusion
  BY Excludes
<1> QED
  BY <1>1, <1>2, <1>3, PTL DEF Spec

\* Under the same assumption the file of a working process stays under its
\* public name, so assert_owned_for does not refuse its publication, and nobody
\* works under a takeover guard that somebody else still holds.
THEOREM WorkIsProtected == ~Overlap => (Spec => []WorkProtected)
<1> SUFFICES ASSUME ~Overlap PROVE Spec => []WorkProtected
  OBVIOUS
<1>1. Init => Inv /\ Owned
  BY InvInit
<1>2. Inv /\ Owned /\ [Next]_vars => Inv' /\ Owned'
  BY InvStep
<1>3. Inv => WorkProtected
  BY Excludes DEF WorkProtected
<1> QED
  BY <1>1, <1>2, <1>3, PTL DEF Spec

\* What a public name named is gone only because it belonged to a dead process
\* or because the process it belongs to takes a step of its own.
LEMMA OnlyOwnerMoves ==
    ASSUME Inv, Owned, [Next]_vars, NEW F \in Target,
           pub[F] # None, pub'[F] # pub[F], Owner(pub[F]) \in alive'
    PROVE  LET o == Owner(pub[F]) IN pc'[o] # pc[o] \/ tgt'[o] # tgt[o]
<1> USE DEF Inv
<1>1. PICK p \in Proc : StaleRename(p) \/ Create(p) \/ RmRename(p) \/ RmVerify(p)
  BY ZenonT(60) DEF vars, disk, Next, Begin, Release, Crash, Step, ScanRefuses, ScanPasses, Reap,
         NoTakeover, CaptureRefuses, CaptureStale, StaleVerify, StaleUnlink, Ensure,
         CreateOccupied, Write, Recheck, RmRestored
<1>2. ~Create(p)
  BY DEF TypeOK, Create
<1>3. ~RmVerify(p)
  BY DEF TypeOK, RmVerify
<1>4. ~StaleRename(p)
  BY DEF TypeOK, StaleRename, At, Capture
<1>5. /\ RmRename(p) /\ p \in alive /\ pc[p] = "rmRename" /\ F = tgt[p]
      /\ tok[p][F] # None
  BY <1>1, <1>2, <1>3, <1>4 DEF RmRename, At, Owned, TypeOK
<1>6. Owner(pub[F]) = p
  BY <1>5 DEF Published, Moved, OwnTokens
<1>7. CASE Removed(p)
  BY <1>5, <1>6, <1>7 DEF Removed, Goto, TypeOK, Target
<1>8. CASE ~Removed(p)
  BY <1>5, <1>6, <1>8 DEF RmRename, Goto, TypeOK
<1> QED
  BY <1>7, <1>8

\* Recovery refuses whatever a live process owns, as long as there is one
\* recovery at a time.
THEOREM RecoverySparesTheLiving == ~Overlap => (Spec => LiveFilesStay)
<1> SUFFICES ASSUME ~Overlap PROVE Spec => LiveFilesStay
  OBVIOUS
<1>1. Init => Inv /\ Owned
  BY InvInit
<1>2. Inv /\ Owned /\ [Next]_vars => Inv' /\ Owned'
  BY InvStep
<1>3. Inv /\ Owned /\ [Next]_vars =>
        [\A F \in Target :
           LET t == pub[F]
               o == Owner(t)
           IN  t # None /\ o \in alive' /\ pub'[F] # t
                 => pc'[o] # pc[o] \/ tgt'[o] # tgt[o]]_vars
  BY OnlyOwnerMoves
<1> QED
  BY <1>1, <1>2, <1>3, PTL DEF Spec, LiveFilesStay

-----------------------------------------------------------------------------
(* Refinement of ExclusiveLock *)

\* A call that ended has no file to its name.
Resting == \A p \in Proc : pc[p] = "idle" => \A F \in Target : tok[p][F] = None

\* Only a recovery takes away what it did not create.
Clearing == \A p \in Proc :
    /\ clear[p] => p \in MayClear
    /\ pc[p] \in {"reap", "staleRename", "staleVerify", "staleUnlink"} => clear[p]

\* The quarantine named by a live process's token holds its file or nothing,
\* and nothing unless the process is verifying it.
Named == \A p \in alive, F \in Target : tok[p][F] # None =>
    /\ quar[F][tok[p][F]] \in {None, tok[p][F]}
    /\ quar[F][tok[p][F]] # None => Moved(p, F)

Care == Resting /\ Clearing /\ Named

\* What a step leaves of the locals of the processes that do not take it.
Mine(p) == \A q \in Proc \ {p} :
    pc'[q] = pc[q] /\ tgt'[q] = tgt[q] /\ clear'[q] = clear[q] /\ tok'[q] = tok[q]

LEMMA Alone ==
    ASSUME TypeOK, NEW p \in Proc, Begin(p) \/ Release(p) \/ Step(p) \/ Crash(p)
    PROVE  Mine(p)
<1> USE DEF TypeOK
<1>1. CASE Begin(p)
  BY <1>1 DEF Mine, Begin, Goto
<1>2. CASE Release(p)
  BY <1>2 DEF Mine, Release, Goto
<1>3. CASE Crash(p)
  BY <1>3 DEF Mine, Crash, Goto
<1>4. CASE Step(p)
  <2>1. CASE ScanRefuses(p)
    BY <2>1 DEF ScanRefuses, Mine, Goto, Fail
  <2>2. CASE ScanPasses(p)
    BY <2>2 DEF ScanPasses, Mine, Goto, Fail, Resolved
  <2>3. CASE Reap(p)
    <3>1. Fail(p) \/ UNCHANGED <<tgt, clear, tok>>
      BY <2>3 DEF Reap
    <3>2. \A q \in Proc \ {p} : pc'[q] = pc[q]
      BY <2>3 DEF Reap, Fail, Goto
    <3> QED
      BY <3>1, <3>2 DEF Mine, Fail
  <2>4. CASE NoTakeover(p)
    BY <2>4 DEF NoTakeover, Mine, Goto, Fail
  <2>5. CASE CaptureRefuses(p)
    BY <2>5 DEF CaptureRefuses, Mine, Goto, Fail
  <2>6. CASE CaptureStale(p)
    BY <2>6 DEF CaptureStale, Mine, Goto, Fail
  <2>7. CASE StaleRename(p)
    <3>1. Fail(p) \/ UNCHANGED <<tgt, clear, tok>>
      BY <2>7 DEF StaleRename
    <3>2. \A q \in Proc \ {p} : pc'[q] = pc[q]
      BY <2>7 DEF StaleRename, Fail, Goto
    <3> QED
      BY <3>1, <3>2 DEF Mine, Fail
  <2>8. CASE StaleVerify(p)
    <3>1. Fail(p) \/ UNCHANGED <<tgt, clear, tok>>
      BY <2>8 DEF StaleVerify
    <3>2. \A q \in Proc \ {p} : pc'[q] = pc[q]
      BY <2>8 DEF StaleVerify, Fail, Goto
    <3> QED
      BY <3>1, <3>2 DEF Mine, Fail
  <2>9. CASE StaleUnlink(p)
    <3>1. Fail(p) \/ UNCHANGED <<tgt, clear, tok>>
      BY <2>9 DEF StaleUnlink
    <3>2. \A q \in Proc \ {p} : pc'[q] = pc[q]
      BY <2>9 DEF StaleUnlink, Fail, Goto
    <3> QED
      BY <3>1, <3>2 DEF Mine, Fail
  <2>10. CASE Ensure(p)
    <3>1. Fail(p) \/ UNCHANGED <<tgt, clear, tok>>
      BY <2>10 DEF Ensure
    <3>2. \A q \in Proc \ {p} : pc'[q] = pc[q]
      BY <2>10 DEF Ensure, Fail, Goto
    <3> QED
      BY <3>1, <3>2 DEF Mine, Fail
  <2>11. CASE Create(p)
    BY <2>11 DEF Create, Mine, Goto, Fail
  <2>12. CASE CreateOccupied(p)
    <3>1. Fail(p) \/ UNCHANGED <<tgt, clear, tok>>
      BY <2>12 DEF CreateOccupied
    <3>2. \A q \in Proc \ {p} : pc'[q] = pc[q]
      BY <2>12 DEF CreateOccupied, Fail, Goto
    <3> QED
      BY <3>1, <3>2 DEF Mine, Fail
  <2>13. CASE Write(p)
    BY <2>13 DEF Write, Mine, Goto, Fail, Abandon
  <2>14. CASE Recheck(p)
    BY <2>14 DEF Recheck, Mine, Goto, Fail, Abandon
  <2>15. CASE RmRename(p)
    BY <2>15 DEF RmRename, Mine, Goto, Fail, Removed
  <2>16. CASE RmVerify(p)
    BY <2>16 DEF RmVerify, Mine, Goto, Fail, Removed
  <2>17. CASE RmRestored(p)
    BY <2>17 DEF RmRestored, Mine, Goto, Fail, Removed
  <2> QED
    BY <1>4, <2>1, <2>2, <2>3, <2>4, <2>5, <2>6, <2>7, <2>8, <2>9,
       <2>10, <2>11, <2>12, <2>13, <2>14, <2>15, <2>16, <2>17 DEF Step
<1> QED
  BY <1>1, <1>2, <1>3, <1>4

\* A step leaves a token alone, gives it up, or creates a file nobody has met.
LEMMA TokenStep ==
    ASSUME TypeOK, NEW p \in Proc, Begin(p) \/ Release(p) \/ Step(p) \/ Crash(p),
           NEW F \in Target
    PROVE  \/ tok'[p][F] \in {None, tok[p][F]}
           \/ Create(p) /\ F = tgt[p] /\ Fresh(tok'[p][F])
<1> USE DEF TypeOK
<1>1. CASE Begin(p)
  BY <1>1 DEF Begin
<1>2. CASE Release(p)
  BY <1>2 DEF Release
<1>3. CASE Crash(p)
  BY <1>3 DEF Crash
<1>4. CASE Step(p)
  <2>1. CASE ScanRefuses(p)
    BY <2>1 DEF ScanRefuses, Fail
  <2>2. CASE ScanPasses(p)
    BY <2>2 DEF ScanPasses, Fail, Resolved
  <2>3. CASE Reap(p)
    <3>1. Fail(p) \/ tok' = tok
      BY <2>3 DEF Reap
    <3> QED
      BY <3>1 DEF Fail
  <2>4. CASE NoTakeover(p)
    BY <2>4 DEF NoTakeover, Fail
  <2>5. CASE CaptureRefuses(p)
    BY <2>5 DEF CaptureRefuses, Fail
  <2>6. CASE CaptureStale(p)
    BY <2>6 DEF CaptureStale, Fail
  <2>7. CASE StaleRename(p)
    <3>1. Fail(p) \/ tok' = tok
      BY <2>7 DEF StaleRename
    <3> QED
      BY <3>1 DEF Fail
  <2>8. CASE StaleVerify(p)
    BY <2>8 DEF StaleVerify, Fail
  <2>9. CASE StaleUnlink(p)
    <3>1. Fail(p) \/ tok' = tok
      BY <2>9 DEF StaleUnlink
    <3> QED
      BY <3>1 DEF Fail
  <2>10. CASE Ensure(p)
    BY <2>10 DEF Ensure, Fail
  <2>11. CASE Create(p)
    <3>1. PICK n \in Nonce : Fresh(<<p, n>>) /\ tok' = [tok EXCEPT ![p][tgt[p]] = <<p, n>>]
      BY <2>11 DEF Create
    <3> QED
      BY <3>1, <2>11
  <2>12. CASE CreateOccupied(p)
    BY <2>12 DEF CreateOccupied, Fail
  <2>13. CASE Write(p)
    BY <2>13 DEF Write, Fail, Abandon
  <2>14. CASE Recheck(p)
    BY <2>14 DEF Recheck, Fail, Abandon
  <2>15. CASE RmRename(p)
    <3>1. Removed(p) \/ tok' = tok
      BY <2>15 DEF RmRename
    <3> QED
      BY <3>1 DEF Removed
  <2>16. CASE RmVerify(p)
    BY <2>16 DEF RmVerify, Fail, Removed
  <2>17. CASE RmRestored(p)
    BY <2>17 DEF RmRestored, Fail, Removed
  <2> QED
    BY <1>4, <2>1, <2>2, <2>3, <2>4, <2>5, <2>6, <2>7, <2>8, <2>9,
       <2>10, <2>11, <2>12, <2>13, <2>14, <2>15, <2>16, <2>17 DEF Step
<1> QED
  BY <1>1, <1>2, <1>3, <1>4

\* Who changes what is under a quarantine name.
Quarantines(p, F, n) ==
    \/ (Reap(p) \/ StaleUnlink(p)) /\ quar'[F][n] = None
    \/ StaleRename(p) /\ F = tgt[p] /\ n = captured[p]
    \/ RmRename(p) /\ F = tgt[p] /\ n = tok[p][F] /\ quar'[F][n] = pub[F]
    \/ (RmVerify(p) \/ RmRestored(p)) /\ F = tgt[p] /\ n = tok[p][F] /\ quar'[F][n] = None

LEMMA QuarantineStep ==
    ASSUME TypeOK, NEW p \in Proc, Begin(p) \/ Release(p) \/ Step(p) \/ Crash(p),
           NEW F \in Target, NEW n \in Token, quar'[F][n] # quar[F][n]
    PROVE  Quarantines(p, F, n)
<1> USE DEF TypeOK
<1>1. CASE Reap(p)
  <2>1. PICK e \in todo[p] : quar' = [quar EXCEPT ![tgt[p]][e[1]] = None]
    BY <1>1 DEF Reap
  <2> QED
    BY <1>1, <2>1 DEF Quarantines
<1>2. CASE StaleUnlink(p)
  BY <1>2 DEF StaleUnlink, Quarantines
<1>3. CASE StaleRename(p)
  BY <1>3 DEF StaleRename, Quarantines
<1>4. CASE RmRename(p)
  BY <1>4 DEF RmRename, Quarantines
<1>5. CASE RmVerify(p)
  BY <1>5 DEF RmVerify, Quarantines
<1>6. CASE RmRestored(p)
  BY <1>6 DEF RmRestored, Quarantines
<1>7. CASE ~Reap(p) /\ ~StaleUnlink(p) /\ ~StaleRename(p) /\ ~RmRename(p)
           /\ ~RmVerify(p) /\ ~RmRestored(p)
  BY <1>7 DEF disk, Begin, Release, Crash, Step, ScanRefuses, ScanPasses, NoTakeover,
         CaptureRefuses, CaptureStale, StaleVerify, Ensure, Create, CreateOccupied,
         Write, Recheck
<1> QED
  BY <1>1, <1>2, <1>3, <1>4, <1>5, <1>6, <1>7

LEMMA RestingStep ==
    ASSUME TypeOK, Owned, Resting, [Next]_vars
    PROVE  Resting'
<1> USE DEF TypeOK
<1>0. SUFFICES ASSUME NEW p \in Proc, Begin(p) \/ Release(p) \/ Step(p) \/ Crash(p)
               PROVE  pc'[p] = "idle" => \A F \in Target : tok'[p][F] = None
  <2>1. CASE UNCHANGED vars
    BY <2>1 DEF Resting, vars, local
  <2>2. CASE Next
    BY <2>2, <1>0, Alone, SMTT(30) DEF Next, Resting, Mine
  <2> QED
    BY <2>1, <2>2
<1>1. CASE Begin(p)
  BY <1>1 DEF Begin, Goto
<1>2. CASE Release(p)
  BY <1>2 DEF Release, Goto
<1>3. CASE Crash(p)
  BY <1>3 DEF Crash
<1>4. CASE Step(p)
  <2>f. ASSUME Fail(p) PROVE pc'[p] = "idle" => \A F \in Target : tok'[p][F] = None
    BY <2>f DEF Fail, Goto, Target
  <2>r. ASSUME Removed(p) PROVE pc'[p] = "idle" => \A F \in Target : tok'[p][F] = None
    BY <2>r DEF Removed, Goto, Target
  <2>1. CASE ScanRefuses(p)
    BY <2>1, <2>f DEF ScanRefuses
  <2>2. CASE ScanPasses(p)
    BY <2>2 DEF ScanPasses, At, Goto, Resolved
  <2>3. CASE Reap(p)
    BY <2>3, <2>f DEF Reap, At, Goto, Resolved
  <2>4. CASE NoTakeover(p)
    BY <2>4 DEF NoTakeover, At, Goto
  <2>5. CASE CaptureRefuses(p)
    BY <2>5, <2>f DEF CaptureRefuses
  <2>6. CASE CaptureStale(p)
    BY <2>6 DEF CaptureStale, At, Goto
  <2>7. CASE StaleRename(p)
    BY <2>7, <2>f DEF StaleRename, At, Goto
  <2>8. CASE StaleVerify(p)
    BY <2>8, <2>f DEF StaleVerify, At, Goto
  <2>9. CASE StaleUnlink(p)
    BY <2>9, <2>f DEF StaleUnlink, At, Goto
  <2>10. CASE Ensure(p)
    BY <2>10, <2>f DEF Ensure, At, Goto
  <2>11. CASE Create(p)
    BY <2>11 DEF Create, At, Goto
  <2>12. CASE CreateOccupied(p)
    BY <2>12, <2>f DEF CreateOccupied, At, Goto
  <2>13. CASE Write(p)
    BY <2>13, <2>f DEF Write, At, Goto, Abandon
  <2>14. CASE Recheck(p)
    BY <2>14 DEF Recheck, At, Goto, Abandon
  <2>15. CASE RmRename(p)
    BY <2>15, <2>r DEF RmRename, At, Goto
  <2>16. CASE RmVerify(p)
    BY <2>16, <2>r DEF RmVerify, At, Goto
  <2>17. CASE RmRestored(p)
    BY <2>17, <2>r DEF RmRestored
  <2> QED
    BY <1>4, <2>1, <2>2, <2>3, <2>4, <2>5, <2>6, <2>7, <2>8, <2>9,
       <2>10, <2>11, <2>12, <2>13, <2>14, <2>15, <2>16, <2>17 DEF Step
<1> QED
  BY <1>0, <1>1, <1>2, <1>3, <1>4

\* What Clearing says of one process.
Clears(p) ==
    /\ clear[p] => p \in MayClear
    /\ pc[p] \in {"reap", "staleRename", "staleVerify", "staleUnlink"} => clear[p]

LEMMA ClearingStep ==
    ASSUME TypeOK, Clearing, [Next]_vars
    PROVE  Clearing'
<1> USE DEF TypeOK
<1>0. SUFFICES ASSUME NEW p \in Proc, Begin(p) \/ Release(p) \/ Step(p) \/ Crash(p)
               PROVE  Clears(p)'
  <2>1. CASE UNCHANGED vars
    BY <2>1 DEF Clearing, vars, local
  <2>2. CASE Next
    BY <2>2, <1>0, Alone DEF Next, Clearing, Clears, Mine
  <2> QED
    BY <2>1, <2>2
<1>1. CASE Begin(p)
  BY <1>1 DEF Begin, Goto, Clears
<1>2. CASE Release(p)
  BY <1>2 DEF Release, Goto, Clears
<1>3. CASE Crash(p)
  BY <1>3 DEF Crash, Goto, Clears
<1>4. CASE Step(p)
  <2>f. ASSUME Fail(p) PROVE Clears(p)'
    BY <2>f DEF Fail, Goto, Clears, Clearing
  <2>r. ASSUME Removed(p) PROVE Clears(p)'
    BY <2>r DEF Removed, Goto, Clears, Clearing
  <2>1. CASE ScanRefuses(p)
    BY <2>1, <2>f DEF ScanRefuses
  <2>2. CASE ScanPasses(p)
    BY <2>2 DEF ScanPasses, At, Goto, Clears, Clearing, Resolved, Entries
  <2>3. CASE Reap(p)
    BY <2>3, <2>f DEF Reap, At, Goto, Clears, Clearing, Resolved
  <2>4. CASE NoTakeover(p)
    BY <2>4 DEF NoTakeover, At, Goto, Clears, Clearing
  <2>5. CASE CaptureRefuses(p)
    BY <2>5, <2>f DEF CaptureRefuses
  <2>6. CASE CaptureStale(p)
    BY <2>6 DEF CaptureStale, At, Goto, Clears, Clearing
  <2>7. CASE StaleRename(p)
    BY <2>7, <2>f DEF StaleRename, At, Goto, Clears, Clearing
  <2>8. CASE StaleVerify(p)
    BY <2>8, <2>f DEF StaleVerify, At, Goto, Clears, Clearing
  <2>9. CASE StaleUnlink(p)
    BY <2>9, <2>f DEF StaleUnlink, At, Goto, Clears, Clearing
  <2>10. CASE Ensure(p)
    BY <2>10, <2>f DEF Ensure, At, Goto, Clears, Clearing
  <2>11. CASE Create(p)
    BY <2>11 DEF Create, At, Goto, Clears, Clearing
  <2>12. CASE CreateOccupied(p)
    BY <2>12, <2>f DEF CreateOccupied, At, Goto, Clears, Clearing
  <2>13. CASE Write(p)
    BY <2>13, <2>f DEF Write, At, Goto, Clears, Clearing
  <2>14. CASE Recheck(p)
    BY <2>14 DEF Recheck, At, Goto, Clears, Clearing
  <2>15. CASE RmRename(p)
    BY <2>15, <2>r DEF RmRename, At, Goto, Clears, Clearing
  <2>16. CASE RmVerify(p)
    BY <2>16, <2>r DEF RmVerify, At, Goto, Clears, Clearing
  <2>17. CASE RmRestored(p)
    BY <2>17, <2>r DEF RmRestored
  <2> QED
    BY <1>4, <2>1, <2>2, <2>3, <2>4, <2>5, <2>6, <2>7, <2>8, <2>9,
       <2>10, <2>11, <2>12, <2>13, <2>14, <2>15, <2>16, <2>17 DEF Step
<1> QED
  BY <1>0, <1>1, <1>2, <1>3, <1>4

\* A process that keeps the token of a file it moved goes on verifying it.
LEMMA MovedStep ==
    ASSUME TypeOK, NEW p \in Proc, Begin(p) \/ Release(p) \/ Step(p) \/ Crash(p),
           NEW F \in Target, Moved(p, F), tok'[p][F] # None
    PROVE  Moved(p, F)'
<1> USE DEF TypeOK, Moved
<1>1. ~Removed(p)
  BY DEF Removed
<1>2. ~Crash(p)
  BY DEF Crash
<1> QED
  BY <1>1, <1>2 DEF Begin, Release, Step, At, ScanRefuses, ScanPasses, Reap, NoTakeover,
       CaptureRefuses, CaptureStale, StaleRename, StaleVerify, StaleUnlink, Ensure,
       Create, CreateOccupied, Write, Recheck, RmRename, RmVerify, RmRestored, Goto

\* Named, of one process and one name.
Names(p, F) == tok[p][F] # None =>
    /\ quar[F][tok[p][F]] \in {None, tok[p][F]}
    /\ quar[F][tok[p][F]] # None => Moved(p, F)

LEMMA NamedStep ==
    ASSUME Inv, Owned, Care, [Next]_vars
    PROVE  Named'
<1> USE DEF Inv
<1>1. CASE UNCHANGED vars
  BY <1>1 DEF Care, Named, Moved, vars, disk, local
<1>2. ASSUME NEW p \in Proc, Begin(p) \/ Release(p) \/ Step(p) \/ Crash(p),
             NEW q \in alive', NEW F \in Target, tok'[q][F] # None
      PROVE  Names(q, F)'
  <2>1. q \in alive /\ q \in Proc
    BY <1>2 DEF TypeOK, disk, Begin, Release, Crash, Step, ScanRefuses, ScanPasses, Reap,
         NoTakeover, CaptureRefuses, CaptureStale, StaleRename, StaleVerify, StaleUnlink,
         Ensure, Create, CreateOccupied, Write, Recheck, RmRename, RmVerify, RmRestored
  <2>2. CASE tok'[q][F] # tok[q][F]
    <3>1. q = p
      BY <1>2, <2>1, <2>2, Alone DEF Mine
    <3>2. Create(p) /\ Fresh(tok'[q][F])
      BY <1>2, <2>2, <3>1, TokenStep
    <3> QED
      BY <1>2, <3>2 DEF Create, Fresh, Names
  <2>3. CASE tok'[q][F] = tok[q][F]
    <3>1. PICK t : t = tok[q][F]
      OBVIOUS
    <3>2. t \in Token /\ Owner(t) = q
      BY <1>2, <2>1, <2>3, <3>1 DEF TypeOK, OwnTokens
    <3>3. quar[F][t] \in {None, t} /\ (quar[F][t] # None => Moved(q, F))
      BY <1>2, <2>1, <2>3, <3>1 DEF Care, Named
    <3>4. Moved(q, F) => Moved(q, F)'
      <4>1. CASE q = p
        BY <1>2, <4>1, MovedStep
      <4>2. CASE q # p
        BY <1>2, <2>1, <4>2, Alone DEF Mine, Moved
      <4> QED
        BY <4>1, <4>2
    <3>5. CASE quar'[F][t] = quar[F][t]
      BY <2>3, <3>1, <3>3, <3>4, <3>5 DEF Names
    <3>6. CASE quar'[F][t] # quar[F][t]
      <4>1. Quarantines(p, F, t)
        BY <1>2, <3>2, <3>6, QuarantineStep
      <4>2. ~(StaleRename(p) /\ t = captured[p])
        BY <2>1, <3>2 DEF StaleRename, At, Capture
      <4>3. CASE quar'[F][t] = None
        BY <2>3, <3>1, <4>3 DEF Names
      <4>4. CASE RmRename(p) /\ F = tgt[p] /\ t = tok[p][F] /\ quar'[F][t] = pub[F]
        <5>1. p = q /\ pc[p] = "rmRename" /\ p \in alive
          BY <1>2, <2>1, <3>2, <4>4, TokenFacts DEF RmRename, At, OwnTokens
        <5>2. pub[F] = t
          BY <3>2, <4>4, <5>1, TokenFacts DEF Published, Moved
        <5>3. Moved(q, F)'
          BY <1>2, <3>2, <4>4, <5>1, <5>2, TokenFacts
            DEF RmRename, Removed, Moved, Goto, TypeOK
        <5> QED
          BY <2>3, <3>1, <4>4, <5>2, <5>3 DEF Names
      <4> QED
        BY <4>1, <4>2, <4>3, <4>4 DEF Quarantines
    <3> QED
      BY <3>5, <3>6
  <2> QED
    BY <2>2, <2>3
<1> QED
  BY <1>1, <1>2 DEF Next, Named, Names

LEMMA CareStep == Inv /\ Owned /\ Care /\ [Next]_vars => Care'
BY RestingStep, ClearingStep, NamedStep DEF Inv, Care

\* Nobody comes to care for a file that is already there.
LEMMA NoNewCare ==
    ASSUME TypeOK, [Next]_vars, NEW F \in Target, NEW t \in Token, Owner(t) \in Proc,
           ~Fresh(t), InCare(F, t)'
    PROVE  InCare(F, t)
<1> USE DEF TypeOK, InCare
<1>1. CASE UNCHANGED vars
  BY <1>1 DEF vars, local
<1>2. ASSUME NEW p \in Proc, Begin(p) \/ Release(p) \/ Step(p) \/ Crash(p)
      PROVE  InCare(F, t)
  <2>1. alive' \subseteq alive
    BY <1>2 DEF disk, Begin, Release, Crash, Step, ScanRefuses, ScanPasses, Reap,
         NoTakeover, CaptureRefuses, CaptureStale, StaleRename, StaleVerify, StaleUnlink,
         Ensure, Create, CreateOccupied, Write, Recheck, RmRename, RmVerify, RmRestored
  <2>2. CASE Owner(t) = p
    <3>1. tok'[p][F] \in {None, tok[p][F]} \/ Fresh(tok'[p][F])
      BY <1>2, TokenStep
    <3>2. tok'[p][F] = t /\ t # None
      BY <2>2, TokenFacts
    <3> QED
      BY <2>1, <2>2, <3>1, <3>2
  <2>3. CASE Owner(t) # p
    BY <1>2, <2>1, <2>3, Alone DEF Mine
  <2> QED
    BY <2>2, <2>3
<1> QED
  BY <1>1, <1>2 DEF Next

\* Where nobody may recover, a file without its owner's care stays in the way.
LEMMA StrandedStays ==
    ASSUME Inv, Owned, Care, [Next]_vars, MayClear = {}, Stranded
    PROVE  Stranded'
<1> USE DEF Inv
<1>1. CASE UNCHANGED vars
  BY <1>1 DEF Stranded, InCare, Entries, vars, disk, local
<1>2. ASSUME NEW p \in Proc, Begin(p) \/ Release(p) \/ Step(p) \/ Crash(p)
      PROVE  Stranded'
  <2>1. ~Reap(p) /\ ~StaleRename(p) /\ ~StaleUnlink(p)
    BY DEF Care, Clearing, Reap, StaleRename, StaleUnlink, At
  <2>2. ASSUME NEW t \in Token, ~Fresh(t), ~InCare("main", t)
        PROVE  ~InCare("main", t)'
    BY <2>2, NoNewCare, TokenFacts DEF Target
  <2>3. CASE pub["main"] # None /\ ~InCare("main", pub["main"])
    <3>1. PICK t : t = pub["main"]
      OBVIOUS
    <3>2. t \in Token /\ t # None /\ ~Fresh(t) /\ ~InCare("main", t)
      BY <2>3, <3>1 DEF TypeOK, Fresh, Target
    <3>3. ~InCare("main", t)'
      BY <2>2, <3>2
    <3>4. ~(RmRename(p) /\ tgt[p] = "main")
      <4>1. SUFFICES ASSUME RmRename(p), tgt[p] = "main" PROVE FALSE
        OBVIOUS
      <4>2. p \in alive /\ tok[p]["main"] # None /\ pc[p] = "rmRename"
        BY <4>1 DEF RmRename, At, Owned
      <4>3. tok[p]["main"] = t /\ Owner(t) = p
        BY <3>1, <4>1, <4>2 DEF Published, Moved, OwnTokens, Target
      <4> QED
        BY <3>2, <4>2, <4>3 DEF InCare
    <3>5. pub'["main"] = t
      BY <1>2, <2>1, <3>1, <3>2, <3>4 DEF TypeOK, Target, disk, Begin, Release, Crash, Step,
         ScanRefuses, ScanPasses, NoTakeover, CaptureRefuses, CaptureStale, StaleVerify,
         Ensure, Create, CreateOccupied, Write, Recheck, RmRename, RmVerify, RmRestored
    <3> QED
      BY <3>2, <3>3, <3>5 DEF Stranded
  <2>4. ASSUME NEW n \in Entries("main"), ~InCare("main", quar["main"][n])
        PROVE  Stranded'
    <3>1. PICK t : t = quar["main"][n]
      OBVIOUS
    <3>2. n \in Token /\ t \in Token /\ t # None /\ ~Fresh(t) /\ ~InCare("main", t)
      BY <2>4, <3>1 DEF TypeOK, Entries, Fresh, Target
    <3>3. ~InCare("main", t)'
      BY <2>2, <3>2
    <3>4. ~(p \in alive /\ tok[p]["main"] = n)
      <4>1. SUFFICES ASSUME p \in alive, tok[p]["main"] = n PROVE FALSE
        OBVIOUS
      <4>2. n # None /\ Owner(n) = p
        BY <3>2, <4>1, TokenFacts DEF OwnTokens, Target
      <4>3. t = n
        BY <3>1, <3>2, <4>1, <4>2 DEF Care, Named, Target
      <4> QED
        BY <3>2, <4>1, <4>2, <4>3 DEF InCare
    <3>5. quar'["main"][n] = t
      <4>1. ~Quarantines(p, "main", n)
        BY <2>1, <3>4 DEF Quarantines, RmRename, RmVerify, RmRestored, At
      <4> QED
        BY <1>2, <3>1, <3>2, <4>1, QuarantineStep DEF Target
    <3> QED
      BY <3>2, <3>3, <3>5 DEF Stranded, Entries
  <2> QED
    BY <2>3, <2>4 DEF Stranded
<1> QED
  BY <1>1, <1>2 DEF Next

\* acquire returns only past its second look at the quarantines.
LEMMA HolderStarts ==
    ASSUME Inv, Owned, Care, [Next]_vars, NEW p \in Proc, ~Holds(p), Holds(p)'
    PROVE  /\ ~Stranded
           /\ \A q \in Proc : ~Holds(q)
<1> USE DEF Inv
<1>1. Recheck(p) /\ tgt[p] = "main"
  <2>1. CASE UNCHANGED vars
    BY <2>1 DEF Holds, vars, local
  <2>2. ASSUME NEW q \in Proc, Begin(q) \/ Release(q) \/ Step(q) \/ Crash(q), q # p
        PROVE  FALSE
    <3>1. p \in alive
      BY <2>2 DEF Holds, disk, Begin, Release, Crash, Step, ScanRefuses, ScanPasses, Reap,
         NoTakeover, CaptureRefuses, CaptureStale, StaleRename, StaleVerify, StaleUnlink,
         Ensure, Create, CreateOccupied, Write, Recheck, RmRename, RmVerify, RmRestored
    <3> QED
      BY <2>2, <3>1, Alone DEF Mine, Holds
  <2>3. ~Begin(p)
    BY DEF Begin, At, Goto, Care, Resting, Holds, TypeOK, Target
  <2>4. ~Release(p)
    BY DEF Release, At, Holds, TypeOK
  <2>5. ~Crash(p)
    BY DEF Crash, Holds, TypeOK
  <2>6. ~Fail(p)
    BY DEF Fail, Goto, Holds, TypeOK, Target
  <2>7. ~(p \in alive /\ Removed(p))
    BY DEF Removed, Goto, Holds, TypeOK, Target
  <2>8. CASE Step(p) /\ ~Recheck(p)
    <3>1. p \in alive
      BY <2>8 DEF Step, At, ScanRefuses, ScanPasses, Reap,
         NoTakeover, CaptureRefuses, CaptureStale, StaleRename, StaleVerify, StaleUnlink,
         Ensure, Create, CreateOccupied, Write, Recheck, RmRename, RmVerify, RmRestored
    <3>2. ASSUME UNCHANGED <<tgt, tok>>, pc'[p] # "held" PROVE FALSE
      BY <3>1, <3>2 DEF Holds
    <3>3. ~ScanPasses(p) /\ ~Reap(p)
      BY <2>6, <3>2 DEF ScanPasses, Reap, Goto, Resolved, TypeOK
    <3>4. ~NoTakeover(p)
      BY DEF NoTakeover, Goto, Holds, TypeOK, At
    <3>5. ~CaptureStale(p) /\ ~StaleRename(p) /\ ~StaleVerify(p) /\ ~StaleUnlink(p) /\ ~Ensure(p)
      BY <2>6, <3>2 DEF CaptureStale, StaleRename, StaleVerify, StaleUnlink, Ensure, Goto, TypeOK
    <3>6. ~Create(p)
      <4>1. SUFFICES ASSUME Create(p) PROVE FALSE
        OBVIOUS
      <4>2. pc'[p] = "write" /\ tgt'[p] = tgt[p]
        BY <4>1 DEF Create, Goto, TypeOK
      <4>3. tgt[p] = "takeover"
        BY <4>2 DEF Holds
      <4>4. tok'[p]["main"] = tok[p]["main"]
        BY <4>1, <4>3 DEF Create, TypeOK, Target
      <4> QED
        BY <3>1, <4>3, <4>4 DEF Holds
    <3>7. ~CreateOccupied(p)
      BY <2>6, <3>2 DEF CreateOccupied, Goto, TypeOK
    <3>8. ~Write(p)
      BY <2>6, <3>1, <3>2 DEF Write, Abandon, Goto, TypeOK, Holds, Target
    <3>9. ~RmRename(p) /\ ~RmVerify(p) /\ ~RmRestored(p)
      BY <2>7, <3>1, <3>2 DEF RmRename, RmVerify, RmRestored, Goto, TypeOK
    <3> QED
      BY <2>6, <2>8, <3>3, <3>4, <3>5, <3>6, <3>7, <3>8, <3>9
        DEF Step, ScanRefuses, CaptureRefuses
  <2>9. CASE Recheck(p) /\ tgt[p] = "takeover"
    BY <2>9 DEF Recheck, At, Abandon, Goto, TypeOK, Holds, Target
  <2> QED
    BY <2>1, <2>2, <2>3, <2>4, <2>5, <2>8, <2>9 DEF Next, TypeOK, Target
<1>2. p \in alive /\ pc[p] = "recheck" /\ tok[p]["main"] # None
  BY <1>1 DEF Recheck, At, Owned
<1>3. pub["main"] = tok[p]["main"] /\ Owner(pub["main"]) = p
  BY <1>1, <1>2 DEF Published, Moved, OwnTokens, Target
<1>4. Entries("main") = {}
  BY <1>1 DEF Recheck, Abandon, Goto, Holds, TypeOK
<1>5. ~Stranded
  BY <1>2, <1>3, <1>4 DEF Stranded, InCare
<1>6. ASSUME NEW q \in Proc, Holds(q) PROVE FALSE
  BY <1>3, <1>6, Excludes DEF HolderPublished, OwnTokens, Holds, Target
<1> QED
  BY <1>5, <1>6

\* The lock of the model of the files is a lock: what a step of any process
\* does to the files is at most one step of ExclusiveLock.
LEMMA LockStep ==
    ASSUME Inv, Owned, Care, [Next]_vars, Inv'
    PROVE  [Lock!Next]_holder
<1>1. \A p, q \in Proc : Holds(p) /\ Holds(q) => p = q
  BY Excludes DEF MutualExclusion
<1>2. \A p, q \in Proc : Holds(p)' /\ Holds(q)' => p = q
  <2>1. (Inv => MutualExclusion)'
    BY Excludes, PTL
  <2> QED
    BY <2>1 DEF MutualExclusion
<1>3. CASE \E p \in Proc : Holds(p)'
  <2>1. PICK p \in Proc : Holds(p)'
    BY <1>3
  <2>2. holder' = p
    BY <1>2, <2>1 DEF holder
  <2>3. CASE Holds(p)
    BY <1>1, <2>2, <2>3 DEF holder
  <2>4. CASE ~Holds(p)
    <3>1. holder = "free"
      BY <2>1, <2>4, HolderStarts DEF holder
    <3> QED
      BY <2>2, <3>1 DEF Lock!Next, Lock!Acquire
  <2> QED
    BY <2>3, <2>4
<1>4. CASE ~\E p \in Proc : Holds(p)'
  <2>1. holder' = IF Stranded' THEN "stranded" ELSE "free"
    BY <1>4 DEF holder
  <2>2. CASE Stranded'
    BY <2>1, <2>2 DEF Lock!Next, Lock!Strand
  <2>3. CASE ~Stranded'
    <3>1. holder' = "free"
      BY <2>1, <2>3
    <3>2. CASE \E p \in Proc : Holds(p)
      <4>1. PICK p \in Proc : Holds(p)
        BY <3>2
      <4>2. holder = p
        BY <1>1, <4>1 DEF holder
      <4> QED
        BY <3>1, <4>2 DEF Lock!Next, Lock!Release
    <3>3. CASE ~\E p \in Proc : Holds(p)
      <4>1. CASE Stranded
        <5>1. MayClear # {}
          BY <2>3, <4>1, StrandedStays
        <5> QED
          BY <3>1, <3>3, <4>1, <5>1 DEF holder, Lock!Next, Lock!Recover
      <4>2. CASE ~Stranded
        BY <3>1, <3>3, <4>2 DEF holder
      <4> QED
        BY <4>1, <4>2
    <3> QED
      BY <3>2, <3>3
  <2> QED
    BY <2>2, <2>3
<1> QED
  BY <1>3, <1>4

\* As long as recoveries do not overlap, the files implement the lock that the
\* writers of the repository rely on: free, held by one process, or stranded,
\* never taken over from a holder or out of a stranded state, and freed from it
\* only where an explicit recovery exists.
THEOREM FilesAreALock == ~Overlap => (Spec => ImplementsExclusiveLock)
<1> SUFFICES ASSUME ~Overlap PROVE Spec => ImplementsExclusiveLock
  OBVIOUS
<1>1. Init => Inv /\ Owned /\ Care
  <2>1. Init => Care
    BY DEF Init, Care, Resting, Clearing, Named
  <2> QED
    BY <2>1, InvInit
<1>2. Init => Lock!Init
  <2>1. ASSUME Init PROVE ~Stranded /\ \A p \in Proc : ~Holds(p)
    BY <2>1 DEF Init, Stranded, Entries, Holds, Target
  <2> QED
    BY <2>1 DEF Lock!Init, holder
<1>3. Inv /\ Owned /\ Care /\ [Next]_vars => Inv' /\ Owned' /\ Care' /\ [Lock!Next]_holder
  BY InvStep, CareStep, LockStep
<1> QED
  BY <1>1, <1>2, <1>3, PTL DEF Spec, ImplementsExclusiveLock, Lock!Spec
==============================================================================

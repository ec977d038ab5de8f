------------------------------ MODULE FolderProofs -----------------------------
(***************************************************************************)
(* For any contents, processes, bounds, kills and damage: what a session   *)
(* or a draft of Ingestion names is in a store; at the end, what Folder    *)
(* keeps of both models.                                                   *)
(*                                                                         *)
(* The argument: the text of a bundle is stored before a session is linked *)
(* and nothing is ever taken out of a store, so it is enough to know from  *)
(* which step on each call may rely on the text it is about (Relies). That *)
(* an original has its Asset follows from the order of its two writes and  *)
(* from the first binding of an Asset staying.                             *)
(***************************************************************************)
EXTENDS Folder, AssetLifecycleProofs

-----------------------------------------------------------------------------
(* The invariant *)

\* What p works on, step by step: registrations have an Asset and where it is
\* from, preparations and drafts a bundle, and a session to be linked its end.
Registers(p) == step[p] \in {"found", "text", "registry", "original"}
Prepares(p) == step[p] \in {"extracted", "ready", "extraction", "cleanup", "stage", "link",
                          "unstage", "bundle", "publish"}

Carries(p) ==
    /\ Registers(p) => /\ work[p].asset \in I!Material /\ work[p].origin \in I!Origin
                       /\ work[p].origin = "text" => work[p].asset \in Prose
    /\ Prepares(p) => work[p].bundle \in I!Bundle
    /\ step[p] \in {"link", "unstage"} => work[p].expires \in 0 .. MaxTime + Ttl
InHand == \A p \in Proc : Carries(p)

\* The text a bundle names is in a store.
Found(b) == b[2] # None => I!Located(b[2])

\* Every step from the one that stored the text on may rely on it, and so may
\* whoever reads the session, or what was drafted from it.
Relies(p) ==
    /\ Prepares(p)
    /\ step[p] \in {"ready", "extraction"} => work[p].bundle[1] \notin Image
Findable ==
    /\ \A p \in Proc : Relies(p) => Found(work[p].bundle)
    /\ \A b \in I!Bundle : sessions[b] # 0 => Found(b)
    /\ \A t \in cited : I!Located(t)

\* An original is stored only for a file that was registered.
FromFiles ==
    /\ \A p \in Proc : step[p] = "original" => I!Registered(work[p].asset, "file")
    /\ \A c \in I!Material : store["originals"][c] # "none" => I!Registered(c, "file")

\* An Asset registered as text is one.
Texts == \A c \in I!Material : I!Registered(c, "text") => c \in Prose

IngestionInv == I!TypeOK /\ InHand /\ Findable /\ FromFiles /\ Texts

-----------------------------------------------------------------------------
(* Steps of a process, and of everything else *)

Acts(p) ==
    \/ I!FindPdf(p) \/ I!Continue(p) \/ I!FailPrepare(p) \/ I!Fail(p) \/ I!Crash(p)
    \/ \E c \in I!Material : I!RegisterText(p, c) \/ I!RegisterFile(p, c)
                           \/ I!PreparePdf(p, c) \/ I!PrepareText(p, c)
    \/ \E b \in I!Bundle : I!PrepareFile(p, b) \/ I!ReadBundle(p, b)

World ==
    \/ I!CleanupCommand \/ I!ChangeFile \/ I!Tick
    \/ \E s \in I!Place, c \in I!Material : I!Damage(s, c)

LEMMA NextActs == I!Next <=> World \/ \E p \in Proc : Acts(p)
BY DEF I!Next, World, Acts

\* A step leaves what the other processes are at and what they work on.
Others(p) == \A q \in Proc \ {p} : step'[q] = step[q] /\ work'[q] = work[q]

LEMMA OthersStay == ASSUME I!TypeOK, NEW p \in Proc, Acts(p) PROVE Others(p)
<1> USE DEF I!TypeOK, Others
<1>1. CASE I!FindPdf(p)
  BY <1>1 DEF I!FindPdf, I!Goto, I!Set, I!End, I!Prepare
<1>2. CASE I!RegisterPdf(p)
  BY <1>2 DEF I!RegisterPdf, I!Goto, I!Set, I!End, I!Prepare
<1>3. CASE I!StoreText(p)
  BY <1>3 DEF I!StoreText, I!Goto, I!Set, I!End, I!Prepare
<1>4. CASE I!WriteRegistry(p)
  BY <1>4 DEF I!WriteRegistry, I!Goto, I!Set, I!End, I!Prepare
<1>5. CASE I!StoreOriginal(p)
  BY <1>5 DEF I!StoreOriginal, I!Goto, I!Set, I!End, I!Prepare
<1>6. CASE I!Extracted(p)
  BY <1>6 DEF I!Extracted, I!Goto, I!Set, I!End, I!Prepare
<1>7. CASE I!EnterPrepare(p)
  BY <1>7 DEF I!EnterPrepare, I!Goto, I!Set, I!End, I!Prepare
<1>8. CASE I!StoreExtraction(p)
  BY <1>8 DEF I!StoreExtraction, I!Goto, I!Set, I!End, I!Prepare
<1>9. CASE I!Cleanup(p)
  BY <1>9 DEF I!Cleanup, I!Goto, I!Set, I!End, I!Prepare
<1>10. CASE I!Stage(p)
  BY <1>10 DEF I!Stage, I!Goto, I!Set, I!End, I!Prepare
<1>11. CASE I!Link(p)
  BY <1>11 DEF I!Link, I!Goto, I!Set, I!End, I!Prepare
<1>12. CASE I!Unstage(p)
  BY <1>12 DEF I!Unstage, I!Goto, I!Set, I!End, I!Prepare
<1>13. CASE I!EnterDraft(p)
  BY <1>13 DEF I!EnterDraft, I!Goto, I!Set, I!End, I!Prepare
<1>14. CASE I!PublishDraft(p)
  BY <1>14 DEF I!PublishDraft, I!Goto, I!Set, I!End, I!Prepare
<1>15. CASE I!FailPrepare(p)
  BY <1>15 DEF I!FailPrepare, I!Goto, I!Set, I!End, I!Prepare
<1>16. CASE I!Fail(p)
  BY <1>16 DEF I!Fail, I!Goto, I!Set, I!End, I!Prepare
<1>17. CASE I!Crash(p)
  BY <1>17 DEF I!Crash, I!Goto, I!Set, I!End, I!Prepare
<1>18. ASSUME NEW c \in I!Material, I!RegisterText(p, c) PROVE Others(p)
  BY <1>18 DEF I!RegisterText, I!Goto, I!Set, I!End, I!Prepare
<1>19. ASSUME NEW c \in I!Material, I!RegisterFile(p, c) PROVE Others(p)
  BY <1>19 DEF I!RegisterFile, I!Goto, I!Set, I!End, I!Prepare
<1>20. ASSUME NEW c \in I!Material, I!PreparePdf(p, c) PROVE Others(p)
  BY <1>20 DEF I!PreparePdf, I!Goto, I!Set, I!End, I!Prepare
<1>21. ASSUME NEW c \in I!Material, I!PrepareText(p, c) PROVE Others(p)
  BY <1>21 DEF I!PrepareText, I!Goto, I!Set, I!End, I!Prepare
<1>22. ASSUME NEW b \in I!Bundle, I!PrepareFile(p, b) PROVE Others(p)
  BY <1>22 DEF I!PrepareFile, I!Goto, I!Set, I!End, I!Prepare
<1>23. ASSUME NEW b \in I!Bundle, I!ReadBundle(p, b) PROVE Others(p)
  BY <1>23 DEF I!ReadBundle, I!Goto, I!Set, I!End, I!Prepare
<1> QED
  BY <1>1, <1>2, <1>3, <1>4, <1>5, <1>6, <1>7, <1>8, <1>9,
     <1>10, <1>11, <1>12, <1>13, <1>14, <1>15, <1>16, <1>17, <1>18,
     <1>19, <1>20, <1>21, <1>22, <1>23 DEF Acts, I!Continue

LEMMA WorldStays == World => UNCHANGED <<step, work, registry, cited>>
BY DEF World, I!CleanupCommand, I!ChangeFile, I!Tick, I!Damage, I!evidence, I!runtime

\* Nothing takes a file out of a store, an Asset out of the registry, or
\* changes where it is from.
Grows ==
    /\ \A s \in I!Place, c \in I!Material : store[s][c] # "none" => store'[s][c] # "none"
    /\ \A c \in I!Material : registry[c] # None => registry'[c] = registry[c]

LEMMA StoresGrow == ASSUME I!TypeOK, I!Next PROVE Grows
<1> USE DEF I!TypeOK, Grows
<1>w. CASE World
  <2>1. ASSUME NEW s \in I!Place, NEW c \in I!Material, I!Damage(s, c) PROVE Grows
    BY <2>1 DEF I!Damage
  <2>2. CASE I!CleanupCommand \/ I!ChangeFile \/ I!Tick
    BY <2>2 DEF I!CleanupCommand, I!ChangeFile, I!Tick, I!evidence
  <2> QED
    BY <1>w, <2>1, <2>2 DEF World
<1>p. ASSUME NEW p \in Proc, Acts(p) PROVE Grows
  <2>1. CASE I!FindPdf(p)
    BY <2>1 DEF I!FindPdf, I!Write, I!Prepare, I!evidence
  <2>2. CASE I!RegisterPdf(p)
    BY <2>2 DEF I!RegisterPdf, I!Write, I!Prepare, I!evidence
  <2>3. CASE I!StoreText(p)
    BY <2>3 DEF I!StoreText, I!Write, I!Prepare, I!evidence
  <2>4. CASE I!WriteRegistry(p)
    BY <2>4 DEF I!WriteRegistry, I!Write, I!Prepare, I!evidence
  <2>5. CASE I!StoreOriginal(p)
    BY <2>5 DEF I!StoreOriginal, I!Write, I!Prepare, I!evidence
  <2>6. CASE I!Extracted(p)
    BY <2>6 DEF I!Extracted, I!Write, I!Prepare, I!evidence
  <2>7. CASE I!EnterPrepare(p)
    BY <2>7 DEF I!EnterPrepare, I!Write, I!Prepare, I!evidence
  <2>8. CASE I!StoreExtraction(p)
    BY <2>8 DEF I!StoreExtraction, I!Write, I!Prepare, I!evidence
  <2>9. CASE I!Cleanup(p)
    BY <2>9 DEF I!Cleanup, I!Write, I!Prepare, I!evidence
  <2>10. CASE I!Stage(p)
    BY <2>10 DEF I!Stage, I!Write, I!Prepare, I!evidence
  <2>11. CASE I!Link(p)
    BY <2>11 DEF I!Link, I!Write, I!Prepare, I!evidence
  <2>12. CASE I!Unstage(p)
    BY <2>12 DEF I!Unstage, I!Write, I!Prepare, I!evidence
  <2>13. CASE I!EnterDraft(p)
    BY <2>13 DEF I!EnterDraft, I!Write, I!Prepare, I!evidence
  <2>14. CASE I!PublishDraft(p)
    BY <2>14 DEF I!PublishDraft, I!Write, I!Prepare, I!evidence
  <2>15. CASE I!FailPrepare(p)
    BY <2>15 DEF I!FailPrepare, I!Write, I!Prepare, I!evidence
  <2>16. CASE I!Fail(p)
    BY <2>16 DEF I!Fail, I!Write, I!Prepare, I!evidence
  <2>17. CASE I!Crash(p)
    BY <2>17 DEF I!Crash, I!Write, I!Prepare, I!evidence
  <2>18. ASSUME NEW c \in I!Material, I!RegisterText(p, c) PROVE Grows
    BY <2>18 DEF I!RegisterText, I!Write, I!Prepare, I!evidence
  <2>19. ASSUME NEW c \in I!Material, I!RegisterFile(p, c) PROVE Grows
    BY <2>19 DEF I!RegisterFile, I!Write, I!Prepare, I!evidence
  <2>20. ASSUME NEW c \in I!Material, I!PreparePdf(p, c) PROVE Grows
    BY <2>20 DEF I!PreparePdf, I!Write, I!Prepare, I!evidence
  <2>21. ASSUME NEW c \in I!Material, I!PrepareText(p, c) PROVE Grows
    BY <2>21 DEF I!PrepareText, I!Write, I!Prepare, I!evidence
  <2>22. ASSUME NEW b \in I!Bundle, I!PrepareFile(p, b) PROVE Grows
    BY <2>22 DEF I!PrepareFile, I!Write, I!Prepare, I!evidence
  <2>23. ASSUME NEW b \in I!Bundle, I!ReadBundle(p, b) PROVE Grows
    BY <2>23 DEF I!ReadBundle, I!Write, I!Prepare, I!evidence
  <2> QED
    BY <1>p, <2>1, <2>2, <2>3, <2>4, <2>5, <2>6, <2>7, <2>8, <2>9,
       <2>10, <2>11, <2>12, <2>13, <2>14, <2>15, <2>16, <2>17, <2>18,
       <2>19, <2>20, <2>21, <2>22, <2>23 DEF Acts, I!Continue
<1> QED
  BY <1>w, <1>p, NextActs

-----------------------------------------------------------------------------
(* What a process works on *)

LEMMA NewJobs ==
    /\ \A c, o : [I!NoJob EXCEPT !.asset = c, !.origin = o]
                   = [bundle |-> None, asset |-> c, origin |-> o, expires |-> 0]
    /\ \A b : [I!NoJob EXCEPT !.bundle = b]
                = [bundle |-> b, asset |-> None, origin |-> None, expires |-> 0]
<1>1. \A c : [I!NoJob EXCEPT !.asset = c]
              = [bundle |-> None, asset |-> c, origin |-> None, expires |-> 0]
  BY DEF I!NoJob
<1>2. ASSUME NEW c, NEW o
      PROVE  [I!NoJob EXCEPT !.asset = c, !.origin = o]
               = [bundle |-> None, asset |-> c, origin |-> o, expires |-> 0]
  <2>1. PICK r : r = [I!NoJob EXCEPT !.asset = c]
    OBVIOUS
  <2>2. r = [bundle |-> None, asset |-> c, origin |-> None, expires |-> 0]
    BY <1>1, <2>1
  <2>3. [r EXCEPT !.origin = o] = [bundle |-> None, asset |-> c, origin |-> o, expires |-> 0]
    BY <2>2
  <2> QED
    BY <2>1, <2>3
<1>3. \A b : [I!NoJob EXCEPT !.bundle = b]
              = [bundle |-> b, asset |-> None, origin |-> None, expires |-> 0]
  BY DEF I!NoJob
<1> QED
  BY <1>2, <1>3

LEMMA EndIsIdle ==
    ASSUME I!TypeOK, NEW p \in Proc, I!End(p)
    PROVE  step'[p] = "idle" /\ step' \in [Proc -> I!Pc] /\ work' \in [Proc -> I!Job]
BY DEF I!TypeOK, I!End, I!Goto, I!Set, I!NoJob, I!Job, I!Pc

\* How long a session lives is known when it is staged.
LEMMA TimesAdd ==
    ASSUME I!IngestionAssumption, I!TypeOK
    PROVE  clock + Ttl \in 0 .. MaxTime + Ttl
BY DEF I!IngestionAssumption, I!TypeOK

LEMMA OwnHand ==
    ASSUME I!IngestionAssumption, I!TypeOK, InHand, Texts, NEW p \in Proc, Acts(p)
    PROVE  Carries(p)'
<1> USE DEF I!TypeOK, InHand, Carries, Registers, Prepares
<1>e. ASSUME I!End(p) PROVE Carries(p)'
  BY <1>e, EndIsIdle
<1>1. CASE I!FindPdf(p)
  BY <1>1, NewJobs, ZenonT(60) DEF I!FindPdf, I!At, I!Goto, I!Set, I!Material, I!Origin
<1>2. CASE I!RegisterPdf(p)
  BY <1>2 DEF I!RegisterPdf, I!At, I!Goto
<1>3. CASE I!StoreText(p)
  BY <1>3 DEF I!StoreText, I!At, I!Goto
<1>4. CASE I!WriteRegistry(p)
  BY <1>4, <1>e DEF I!WriteRegistry, I!At, I!Goto
<1>5. CASE I!StoreOriginal(p)
  BY <1>5, <1>e DEF I!StoreOriginal
<1>6. CASE I!Extracted(p)
  BY <1>6 DEF I!Extracted, I!At, I!Goto
<1>7. CASE I!EnterPrepare(p)
  BY <1>7 DEF I!EnterPrepare, I!At, I!Goto
<1>8. CASE I!StoreExtraction(p)
  BY <1>8 DEF I!StoreExtraction, I!At, I!Goto
<1>9. CASE I!Cleanup(p)
  BY <1>9 DEF I!Cleanup, I!At, I!Goto
<1>10. CASE I!Stage(p)
  BY <1>10, <1>e, TimesAdd DEF I!Stage, I!At, I!Goto, I!Set, I!Job
<1>11. CASE I!Link(p)
  BY <1>11 DEF I!Link, I!At, I!Goto
<1>12. CASE I!Unstage(p)
  BY <1>12, <1>e DEF I!Unstage
<1>13. CASE I!EnterDraft(p)
  BY <1>13 DEF I!EnterDraft, I!At, I!Goto
<1>14. CASE I!PublishDraft(p)
  BY <1>14, <1>e DEF I!PublishDraft
<1>15. CASE I!FailPrepare(p)
  BY <1>15, <1>e DEF I!FailPrepare
<1>16. CASE I!Fail(p)
  BY <1>16, <1>e DEF I!Fail
<1>17. CASE I!Crash(p)
  BY <1>17, <1>e DEF I!Crash
<1>18. ASSUME NEW c \in I!Material, I!RegisterText(p, c) PROVE Carries(p)'
  BY <1>18, NewJobs, ZenonT(60) DEF I!RegisterText, I!At, I!Goto, I!Set, I!Material, I!Origin
<1>19. ASSUME NEW c \in I!Material, I!RegisterFile(p, c) PROVE Carries(p)'
  BY <1>19, NewJobs, ZenonT(60) DEF I!RegisterFile, I!At, I!Goto, I!Set, I!Material, I!Origin
<1>20. ASSUME NEW c \in I!Material, I!PreparePdf(p, c) PROVE Carries(p)'
  <2>1. <<c, None>> \in I!Bundle
    BY <1>20 DEF I!PreparePdf, I!Bundle, I!Material, I!IngestionAssumption
  <2>2. step'[p] = "extracted" /\ work'[p].bundle = <<c, None>>
    BY <1>20, NewJobs DEF I!PreparePdf, I!Prepare, I!Goto, I!Set
  <2> QED
    BY <2>1, <2>2
<1>21. ASSUME NEW c \in I!Material, I!PrepareText(p, c) PROVE Carries(p)'
  <2>1. <<c, c>> \in I!Bundle
    BY <1>21 DEF I!PrepareText, I!Bundle, Texts
  <2>2. step'[p] = "ready" /\ work'[p].bundle = <<c, c>>
    BY <1>21, NewJobs DEF I!PrepareText, I!Prepare, I!Goto, I!Set
  <2> QED
    BY <2>1, <2>2
<1>22. ASSUME NEW b \in I!Bundle, I!PrepareFile(p, b) PROVE Carries(p)'
  BY <1>22, NewJobs, ZenonT(60) DEF I!PrepareFile, I!At, I!Goto, I!Prepare, I!Set
<1>23. ASSUME NEW b \in I!Bundle, I!ReadBundle(p, b) PROVE Carries(p)'
  BY <1>23, NewJobs DEF I!ReadBundle, I!At, I!Goto, I!Set
<1> QED
  BY <1>1, <1>2, <1>3, <1>4, <1>5, <1>6, <1>7, <1>8, <1>9,
     <1>10, <1>11, <1>12, <1>13, <1>14, <1>15, <1>16, <1>17, <1>18,
     <1>19, <1>20, <1>21, <1>22, <1>23 DEF Acts, I!Continue

-----------------------------------------------------------------------------
(* Texts stay findable *)

LEMMA FoundStays ==
    ASSUME I!TypeOK, Grows, NEW b \in I!Bundle, Found(b)
    PROVE  Found(b)'
<1>1. b[2] # None => b[2] \in I!Material
  BY DEF I!Bundle, I!Material
<1> QED
  BY <1>1 DEF Grows, Found, I!Located

\* The text that a session is of, and the one a supplied text is.
LEMMA BundleOf ==
    ASSUME NEW b \in I!Bundle
    PROVE  /\ b[1] \in I!Material /\ b[2] \in Prose \cup {None}
           /\ b[1] \notin Image => b[2] \in {b[1], None}
BY DEF I!Bundle, I!Material

LEMMA OwnRelies ==
    ASSUME IngestionInv, NEW p \in Proc, Acts(p), Grows
    PROVE  (Relies(p) => Found(work[p].bundle))'
<1> DEFINE Goal == (Relies(p) => Found(work[p].bundle))'
<1> USE DEF Prepares, Relies
<1>i. I!TypeOK /\ (Relies(p) => Found(work[p].bundle)) /\ (Prepares(p) => work[p].bundle \in I!Bundle)
  BY DEF IngestionInv, Findable, InHand, Carries
<1>e. ASSUME I!End(p) PROVE Goal
  BY <1>i, <1>e, EndIsIdle
<1>s. ASSUME Relies(p), work'[p] = work[p] PROVE Goal
  BY <1>i, <1>s, FoundStays
<1>r. ASSUME step'[p] \in {"found", "text", "registry", "original", "extraction"},
             step'[p] = "extraction" => work'[p].bundle[1] \in Image
      PROVE  Goal
  BY <1>r
<1>1. CASE I!FindPdf(p)
  BY <1>1, <1>i, <1>r DEF I!FindPdf, I!At, I!Goto, I!TypeOK
<1>2. CASE I!RegisterPdf(p)
  BY <1>2, <1>i, <1>r DEF I!RegisterPdf, I!At, I!Goto, I!TypeOK
<1>3. CASE I!StoreText(p)
  BY <1>3, <1>i, <1>r DEF I!StoreText, I!At, I!Goto, I!TypeOK
<1>4. CASE I!WriteRegistry(p)
  BY <1>4, <1>i, <1>e, <1>r DEF I!WriteRegistry, I!At, I!Goto, I!TypeOK
<1>5. CASE I!StoreOriginal(p)
  BY <1>5, <1>e DEF I!StoreOriginal
<1>6. CASE I!Extracted(p)
  <2>1. Relies(p) /\ work' = work
    BY <1>6 DEF I!Extracted, I!At
  <2> QED
    BY <2>1, <1>s
<1>7. CASE I!EnterPrepare(p)
  <2>1. work' = work /\ step[p] = "ready"
    BY <1>7 DEF I!EnterPrepare, I!At
  <2>2. CASE work[p].bundle[1] \in Image
    <3>1. step'[p] = "extraction"
      BY <1>7, <1>i, <2>2 DEF I!EnterPrepare, I!Goto, I!TypeOK
    <3> QED
      BY <1>r, <2>1, <2>2, <3>1
  <2>3. CASE work[p].bundle[1] \notin Image
    BY <1>s, <2>1, <2>3
  <2> QED
    BY <2>2, <2>3
<1>8. CASE I!StoreExtraction(p)
  <2>1. work' = work /\ work[p].bundle \in I!Bundle
    BY <1>8, <1>i DEF I!StoreExtraction, I!At
  <2>2. work[p].bundle[2] # None => work[p].bundle[2] \in I!Material
    BY <2>1, BundleOf DEF I!Material
  <2>3. work[p].bundle[2] # None => store'["extractions"][work[p].bundle[2]] = "good"
    BY <1>8, <1>i, <2>2 DEF I!StoreExtraction, I!Write, I!TypeOK, I!Place
  <2> QED
    BY <2>1, <2>3 DEF Found, I!Located, I!Place
<1>9. CASE I!Cleanup(p)
  <2>1. Relies(p) /\ work' = work
    BY <1>9 DEF I!Cleanup, I!At
  <2> QED
    BY <2>1, <1>s
<1>10. CASE I!Stage(p)
  <2>1. CASE I!End(p)
    BY <1>e, <2>1
  <2>2. CASE ~I!End(p)
    <3>1. Relies(p) /\ work[p].bundle \in I!Bundle
      BY <1>10, <1>i DEF I!Stage, I!At
    <3>2. work'[p].bundle = work[p].bundle
      BY <1>10, <1>i, <2>2 DEF I!Stage, I!Set, I!TypeOK, I!Job
    <3> QED
      BY <1>i, <3>1, <3>2, FoundStays DEF Found, I!Located
  <2> QED
    BY <2>1, <2>2
<1>11. CASE I!Link(p)
  <2>1. Relies(p) /\ work' = work
    BY <1>11 DEF I!Link, I!At
  <2> QED
    BY <2>1, <1>s
<1>12. CASE I!Unstage(p)
  BY <1>12, <1>e DEF I!Unstage
<1>13. CASE I!EnterDraft(p)
  <2>1. Relies(p) /\ work' = work
    BY <1>13 DEF I!EnterDraft, I!At
  <2> QED
    BY <2>1, <1>s
<1>14. CASE I!PublishDraft(p)
  BY <1>14, <1>e DEF I!PublishDraft
<1>15. CASE I!FailPrepare(p)
  BY <1>15, <1>e DEF I!FailPrepare
<1>16. CASE I!Fail(p)
  BY <1>16, <1>e DEF I!Fail
<1>17. CASE I!Crash(p)
  BY <1>17, <1>e DEF I!Crash
<1>18. ASSUME NEW c \in I!Material, I!RegisterText(p, c) PROVE Goal
  BY <1>18, <1>i, <1>r DEF I!RegisterText, I!At, I!Goto, I!TypeOK
<1>19. ASSUME NEW c \in I!Material, I!RegisterFile(p, c) PROVE Goal
  BY <1>19, <1>i, <1>r DEF I!RegisterFile, I!At, I!Goto, I!TypeOK
<1>20. ASSUME NEW c \in I!Material, I!PreparePdf(p, c) PROVE Goal
  <2>1. work'[p].bundle = <<c, None>>
    BY <1>20, <1>i, NewJobs DEF I!PreparePdf, I!Prepare, I!Set, I!TypeOK
  <2> QED
    BY <2>1 DEF Found
<1>21. ASSUME NEW c \in I!Material, I!PrepareText(p, c) PROVE Goal
  <2>1. work'[p].bundle = <<c, c>> /\ store' = store
    BY <1>21, <1>i, NewJobs DEF I!PrepareText, I!Prepare, I!Set, I!TypeOK, I!evidence
  <2>2. store'["snapshots"][c] = "good"
    BY <1>21, <2>1 DEF I!PrepareText, I!Intact
  <2> QED
    BY <2>1, <2>2 DEF Found, I!Located, I!Place
<1>22. ASSUME NEW b \in I!Bundle, I!PrepareFile(p, b) PROVE Goal
  <2>1. work'[p].bundle = b /\ store' = store /\ step'[p] = "ready"
    BY <1>22, <1>i, NewJobs DEF I!PrepareFile, I!Prepare, I!Set, I!Goto, I!TypeOK, I!evidence
  <2>2. store'["originals"][b[1]] = "good"
    BY <1>22, <2>1 DEF I!PrepareFile, I!Intact
  <2>3. b[1] \notin Image => b[2] \in {b[1], None}
    BY BundleOf
  <2> QED
    BY <2>1, <2>2, <2>3 DEF Found, I!Located, I!Place
<1>23. ASSUME NEW b \in I!Bundle, I!ReadBundle(p, b) PROVE Goal
  <2>1. work'[p].bundle = b
    BY <1>23, <1>i, NewJobs DEF I!ReadBundle, I!Set, I!TypeOK
  <2>2. sessions[b] # 0
    BY <1>23, <1>i DEF I!ReadBundle, I!Live, I!TypeOK
  <2>3. Found(b)'
    BY <1>i, <2>2, FoundStays DEF IngestionInv, Findable
  <2> QED
    BY <2>1, <2>3 DEF Found, I!Located
<1> QED
  BY <1>1, <1>2, <1>3, <1>4, <1>5, <1>6, <1>7, <1>8, <1>9,
     <1>10, <1>11, <1>12, <1>13, <1>14, <1>15, <1>16, <1>17, <1>18,
     <1>19, <1>20, <1>21, <1>22, <1>23 DEF Acts, I!Continue

\* Sessions are only linked by whoever relies on their text.
LEMMA SessionStep ==
    ASSUME IngestionInv, I!Next, Grows, NEW b \in I!Bundle, sessions'[b] # 0
    PROVE  Found(b)'
<1>1. CASE sessions[b] # 0
  BY <1>1, FoundStays DEF IngestionInv, Findable
<1>2. CASE sessions[b] = 0
  <2>1. PICK p \in Proc : I!Link(p)
    BY <1>2 DEF IngestionInv, I!TypeOK, I!Next, I!Continue, I!FindPdf, I!FailPrepare, I!Fail, I!Crash, I!RegisterText,
       I!RegisterFile, I!Prepare, I!PreparePdf, I!PrepareText, I!PrepareFile, I!ReadBundle, I!CleanupCommand,
       I!Cleaned, I!ChangeFile, I!Tick, I!Damage, I!RegisterPdf, I!StoreText, I!WriteRegistry, I!StoreOriginal,
       I!Extracted, I!EnterPrepare, I!StoreExtraction, I!Cleanup, I!Stage, I!Unstage, I!EnterDraft,
       I!PublishDraft, I!runtime
  <2>2. b = work[p].bundle
    BY <1>2, <2>1 DEF IngestionInv, I!TypeOK, I!Link
  <2>3. Found(b)
    BY <2>1, <2>2 DEF I!Link, I!At, IngestionInv, Findable, Relies, Prepares
  <2> QED
    BY <2>3, FoundStays DEF IngestionInv
<1> QED
  BY <1>1, <1>2

LEMMA CitedStep ==
    ASSUME IngestionInv, I!Next, Grows, NEW t \in cited'
    PROVE  I!Located(t)'
<1>1. CASE t \in cited
  <2>1. I!Located(t) /\ t \in I!Material
    BY <1>1 DEF IngestionInv, Findable, I!TypeOK, I!Material
  <2> QED
    BY <2>1 DEF Grows, I!Located
<1>2. CASE t \notin cited
  <2>1. PICK p \in Proc : I!PublishDraft(p)
    BY <1>2 DEF I!Next, I!Continue, I!FindPdf, I!FailPrepare, I!Fail, I!Crash, I!RegisterText,
       I!RegisterFile, I!Prepare, I!PreparePdf, I!PrepareText, I!PrepareFile, I!ReadBundle, I!CleanupCommand,
       I!ChangeFile, I!Tick, I!Damage, I!RegisterPdf, I!StoreText, I!WriteRegistry, I!StoreOriginal,
       I!Extracted, I!EnterPrepare, I!StoreExtraction, I!Cleanup, I!Stage, I!Link, I!Unstage, I!EnterDraft
  <2>2. t = work[p].bundle[2] /\ t # None /\ step[p] = "publish"
    BY <1>2, <2>1 DEF I!PublishDraft, I!At
  <2>3. work[p].bundle \in I!Bundle /\ Found(work[p].bundle)
    BY <2>2 DEF IngestionInv, Findable, Relies, Prepares, InHand, Carries
  <2>4. I!Located(t) /\ t \in I!Material
    BY <2>2, <2>3, BundleOf DEF Found, I!Material
  <2> QED
    BY <2>4 DEF Grows, I!Located
<1> QED
  BY <1>1, <1>2

LEMMA FindableStep == ASSUME IngestionInv, I!Next PROVE Findable'
<1>g. I!TypeOK /\ Grows
  BY StoresGrow DEF IngestionInv
<1>1. ASSUME NEW p \in Proc PROVE (Relies(p) => Found(work[p].bundle))'
  <2>1. CASE Acts(p)
    BY <1>g, <2>1, OwnRelies
  <2>2. CASE step'[p] = step[p] /\ work'[p] = work[p]
    <3>1. Relies(p) => work[p].bundle \in I!Bundle /\ Found(work[p].bundle)
      BY DEF IngestionInv, Findable, InHand, Carries, Relies
    <3> QED
      BY <1>g, <2>2, <3>1, FoundStays DEF Relies, Prepares, Found, I!Located
  <2> QED
    BY <1>g, <2>1, <2>2, NextActs, OthersStay, WorldStays DEF Others
<1> QED
  BY <1>g, <1>1, SessionStep, CitedStep DEF Findable

-----------------------------------------------------------------------------
(* What the registry says *)

\* Only write_asset_registry_record binds an Asset, and only where there is none.
LEMMA RegistryStep ==
    ASSUME I!TypeOK, I!Next, registry' # registry
    PROVE  \E p \in Proc : /\ I!WriteRegistry(p)
                           /\ registry' = [registry EXCEPT ![work[p].asset] = work[p].origin]
<1>1. PICK p \in Proc : I!WriteRegistry(p)
  BY DEF I!Next, I!Continue, I!FindPdf, I!FailPrepare, I!Fail, I!Crash, I!RegisterText,
     I!RegisterFile, I!Prepare, I!PreparePdf, I!PrepareText, I!PrepareFile, I!ReadBundle, I!CleanupCommand,
     I!ChangeFile, I!Tick, I!Damage, I!RegisterPdf, I!StoreText, I!StoreOriginal, I!Extracted, I!EnterPrepare,
     I!StoreExtraction, I!Cleanup, I!Stage, I!Link, I!Unstage, I!EnterDraft, I!PublishDraft, I!evidence
<1> QED
  BY <1>1 DEF I!WriteRegistry

LEMMA TextsStep == ASSUME IngestionInv, I!Next PROVE Texts'
<1>1. CASE registry' = registry
  BY <1>1 DEF IngestionInv, Texts, I!Registered
<1>2. CASE registry' # registry
  <2>1. PICK p \in Proc : /\ I!WriteRegistry(p)
                         /\ registry' = [registry EXCEPT ![work[p].asset] = work[p].origin]
    BY <1>2, RegistryStep DEF IngestionInv
  <2>2. work[p].origin = "text" => work[p].asset \in Prose
    BY <2>1 DEF I!WriteRegistry, I!At, IngestionInv, InHand, Carries, Registers
  <2> QED
    BY <2>1, <2>2 DEF IngestionInv, I!TypeOK, Texts, I!Registered
<1> QED
  BY <1>1, <1>2

LEMMA OwnOriginal ==
    ASSUME IngestionInv, NEW p \in Proc, Acts(p), step'[p] = "original"
    PROVE  I!Registered(work[p].asset, "file")'
<1> DEFINE Goal == I!Registered(work[p].asset, "file")'
<1> USE DEF I!TypeOK
<1>i. I!TypeOK /\ Carries(p)
  BY DEF IngestionInv, InHand
<1>e. ~I!End(p)
  BY <1>i, EndIsIdle
<1>1. CASE I!FindPdf(p)
  BY <1>1, <1>i DEF I!FindPdf, I!Goto
<1>2. CASE I!RegisterPdf(p)
  BY <1>2, <1>i DEF I!RegisterPdf, I!Goto
<1>3. CASE I!StoreText(p)
  BY <1>3, <1>i DEF I!StoreText, I!Goto
<1>4. CASE I!WriteRegistry(p)
  <2>1. /\ registry[work[p].asset] = None /\ work[p].origin = "file" /\ work' = work
        /\ registry' = [registry EXCEPT ![work[p].asset] = work[p].origin]
    BY <1>4, <1>i, <1>e DEF I!WriteRegistry, I!Goto
  <2>2. work[p].asset \in I!Material
    BY <1>4, <1>i DEF I!WriteRegistry, I!At, Carries, Registers
  <2> QED
    BY <1>i, <2>1, <2>2 DEF I!Registered
<1>5. CASE I!StoreOriginal(p)
  BY <1>5, <1>e DEF I!StoreOriginal
<1>6. CASE I!Extracted(p)
  BY <1>6, <1>i DEF I!Extracted, I!Goto
<1>7. CASE I!EnterPrepare(p)
  BY <1>7, <1>i DEF I!EnterPrepare, I!Goto
<1>8. CASE I!StoreExtraction(p)
  BY <1>8, <1>i DEF I!StoreExtraction, I!Goto
<1>9. CASE I!Cleanup(p)
  BY <1>9, <1>i DEF I!Cleanup, I!Goto
<1>10. CASE I!Stage(p)
  BY <1>10, <1>i, <1>e DEF I!Stage, I!Goto
<1>11. CASE I!Link(p)
  BY <1>11, <1>i DEF I!Link, I!Goto
<1>12. CASE I!Unstage(p)
  BY <1>12, <1>e DEF I!Unstage
<1>13. CASE I!EnterDraft(p)
  BY <1>13, <1>i DEF I!EnterDraft, I!Goto
<1>14. CASE I!PublishDraft(p)
  BY <1>14, <1>e DEF I!PublishDraft
<1>15. CASE I!FailPrepare(p)
  BY <1>15, <1>e DEF I!FailPrepare
<1>16. CASE I!Fail(p)
  BY <1>16, <1>e DEF I!Fail
<1>17. CASE I!Crash(p)
  BY <1>17, <1>e DEF I!Crash
<1>18. ASSUME NEW c \in I!Material, I!RegisterText(p, c) PROVE Goal
  BY <1>18, <1>i DEF I!RegisterText, I!Goto
<1>19. ASSUME NEW c \in I!Material, I!RegisterFile(p, c) PROVE Goal
  BY <1>19, <1>i DEF I!RegisterFile, I!Goto
<1>20. ASSUME NEW c \in I!Material, I!PreparePdf(p, c) PROVE Goal
  BY <1>20, <1>i DEF I!PreparePdf, I!Goto, I!Prepare
<1>21. ASSUME NEW c \in I!Material, I!PrepareText(p, c) PROVE Goal
  BY <1>21, <1>i DEF I!PrepareText, I!Goto, I!Prepare
<1>22. ASSUME NEW b \in I!Bundle, I!PrepareFile(p, b) PROVE Goal
  BY <1>22, <1>i DEF I!PrepareFile, I!Goto, I!Prepare
<1>23. ASSUME NEW b \in I!Bundle, I!ReadBundle(p, b) PROVE Goal
  BY <1>23, <1>i DEF I!ReadBundle, I!Goto
<1> QED
  BY <1>1, <1>2, <1>3, <1>4, <1>5, <1>6, <1>7, <1>8, <1>9,
     <1>10, <1>11, <1>12, <1>13, <1>14, <1>15, <1>16, <1>17, <1>18,
     <1>19, <1>20, <1>21, <1>22, <1>23 DEF Acts, I!Continue

LEMMA FromFilesStep == ASSUME I!IngestionAssumption, IngestionInv, I!Next PROVE FromFiles'
<1>g. I!TypeOK /\ Grows
  BY StoresGrow DEF IngestionInv
<1>n. \A c \in I!Material : I!Registered(c, "file") => I!Registered(c, "file")'
  BY <1>g DEF I!IngestionAssumption, I!Registered, Grows, I!Origin
<1>1. ASSUME NEW p \in Proc, step'[p] = "original" PROVE I!Registered(work[p].asset, "file")'
  <2>1. CASE Acts(p)
    BY <1>1, <2>1, OwnOriginal
  <2>2. CASE step'[p] = step[p] /\ work'[p] = work[p]
    <3>1. I!Registered(work[p].asset, "file") /\ work[p].asset \in I!Material
      BY <1>1, <2>2 DEF IngestionInv, FromFiles, InHand, Carries, Registers
    <3> QED
      BY <1>n, <2>2, <3>1 DEF I!Registered
  <2> QED
    BY <1>g, <2>1, <2>2, NextActs, OthersStay, WorldStays DEF Others
<1>2. ASSUME NEW c \in I!Material, store'["originals"][c] # "none" PROVE I!Registered(c, "file")'
  <2>1. CASE store["originals"][c] # "none"
    BY <1>n, <2>1 DEF IngestionInv, FromFiles
  <2>2. CASE store["originals"][c] = "none"
    <3>1. PICK p \in Proc : I!StoreOriginal(p)
      <4>1. ~World
        <5>1. ASSUME NEW s \in I!Place, NEW d \in I!Material, I!Damage(s, d) PROVE FALSE
          BY <1>g, <1>2, <2>2, <5>1 DEF I!TypeOK, I!Place, I!Damage
        <5> QED
          BY <1>2, <2>2, <5>1 DEF World, I!CleanupCommand, I!ChangeFile, I!Tick, I!evidence
      <4>2. PICK p \in Proc : Acts(p)
        BY <4>1, NextActs
      <4>3. ~I!StoreText(p) /\ ~I!StoreExtraction(p)
        BY <1>g, <1>2, <2>2 DEF I!TypeOK, I!Place, I!StoreText, I!StoreExtraction, I!Write
      <4> QED
        BY <1>2, <2>2, <4>2, <4>3 DEF Acts, I!Continue, I!FindPdf, I!FailPrepare, I!Fail, I!Crash,
           I!RegisterText, I!RegisterFile, I!Prepare, I!PreparePdf, I!PrepareText, I!PrepareFile,
           I!ReadBundle, I!RegisterPdf, I!WriteRegistry, I!Extracted, I!EnterPrepare, I!Cleanup, I!Stage,
           I!Link, I!Unstage, I!EnterDraft, I!PublishDraft, I!evidence
    <3>2. c = work[p].asset /\ step[p] = "original" /\ registry' = registry
      BY <1>g, <1>2, <2>2, <3>1 DEF I!TypeOK, I!Place, I!StoreOriginal, I!At, I!Write
    <3> QED
      BY <3>2 DEF IngestionInv, FromFiles, I!Registered
  <2> QED
    BY <2>1, <2>2
<1> QED
  BY <1>1, <1>2 DEF FromFiles

LEMMA HandStep == ASSUME I!IngestionAssumption, IngestionInv, I!Next PROVE InHand'
<1>1. ASSUME NEW p \in Proc PROVE Carries(p)'
  <2>1. CASE Acts(p)
    BY <2>1, OwnHand DEF IngestionInv
  <2>2. CASE step'[p] = step[p] /\ work'[p] = work[p]
    BY <2>2 DEF IngestionInv, InHand, Carries, Registers, Prepares
  <2> QED
    BY <2>1, <2>2, NextActs, OthersStay, WorldStays DEF Others, IngestionInv
<1> QED
  BY <1>1 DEF InHand

-----------------------------------------------------------------------------
(* Types *)

\* A cleanup only removes.
LEMMA CleanedType ==
    ASSUME I!IngestionAssumption, I!TypeOK, I!Cleaned
    PROVE  sessions' \in [I!Bundle -> 0 .. MaxTime + Ttl] /\ staged' \subseteq I!Bundle
<1>1. PICK gone : /\ sessions' = [b \in I!Bundle |->
                         IF <<b, "session">> \in gone THEN 0 ELSE sessions[b]]
                  /\ staged' = {b \in staged : <<b, "temporary">> \notin gone}
  BY DEF I!Cleaned
<1>2. 0 \in 0 .. MaxTime + Ttl
  BY DEF I!IngestionAssumption
<1> QED
  BY <1>1, <1>2 DEF I!TypeOK

LEMMA JobType ==
    ASSUME I!IngestionAssumption, I!TypeOK, InHand, Texts, NEW p \in Proc, Acts(p)
    PROVE  work' \in [Proc -> I!Job] /\ step' \in [Proc -> I!Pc]
<1> DEFINE Goal == work' \in [Proc -> I!Job] /\ step' \in [Proc -> I!Pc]
<1> USE DEF I!TypeOK, I!Pc, I!Locked
<1>e. ASSUME I!End(p) PROVE Goal
  BY <1>e, EndIsIdle
<1>r. ASSUME NEW c \in I!Material, NEW o \in I!Origin,
             I!Set(p, [I!NoJob EXCEPT !.asset = c, !.origin = o])
      PROVE  work' \in [Proc -> I!Job]
  <2>1. [bundle |-> None, asset |-> c, origin |-> o, expires |-> 0] \in I!Job
    BY DEF I!Job
  <2> QED
    BY <1>r, <2>1, NewJobs DEF I!Set
<1>b. ASSUME NEW b \in I!Bundle, I!Set(p, [I!NoJob EXCEPT !.bundle = b])
      PROVE  work' \in [Proc -> I!Job]
  <2>1. [bundle |-> b, asset |-> None, origin |-> None, expires |-> 0] \in I!Job
    BY DEF I!Job
  <2> QED
    BY <1>b, <2>1, NewJobs DEF I!Set
<1>1. CASE I!FindPdf(p)
  BY <1>1, <1>r DEF I!FindPdf, I!Goto, I!Material, I!Origin
<1>2. CASE I!RegisterPdf(p)
  BY <1>2 DEF I!RegisterPdf, I!Goto
<1>3. CASE I!StoreText(p)
  BY <1>3 DEF I!StoreText, I!Goto
<1>4. CASE I!WriteRegistry(p)
  BY <1>4, <1>e DEF I!WriteRegistry, I!Goto
<1>5. CASE I!StoreOriginal(p)
  BY <1>5, <1>e DEF I!StoreOriginal
<1>6. CASE I!Extracted(p)
  BY <1>6 DEF I!Extracted, I!Goto
<1>7. CASE I!EnterPrepare(p)
  BY <1>7 DEF I!EnterPrepare, I!Goto
<1>8. CASE I!StoreExtraction(p)
  BY <1>8 DEF I!StoreExtraction, I!Goto
<1>9. CASE I!Cleanup(p)
  BY <1>9 DEF I!Cleanup, I!Goto
<1>10. CASE I!Stage(p)
  <2>1. CASE I!End(p)
    BY <1>e, <2>1
  <2>2. CASE ~I!End(p)
    <3>1. I!Goto(p, "link") /\ I!Set(p, [work[p] EXCEPT !.expires = clock + Ttl])
      BY <1>10, <2>2 DEF I!Stage
    <3>2. clock + Ttl \in Nat
      BY DEF I!IngestionAssumption
    <3>3. [work[p] EXCEPT !.expires = clock + Ttl] \in I!Job
      BY <3>2 DEF I!Job
    <3> QED
      BY <3>1, <3>3 DEF I!Goto, I!Set
  <2> QED
    BY <2>1, <2>2
<1>11. CASE I!Link(p)
  BY <1>11 DEF I!Link, I!Goto
<1>12. CASE I!Unstage(p)
  BY <1>12, <1>e DEF I!Unstage
<1>13. CASE I!EnterDraft(p)
  BY <1>13 DEF I!EnterDraft, I!Goto
<1>14. CASE I!PublishDraft(p)
  BY <1>14, <1>e DEF I!PublishDraft
<1>15. CASE I!FailPrepare(p)
  BY <1>15, <1>e DEF I!FailPrepare
<1>16. CASE I!Fail(p)
  BY <1>16, <1>e DEF I!Fail
<1>17. CASE I!Crash(p)
  BY <1>17, <1>e DEF I!Crash
<1>18. ASSUME NEW c \in I!Material, I!RegisterText(p, c) PROVE Goal
  BY <1>18, <1>r DEF I!RegisterText, I!Goto, I!Material, I!Origin
<1>19. ASSUME NEW c \in I!Material, I!RegisterFile(p, c) PROVE Goal
  BY <1>19, <1>r DEF I!RegisterFile, I!Goto, I!Material, I!Origin
<1>20. ASSUME NEW c \in I!Material, I!PreparePdf(p, c) PROVE Goal
  <2>1. <<c, None>> \in I!Bundle
    BY <1>20 DEF I!PreparePdf, I!Bundle, I!Material, I!IngestionAssumption
  <2> QED
    BY <1>20, <1>b, <2>1 DEF I!PreparePdf, I!Prepare, I!Goto
<1>21. ASSUME NEW c \in I!Material, I!PrepareText(p, c) PROVE Goal
  <2>1. <<c, c>> \in I!Bundle
    BY <1>21 DEF I!PrepareText, I!Bundle, Texts
  <2> QED
    BY <1>21, <1>b, <2>1 DEF I!PrepareText, I!Prepare, I!Goto
<1>22. ASSUME NEW b \in I!Bundle, I!PrepareFile(p, b) PROVE Goal
  BY <1>22, <1>b DEF I!PrepareFile, I!Prepare, I!Goto
<1>23. ASSUME NEW b \in I!Bundle, I!ReadBundle(p, b) PROVE Goal
  BY <1>23, <1>b DEF I!ReadBundle, I!Goto
<1> QED
  BY <1>1, <1>2, <1>3, <1>4, <1>5, <1>6, <1>7, <1>8, <1>9,
     <1>10, <1>11, <1>12, <1>13, <1>14, <1>15, <1>16, <1>17, <1>18,
     <1>19, <1>20, <1>21, <1>22, <1>23 DEF Acts, I!Continue

\* Who writes the stores, the sessions, the temporary files and the citations.
LEMMA OwnWrites ==
    ASSUME I!TypeOK, NEW p \in Proc, Acts(p)
    PROVE  /\ UNCHANGED clock
           /\ upload' = upload
           /\ UNCHANGED store \/ I!StoreText(p) \/ I!StoreExtraction(p) \/ I!StoreOriginal(p)
           /\ UNCHANGED sessions \/ I!Cleanup(p) \/ I!Stage(p) \/ I!Link(p)
           /\ staged' \subseteq staged \/ I!Cleanup(p) \/ I!Stage(p)
           /\ UNCHANGED cited \/ I!PublishDraft(p)
           /\ keeper' \in {keeper, p, None}
<1>1. UNCHANGED <<clock, upload>>
  BY DEF Acts, I!Continue, I!FindPdf, I!RegisterPdf, I!StoreText, I!WriteRegistry, I!StoreOriginal,
         I!Extracted, I!EnterPrepare, I!StoreExtraction, I!Cleanup, I!Stage, I!Link, I!Unstage,
         I!EnterDraft, I!PublishDraft, I!FailPrepare, I!Fail, I!Crash, I!RegisterText,
         I!RegisterFile, I!PreparePdf, I!PrepareText, I!PrepareFile, I!ReadBundle, I!Prepare
<1>2. UNCHANGED store \/ I!StoreText(p) \/ I!StoreExtraction(p) \/ I!StoreOriginal(p)
  BY DEF Acts, I!Continue, I!FindPdf, I!RegisterPdf, I!WriteRegistry, I!Extracted, I!EnterPrepare,
         I!Cleanup, I!Stage, I!Link, I!Unstage, I!EnterDraft, I!PublishDraft, I!FailPrepare, I!Fail,
         I!Crash, I!RegisterText, I!RegisterFile, I!PreparePdf, I!PrepareText, I!PrepareFile,
         I!ReadBundle, I!Prepare, I!evidence
<1>3. UNCHANGED sessions \/ I!Cleanup(p) \/ I!Stage(p) \/ I!Link(p)
  BY DEF Acts, I!Continue, I!FindPdf, I!RegisterPdf, I!StoreText, I!WriteRegistry, I!StoreOriginal,
         I!Extracted, I!EnterPrepare, I!StoreExtraction, I!Unstage, I!EnterDraft,
         I!PublishDraft, I!FailPrepare, I!Fail, I!Crash, I!RegisterText, I!RegisterFile,
         I!PreparePdf, I!PrepareText, I!PrepareFile, I!ReadBundle, I!Prepare, I!runtime
<1>4. staged' \subseteq staged \/ I!Cleanup(p) \/ I!Stage(p)
  BY DEF Acts, I!Continue, I!FindPdf, I!RegisterPdf, I!StoreText, I!WriteRegistry, I!StoreOriginal,
         I!Extracted, I!EnterPrepare, I!StoreExtraction, I!Link, I!Unstage, I!EnterDraft,
         I!PublishDraft, I!FailPrepare, I!Fail, I!Crash, I!RegisterText, I!RegisterFile,
         I!PreparePdf, I!PrepareText, I!PrepareFile, I!ReadBundle, I!Prepare, I!runtime
<1>5. UNCHANGED cited \/ I!PublishDraft(p)
  BY DEF Acts, I!Continue, I!FindPdf, I!RegisterPdf, I!StoreText, I!WriteRegistry, I!StoreOriginal,
         I!Extracted, I!EnterPrepare, I!StoreExtraction, I!Cleanup, I!Stage, I!Link, I!Unstage,
         I!EnterDraft, I!FailPrepare, I!Fail, I!Crash, I!RegisterText, I!RegisterFile,
         I!PreparePdf, I!PrepareText, I!PrepareFile, I!ReadBundle, I!Prepare
<1>6. keeper' \in {keeper, p, None}
  BY DEF Acts, I!Continue, I!FindPdf, I!RegisterPdf, I!StoreText, I!WriteRegistry, I!StoreOriginal,
         I!Extracted, I!EnterPrepare, I!StoreExtraction, I!Cleanup, I!Stage, I!Link, I!Unstage,
         I!EnterDraft, I!PublishDraft, I!FailPrepare, I!Fail, I!Crash, I!RegisterText,
         I!RegisterFile, I!PreparePdf, I!PrepareText, I!PrepareFile, I!ReadBundle, I!Prepare,
         I!Lock, I!End
<1> QED
  BY <1>1, <1>2, <1>3, <1>4, <1>5, <1>6

LEMMA StoreType ==
    ASSUME I!TypeOK, NEW s \in I!Place, NEW c \in I!Material, NEW x \in {"none", "good", "bad"}
    PROVE  [store EXCEPT ![s][c] = x] \in [I!Place -> [I!Material -> {"none", "good", "bad"}]]
BY DEF I!TypeOK

LEMMA TypeStep == ASSUME I!IngestionAssumption, IngestionInv, I!Next PROVE I!TypeOK'
<1> USE DEF IngestionInv, I!TypeOK
<1>1. registry' \in [I!Material -> I!Origin \cup {None}]
  <2>1. CASE registry' # registry
    <3>1. PICK p \in Proc : /\ I!WriteRegistry(p)
                           /\ registry' = [registry EXCEPT ![work[p].asset] = work[p].origin]
      BY <2>1, RegistryStep
    <3>2. work[p].origin \in I!Origin
      BY <3>1 DEF I!WriteRegistry, I!At, InHand, Carries, Registers
    <3> QED
      BY <3>1, <3>2
  <2> QED
    BY <2>1
<1>2. CASE World
  <2>1. step' \in [Proc -> I!Pc] /\ work' \in [Proc -> I!Job] /\ cited' \in SUBSET Prose
    BY <1>2, WorldStays
  <2>2. ASSUME NEW s \in I!Place, NEW c \in I!Material, I!Damage(s, c) PROVE I!TypeOK'
    <3>1. store' \in [I!Place -> [I!Material -> {"none", "good", "bad"}]]
      BY <2>2, StoreType DEF I!Damage
    <3> QED
      BY <1>1, <2>1, <2>2, <3>1 DEF I!Damage, I!runtime
  <2>3. CASE I!CleanupCommand
    BY <1>1, <2>1, <2>3, CleanedType DEF I!CleanupCommand, I!evidence
  <2>4. CASE I!ChangeFile
    BY <1>1, <2>1, <2>4 DEF I!ChangeFile, I!evidence, I!runtime
  <2>5. CASE I!Tick
    BY <1>1, <2>1, <2>5 DEF I!Tick, I!evidence, I!runtime, I!IngestionAssumption
  <2> QED
    BY <1>2, <2>2, <2>3, <2>4, <2>5 DEF World
<1>3. ASSUME NEW p \in Proc, Acts(p) PROVE I!TypeOK'
  <2>0. Carries(p) /\ work' \in [Proc -> I!Job] /\ step' \in [Proc -> I!Pc]
    BY <1>3, JobType DEF InHand
  <2>1. store' \in [I!Place -> [I!Material -> {"none", "good", "bad"}]]
    <3>1. CASE I!StoreText(p) \/ I!StoreOriginal(p)
      <4>1. work[p].asset \in I!Material
        BY <2>0, <3>1 DEF I!StoreText, I!StoreOriginal, I!At, Carries, Registers
      <4> QED
        BY <3>1, <4>1, StoreType DEF I!StoreText, I!StoreOriginal, I!Write, I!Place
    <3>2. CASE I!StoreExtraction(p)
      <4>1. CASE work[p].bundle[2] \in I!Material
        BY <3>2, <4>1, StoreType DEF I!StoreExtraction, I!Write, I!Place
      <4>2. CASE work[p].bundle[2] \notin I!Material
        BY <3>2, <4>2 DEF I!StoreExtraction, I!Write, I!Place
      <4> QED
        BY <4>1, <4>2
    <3> QED
      BY <1>3, <3>1, <3>2, OwnWrites
  <2>2. sessions' \in [I!Bundle -> 0 .. MaxTime + Ttl] /\ staged' \subseteq I!Bundle
    <3>1. CASE I!Cleanup(p)
      BY <3>1, CleanedType DEF I!Cleanup
    <3>2. CASE I!Stage(p)
      <4>1. work[p].bundle \in I!Bundle
        BY <2>0, <3>2 DEF I!Stage, I!At, Carries, Prepares
      <4>2. 0 \in 0 .. MaxTime + Ttl
        BY DEF I!IngestionAssumption
      <4> QED
        BY <3>2, <4>1, <4>2 DEF I!Stage, I!runtime
    <3>3. CASE I!Link(p)
      <4>1. work[p].expires \in 0 .. MaxTime + Ttl
        BY <2>0, <3>3 DEF I!Link, I!At, Carries
      <4> QED
        BY <3>3, <4>1 DEF I!Link
    <3> QED
      BY <1>3, <3>1, <3>2, <3>3, OwnWrites
  <2>3. cited' \subseteq Prose
    <3>1. CASE I!PublishDraft(p)
      <4>1. work[p].bundle[2] \in Prose \cup {None}
        BY <2>0, <3>1, BundleOf DEF I!PublishDraft, I!At, Carries, Prepares
      <4> QED
        BY <3>1, <4>1 DEF I!PublishDraft
    <3> QED
      BY <1>3, <3>1, OwnWrites
  <2> QED
    BY <1>1, <1>3, <2>0, <2>1, <2>2, <2>3, OwnWrites
<1> QED
  BY <1>2, <1>3, NextActs

-----------------------------------------------------------------------------
(* The theorems *)

LEMMA IngestionInit == ASSUME I!IngestionAssumption, I!Init PROVE IngestionInv
<1>1. I!TypeOK
  <2>1. I!NoJob \in I!Job
    BY DEF I!NoJob, I!Job
  <2> QED
    BY <2>1 DEF I!Init, I!TypeOK, I!IngestionAssumption, I!Pc, I!Place
<1>2. InHand /\ Findable /\ FromFiles /\ Texts
  BY DEF I!Init, InHand, Carries, Registers, Prepares, Relies, Findable, FromFiles, Texts,
     I!Registered, I!Place, I!IngestionAssumption, I!Origin
<1> QED
  BY <1>1, <1>2 DEF IngestionInv

LEMMA IngestionNext ==
    ASSUME I!IngestionAssumption, IngestionInv, I!Next \/ UNCHANGED I!vars
    PROVE  IngestionInv'
<1>1. CASE UNCHANGED I!vars
  BY <1>1 DEF I!vars, I!evidence, I!runtime, IngestionInv, I!TypeOK, InHand, Carries, Registers, Prepares,
     Findable, Relies, Found, I!Located, FromFiles, Texts, I!Registered
<1>2. CASE I!Next
  BY <1>2, TypeStep, HandStep, FindableStep, FromFilesStep, TextsStep DEF IngestionInv
<1> QED
  BY <1>1, <1>2

\* What is in a store is read, unless something damaged it.
LEMMA FoundIsRead ==
    ASSUME IngestionInv, NEW t \in I!Material, I!Located(t), I!Damaged = {}
    PROVE  I!Readable(t) \/ store["snapshots"][t] = "bad"
<1>1. ASSUME NEW s \in {"originals", "extractions"} PROVE store[s][t] # "bad"
  <2>1. PICK f : f = <<s, t>>
    OBVIOUS
  <2>2. f \in {"originals", "extractions"} \X I!Material /\ f[1] = s /\ f[2] = t
    BY <2>1
  <2> QED
    BY <2>2 DEF I!Damaged
<1>2. \A s \in I!Place : store[s][t] \in {"none", "good", "bad"}
  BY DEF IngestionInv, I!TypeOK
<1> QED
  BY <1>1, <1>2 DEF I!Located, I!Readable, I!Place

LEMMA InvResolves ==
    ASSUME I!IngestionAssumption, IngestionInv PROVE I!EvidenceResolves
<1>1. ASSUME NEW t \in I!Named PROVE I!Located(t) /\ t \in I!Material
  BY DEF I!Named, IngestionInv, Findable, Found, I!Material, I!IngestionAssumption
<1>2. I!Orphaned = {}
  BY DEF I!Orphaned, IngestionInv, FromFiles, I!Intact
<1> QED
  BY <1>1, <1>2, FoundIsRead DEF I!EvidenceResolves

\* Every kept value has its kind, for any number of texts, images and processes.
THEOREM IngestionTypes == ASSUME I!IngestionAssumption PROVE I!Spec => []I!TypeOK
<1>1. I!Init => IngestionInv
  BY IngestionInit
<1>2. IngestionInv /\ [I!Next]_I!vars => IngestionInv'
  BY IngestionNext
<1>3. IngestionInv => I!TypeOK
  BY DEF IngestionInv
<1> QED
  BY <1>1, <1>2, <1>3, PTL DEF I!Spec

\* Whatever is killed, fails, expires or changes meanwhile, a text that a
\* prepared session or a draft names is in a store, and can be read unless check
\* reports a damaged file or a snapshot is damaged; and no original is there
\* that no Asset refers to.
THEOREM EvidenceAlwaysResolves ==
    ASSUME I!IngestionAssumption PROVE I!Spec => []I!EvidenceResolves
<1>1. I!Init => IngestionInv
  BY IngestionInit
<1>2. IngestionInv /\ [I!Next]_I!vars => IngestionInv'
  BY IngestionNext
<1>3. IngestionInv => I!EvidenceResolves
  BY InvResolves
<1> QED
  BY <1>1, <1>2, <1>3, PTL DEF I!Spec

-----------------------------------------------------------------------------
(* Folder: both models beside each other *)

FolderInv ==
    /\ focus \in {"assets", "ingestion"}
    /\ Inv
    /\ focus = "ingestion" => IngestionInv

LEMMA FolderInit == InitAll => FolderInv
<1>1. ASSUME Nothing PROVE Inv
  <2>1. NoJob \in Job
    BY DEF NoJob, Job, AssetStatus, Stable
  <2>2. TypeOK
    BY <1>1, <2>1 DEF Nothing, TypeOK, Pc
  <2>3. \A c \in Content : RecordOK(c)
    BY <1>1 DEF Nothing, RecordOK, Registered
  <2>4. \A p \in Proc : Holds(p) /\ AsFound(p)
    BY <1>1 DEF Nothing, Holds, AsFound, Working
  <2> QED
    BY <2>2, <2>3, <2>4 DEF Inv
<1> QED
  BY <1>1, InitInv, IngestionInit, IngestionAssumed DEF InitAll, FolderInv

LEMMA FolderNext == FolderInv /\ [StepAny]_all => FolderInv'
<1> SUFFICES ASSUME FolderInv, [StepAny]_all PROVE FolderInv'
  OBVIOUS
<1>1. UNCHANGED focus
  BY DEF StepAny, all
<1>2. Inv'
  <2>1. [Next]_vars
    BY DEF StepAny, all
  <2> QED
    BY <2>1, NextKeepsInv DEF FolderInv
<1>3. ASSUME focus = "ingestion" PROVE IngestionInv'
  <2>1. I!Next \/ UNCHANGED I!vars
    BY <1>3 DEF StepAny, all, ingesting, I!vars, I!evidence, I!runtime
  <2> QED
    BY <1>3, <2>1, IngestionNext, IngestionAssumed DEF FolderInv
<1> QED
  BY <1>1, <1>2, <1>3 DEF FolderInv

LEMMA FolderHolds == SideBySide => []FolderInv
BY FolderInit, FolderNext, PTL DEF SideBySide

\* Whichever version a knowledge base has, what its commands keep has its kind.
THEOREM FolderTypes == SideBySide => []TypesOK
<1>1. FolderInv => TypesOK
  BY DEF FolderInv, Inv, IngestionInv, TypesOK
<1> QED
  BY <1>1, FolderHolds, PTL

\* What a session or a draft names is in a store, and each original has its
\* Asset: EvidenceAlwaysResolves, of the behaviours that the run checks.
THEOREM FolderEvidence == SideBySide => []EvidenceResolves
<1>1. FolderInv => EvidenceResolves
  BY InvResolves, IngestionAssumed DEF FolderInv, EvidenceResolves
<1> QED
  BY <1>1, FolderHolds, PTL
=============================================================================

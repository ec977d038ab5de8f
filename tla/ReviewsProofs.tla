----------------------------- MODULE ReviewsProofs -----------------------------
(***************************************************************************)
(* For all clones, processes, records, revisions and ids: what Reviews     *)
(* keeps of its three kinds. Everything is proved in ReviewGraphProofs,    *)
(* here of the one clone; T and S are its theorems of the clones that git  *)
(* merges, and of the writers whose queue is scanned.                      *)
(***************************************************************************)
EXTENDS Reviews, ReviewGraphProofs

T == INSTANCE ReviewGraphProofs WITH
    Clone <- Clones, Home <- HomeIn, MayCrash <- {}, Record <- Shared, Acts <- MergeActs,
    Of <- CHOOSE c \in Clones : TRUE, First <- {},
    current <- pointers, bare <- directories, revs <- files, reviews <- decided,
    litter <- leftovers, resolved <- answers, views <- pages, holder <- locked,
    event <- contents, pc <- step, card <- cards, plan <- plans, task <- tasks, new <- ids

S == INSTANCE ReviewGraphProofs WITH
    Proc <- Writers, Home <- Desk, MayCrash <- {},
    Record <- Queued, First <- QueuedFirst, Acts <- WriteActs,
    current <- pointers, bare <- directories, revs <- files, reviews <- decided,
    litter <- leftovers, resolved <- answers, views <- pages, holder <- locked,
    event <- contents, pc <- step, card <- cards, plan <- plans, task <- tasks, new <- ids

-----------------------------------------------------------------------------

\* T is of the same clones as Two: it begins alike.
LEMMA ClonesInit == Two!Init <=> T!Init
BY DEF Two!Init, T!Init, Two!NoCard, T!NoCard, Two!NoTask, T!NoTask

\* T takes the steps of Two.
LEMMA ClonesNext == (Two!Next <=> T!Next) /\ Two!vars = T!vars
<1>1. \A p : Two!Show(p) <=> T!Show(p)
  BY DEF Two!Show, T!Show, Two!At, T!At, Two!Scannable, T!Scannable, Two!Choice, T!Choice,
         Two!NoCard, T!NoCard, Two!Card, T!Card, Two!Goto, T!Goto, Two!repoVars, T!repoVars,
         Two!Readable, T!Readable, Two!Present, T!Present, Two!Confirmed, T!Confirmed,
         Two!Blocked, T!Blocked, Two!Offered, T!Offered, Two!Canonical, T!Canonical,
         Two!EdgesSound, T!EdgesSound, Two!Decision, T!Decision, Two!Expected, T!Expected, Two!On,
         T!On, Two!HeadOf, T!HeadOf, Two!StateOf, T!StateOf, Two!Heads, T!Heads, Two!Outcome,
         T!Outcome, Two!Previous, T!Previous
<1>2. \A p : Two!GiveUp(p) <=> T!GiveUp(p)
  BY DEF Two!GiveUp, T!GiveUp, Two!Goto, T!Goto, Two!Forget, T!Forget, Two!repoVars, T!repoVars,
         Two!NoCard, T!NoCard, Two!NoTask, T!NoTask
<1>3. \A p : Two!EnterReview(p) <=> T!EnterReview(p)
  BY DEF Two!EnterReview, T!EnterReview, Two!At, T!At, Two!Lock, T!Lock, Two!Scannable,
         T!Scannable, Two!Card, T!Card, Two!Planned, T!Planned, Two!Goto, T!Goto, Two!repoVars,
         T!repoVars, Two!procVars, T!procVars, Two!Readable, T!Readable, Two!Present, T!Present,
         Two!Canonical, T!Canonical, Two!Blocked, T!Blocked, Two!EdgesSound, T!EdgesSound,
         Two!Expected, T!Expected, Two!On, T!On, Two!HeadOf, T!HeadOf, Two!StateOf, T!StateOf,
         Two!Heads, T!Heads, Two!Outcome, T!Outcome, Two!Previous, T!Previous
<1>4. \A p : Two!EnterResolve(p) <=> T!EnterResolve(p)
  BY DEF Two!EnterResolve, T!EnterResolve, Two!At, T!At, Two!Lock, T!Lock, Two!Readable,
         T!Readable, Two!Resolution, T!Resolution, Two!Heads, T!Heads, Two!Goto, T!Goto,
         Two!repoVars, T!repoVars, Two!EdgesSound, T!EdgesSound, Two!On, T!On
<1>5. \A p : Two!LockFile(p) <=> T!LockFile(p)
  BY DEF Two!LockFile, T!LockFile, Two!At, T!At, Two!Goto, T!Goto, Two!procVars, T!procVars
<1>6. \A p : Two!Rename(p) <=> T!Rename(p)
  BY DEF Two!Rename, T!Rename, Two!At, T!At, Two!NoTask, T!NoTask, Two!Supersedes, T!Supersedes,
         Two!Goto, T!Goto, Two!procVars, T!procVars, Two!Unlock, T!Unlock, Two!Forget, T!Forget,
         Two!NoCard, T!NoCard
<1>7. \A p : Two!BeginDraft(p) <=> T!BeginDraft(p)
  BY DEF Two!BeginDraft, T!BeginDraft, Two!At, T!At, Two!Goto, T!Goto, Two!repoVars, T!repoVars
<1>8. \A p : Two!EnterDraft(p) <=> T!EnterDraft(p)
  BY DEF Two!EnterDraft, T!EnterDraft, Two!At, T!At, Two!Lock, T!Lock, Two!Readable, T!Readable,
         Two!Expected, T!Expected, Two!Goto, T!Goto, Two!repoVars, T!repoVars, Two!EdgesSound,
         T!EdgesSound, Two!HeadOf, T!HeadOf, Two!StateOf, T!StateOf, Two!On, T!On, Two!Heads,
         T!Heads, Two!Outcome, T!Outcome, Two!Previous, T!Previous
<1>9. \A p : Two!WriteRevision(p) <=> T!WriteRevision(p)
  BY DEF Two!WriteRevision, T!WriteRevision, Two!At, T!At, Two!Goto, T!Goto, Two!procVars,
         T!procVars
<1>10. \A p : Two!WritePointer(p) <=> T!WritePointer(p)
  BY DEF Two!WritePointer, T!WritePointer, Two!At, T!At, Two!Goto, T!Goto, Two!procVars,
         T!procVars, Two!Unlock, T!Unlock, Two!Forget, T!Forget, Two!NoCard, T!NoCard, Two!NoTask,
         T!NoTask
<1>11. \A p : Two!View(p) <=> T!View(p)
  BY DEF Two!View, T!View, Two!At, T!At, Two!Shown, T!Shown, Two!Goto, T!Goto, Two!Unlock,
         T!Unlock, Two!Forget, T!Forget, Two!repoVars, T!repoVars, Two!Outcome, T!Outcome,
         Two!NoCard, T!NoCard, Two!NoTask, T!NoTask
<1>12. \A p : Two!Dashboard(p) <=> T!Dashboard(p)
  BY DEF Two!Dashboard, T!Dashboard, Two!At, T!At, Two!Scannable, T!Scannable, Two!Present,
         T!Present, Two!Canonical, T!Canonical, Two!repoVars, T!repoVars, Two!procVars,
         T!procVars, Two!Readable, T!Readable, Two!Expected, T!Expected, Two!EdgesSound,
         T!EdgesSound, Two!HeadOf, T!HeadOf, Two!StateOf, T!StateOf, Two!On, T!On, Two!Heads,
         T!Heads, Two!Outcome, T!Outcome, Two!Previous, T!Previous
<1>13. \A p : Two!Crash(p) <=> T!Crash(p)
  BY DEF Two!Crash, T!Crash, Two!Goto, T!Goto, Two!Forget, T!Forget, Two!repoVars, T!repoVars,
         Two!NoCard, T!NoCard, Two!NoTask, T!NoTask
<1>14. \A c : Two!Recover(c) <=> T!Recover(c)
  BY DEF Two!Recover, T!Recover, Two!repoVars, T!repoVars, Two!procVars, T!procVars
<1>15. \A c, r : Two!EditView(c, r) <=> T!EditView(c, r)
  BY DEF Two!EditView, T!EditView, Two!repoVars, T!repoVars, Two!procVars, T!procVars
<1>16. \A c, d : Two!Merge(c, d) <=> T!Merge(c, d)
  BY DEF Two!Merge, T!Merge, Two!procVars, T!procVars
<1>17. Two!vars = T!vars
  BY DEF Two!vars, T!vars, Two!repoVars, T!repoVars, Two!procVars, T!procVars
<1> QED
  BY <1>1, <1>2, <1>3, <1>4, <1>5, <1>6, <1>7, <1>8, <1>9, <1>10, <1>11, <1>12, <1>13, <1>14,
     <1>15, <1>16, <1>17
     DEF Two!Next, T!Next, Two!Step, T!Step

\* T has the types of Two.
LEMMA ClonesTypes == Two!TypeOK <=> T!TypeOK
BY DEF Two!TypeOK, T!TypeOK, Two!Resolution, T!Resolution, Two!Heading, T!Heading, Two!Target,
       T!Target, Two!Pc, T!Pc, Two!Line, T!Line, Two!Decision, T!Decision, Two!Task, T!Task,
       Two!State, T!State, Two!NoTask, T!NoTask, Two!Draft, T!Draft

\* T reads the decisions of Two.
LEMMA ClonesChained == Two!DecisionsChained <=> T!DecisionsChained
BY DEF Two!DecisionsChained, T!DecisionsChained, Two!HeadOf, T!HeadOf, Two!On, T!On, Two!Heads,
       T!Heads

\* T has the references of Two.
LEMMA ClonesResolve == Two!ReferencesResolve <=> T!ReferencesResolve
BY DEF Two!ReferencesResolve, T!ReferencesResolve, Two!PointerResolves, T!PointerResolves,
       Two!EdgesClosed, T!EdgesClosed, Two!Present, T!Present, Two!EdgesSound, T!EdgesSound,
       Two!On, T!On

\* S is of the same writers and scan as Scanning: it begins alike.
LEMMA ScansInit == Scanning!InitQueue <=> S!InitQueue
BY DEF Scanning!InitQueue, S!InitQueue, Scanning!Init, S!Init, Scanning!NoCard, S!NoCard,
       Scanning!NoTask, S!NoTask

\* S's writers take the steps of those of Scanning.
LEMMA WritersNext == (Scanning!Next <=> S!Next) /\ Scanning!vars = S!vars
<1>1. \A p : Scanning!Show(p) <=> S!Show(p)
  BY DEF Scanning!Show, S!Show, Scanning!At, S!At, Scanning!Scannable, S!Scannable,
         Scanning!Choice, S!Choice, Scanning!NoCard, S!NoCard, Scanning!Card, S!Card,
         Scanning!Goto, S!Goto, Scanning!repoVars, S!repoVars, Scanning!Readable, S!Readable,
         Scanning!Present, S!Present, Scanning!Confirmed, S!Confirmed, Scanning!Blocked,
         S!Blocked, Scanning!Offered, S!Offered, Scanning!Canonical, S!Canonical,
         Scanning!EdgesSound, S!EdgesSound, Scanning!Decision, S!Decision, Scanning!Expected,
         S!Expected, Scanning!On, S!On, Scanning!HeadOf, S!HeadOf, Scanning!StateOf, S!StateOf,
         Scanning!Heads, S!Heads, Scanning!Outcome, S!Outcome, Scanning!Previous, S!Previous
<1>2. \A p : Scanning!GiveUp(p) <=> S!GiveUp(p)
  BY DEF Scanning!GiveUp, S!GiveUp, Scanning!Goto, S!Goto, Scanning!Forget, S!Forget,
         Scanning!repoVars, S!repoVars, Scanning!NoCard, S!NoCard, Scanning!NoTask, S!NoTask
<1>3. \A p : Scanning!EnterReview(p) <=> S!EnterReview(p)
  BY DEF Scanning!EnterReview, S!EnterReview, Scanning!At, S!At, Scanning!Lock, S!Lock,
         Scanning!Scannable, S!Scannable, Scanning!Card, S!Card, Scanning!Planned, S!Planned,
         Scanning!Goto, S!Goto, Scanning!repoVars, S!repoVars, Scanning!procVars, S!procVars,
         Scanning!Readable, S!Readable, Scanning!Present, S!Present, Scanning!Canonical,
         S!Canonical, Scanning!Blocked, S!Blocked, Scanning!EdgesSound, S!EdgesSound,
         Scanning!Expected, S!Expected, Scanning!On, S!On, Scanning!HeadOf, S!HeadOf,
         Scanning!StateOf, S!StateOf, Scanning!Heads, S!Heads, Scanning!Outcome, S!Outcome,
         Scanning!Previous, S!Previous
<1>4. \A p : Scanning!EnterResolve(p) <=> S!EnterResolve(p)
  BY DEF Scanning!EnterResolve, S!EnterResolve, Scanning!At, S!At, Scanning!Lock, S!Lock,
         Scanning!Readable, S!Readable, Scanning!Resolution, S!Resolution, Scanning!Heads,
         S!Heads, Scanning!Goto, S!Goto, Scanning!repoVars, S!repoVars, Scanning!EdgesSound,
         S!EdgesSound, Scanning!On, S!On
<1>5. \A p : Scanning!LockFile(p) <=> S!LockFile(p)
  BY DEF Scanning!LockFile, S!LockFile, Scanning!At, S!At, Scanning!Goto, S!Goto,
         Scanning!procVars, S!procVars
<1>6. \A p : Scanning!Rename(p) <=> S!Rename(p)
  BY DEF Scanning!Rename, S!Rename, Scanning!At, S!At, Scanning!NoTask, S!NoTask,
         Scanning!Supersedes, S!Supersedes, Scanning!Goto, S!Goto, Scanning!procVars, S!procVars,
         Scanning!Unlock, S!Unlock, Scanning!Forget, S!Forget, Scanning!NoCard, S!NoCard
<1>7. \A p : Scanning!BeginDraft(p) <=> S!BeginDraft(p)
  BY DEF Scanning!BeginDraft, S!BeginDraft, Scanning!At, S!At, Scanning!Goto, S!Goto,
         Scanning!repoVars, S!repoVars
<1>8. \A p : Scanning!EnterDraft(p) <=> S!EnterDraft(p)
  BY DEF Scanning!EnterDraft, S!EnterDraft, Scanning!At, S!At, Scanning!Lock, S!Lock,
         Scanning!Readable, S!Readable, Scanning!Expected, S!Expected, Scanning!Goto, S!Goto,
         Scanning!repoVars, S!repoVars, Scanning!EdgesSound, S!EdgesSound, Scanning!HeadOf,
         S!HeadOf, Scanning!StateOf, S!StateOf, Scanning!On, S!On, Scanning!Heads, S!Heads,
         Scanning!Outcome, S!Outcome, Scanning!Previous, S!Previous
<1>9. \A p : Scanning!WriteRevision(p) <=> S!WriteRevision(p)
  BY DEF Scanning!WriteRevision, S!WriteRevision, Scanning!At, S!At, Scanning!Goto, S!Goto,
         Scanning!procVars, S!procVars
<1>10. \A p : Scanning!WritePointer(p) <=> S!WritePointer(p)
  BY DEF Scanning!WritePointer, S!WritePointer, Scanning!At, S!At, Scanning!Goto, S!Goto,
         Scanning!procVars, S!procVars, Scanning!Unlock, S!Unlock, Scanning!Forget, S!Forget,
         Scanning!NoCard, S!NoCard, Scanning!NoTask, S!NoTask
<1>11. \A p : Scanning!View(p) <=> S!View(p)
  BY DEF Scanning!View, S!View, Scanning!At, S!At, Scanning!Shown, S!Shown, Scanning!Goto, S!Goto,
         Scanning!Unlock, S!Unlock, Scanning!Forget, S!Forget, Scanning!repoVars, S!repoVars,
         Scanning!Outcome, S!Outcome, Scanning!NoCard, S!NoCard, Scanning!NoTask, S!NoTask
<1>12. \A p : Scanning!Dashboard(p) <=> S!Dashboard(p)
  BY DEF Scanning!Dashboard, S!Dashboard, Scanning!At, S!At, Scanning!Scannable, S!Scannable,
         Scanning!Present, S!Present, Scanning!Canonical, S!Canonical, Scanning!repoVars,
         S!repoVars, Scanning!procVars, S!procVars, Scanning!Readable, S!Readable,
         Scanning!Expected, S!Expected, Scanning!EdgesSound, S!EdgesSound, Scanning!HeadOf,
         S!HeadOf, Scanning!StateOf, S!StateOf, Scanning!On, S!On, Scanning!Heads, S!Heads,
         Scanning!Outcome, S!Outcome, Scanning!Previous, S!Previous
<1>13. \A p : Scanning!Crash(p) <=> S!Crash(p)
  BY DEF Scanning!Crash, S!Crash, Scanning!Goto, S!Goto, Scanning!Forget, S!Forget,
         Scanning!repoVars, S!repoVars, Scanning!NoCard, S!NoCard, Scanning!NoTask, S!NoTask
<1>14. \A c : Scanning!Recover(c) <=> S!Recover(c)
  BY DEF Scanning!Recover, S!Recover, Scanning!repoVars, S!repoVars, Scanning!procVars, S!procVars
<1>15. \A c, r : Scanning!EditView(c, r) <=> S!EditView(c, r)
  BY DEF Scanning!EditView, S!EditView, Scanning!repoVars, S!repoVars, Scanning!procVars,
         S!procVars
<1>16. \A c, d : Scanning!Merge(c, d) <=> S!Merge(c, d)
  BY DEF Scanning!Merge, S!Merge, Scanning!procVars, S!procVars
<1>17. Scanning!vars = S!vars
  BY DEF Scanning!vars, S!vars, Scanning!repoVars, S!repoVars, Scanning!procVars, S!procVars
<1> QED
  BY <1>1, <1>2, <1>3, <1>4, <1>5, <1>6, <1>7, <1>8, <1>9, <1>10, <1>11, <1>12, <1>13, <1>14,
     <1>15, <1>16, <1>17
     DEF Scanning!Next, S!Next, Scanning!Step, S!Step

\* S takes the steps of Scanning.
LEMMA ScansNext == (Scanning!NextQueue <=> S!NextQueue) /\ Scanning!queueVars = S!queueVars
<1>1. Scanning!BeginScan <=> S!BeginScan
  BY DEF Scanning!BeginScan, S!BeginScan, Scanning!NoCard, S!NoCard
<1>2. Scanning!ReadSources <=> S!ReadSources
  BY DEF Scanning!ReadSources, S!ReadSources, Scanning!ReadRecords, S!ReadRecords,
         Scanning!Legible, S!Legible
<1>3. Scanning!ReadKnowledge <=> S!ReadKnowledge
  BY DEF Scanning!ReadKnowledge, S!ReadKnowledge, Scanning!ReadRecords, S!ReadRecords,
         Scanning!Legible, S!Legible
<1>4. Scanning!ListTopics <=> S!ListTopics
  BY DEF Scanning!ListTopics, S!ListTopics, Scanning!NoCard, S!NoCard
<1>5. Scanning!ReadReviews <=> S!ReadReviews
  BY DEF Scanning!ReadReviews, S!ReadReviews, Scanning!Readable, S!Readable, Scanning!Scanned,
         S!Scanned, Scanning!Expected, S!Expected, Scanning!EdgesSound, S!EdgesSound,
         Scanning!HeadOf, S!HeadOf, Scanning!StateOf, S!StateOf, Scanning!On, S!On,
         Scanning!Heads, S!Heads, Scanning!Outcome, S!Outcome, Scanning!Previous, S!Previous
<1>6. Scanning!ReadSourceViews <=> S!ReadSourceViews
  BY DEF Scanning!ReadSourceViews, S!ReadSourceViews, Scanning!ReadViews, S!ReadViews,
         Scanning!Scanned, S!Scanned, Scanning!Verdict, S!Verdict
<1>7. Scanning!ReadKnowledgeViews <=> S!ReadKnowledgeViews
  BY DEF Scanning!ReadKnowledgeViews, S!ReadKnowledgeViews, Scanning!ReadViews, S!ReadViews,
         Scanning!Scanned, S!Scanned, Scanning!Verdict, S!Verdict
<1>8. Scanning!FailScan <=> S!FailScan
  BY DEF Scanning!FailScan, S!FailScan, Scanning!Legible, S!Legible, Scanning!Readable,
         S!Readable, Scanning!NoCard, S!NoCard, Scanning!EdgesSound, S!EdgesSound, Scanning!On,
         S!On
<1>9. Scanning!queueVars = S!queueVars
  BY WritersNext DEF Scanning!queueVars, S!queueVars, Scanning!scanVars, S!scanVars
<1>10. UNCHANGED Scanning!vars <=> UNCHANGED S!vars
  BY DEF Scanning!vars, S!vars, Scanning!repoVars, S!repoVars, Scanning!procVars, S!procVars
<1>11. Scanning!Scan <=> S!Scan
  BY <1>1, <1>2, <1>3, <1>4, <1>5, <1>6, <1>7, <1>8 DEF Scanning!Scan, S!Scan
<1> QED
  BY WritersNext, <1>9, <1>10, <1>11 DEF Scanning!NextQueue, S!NextQueue

\* S has the types of Scanning.
LEMMA ScansTypes == (Scanning!TypeOK <=> S!TypeOK) /\ (Scanning!ScanOK <=> S!ScanOK)
<1>1. Scanning!TypeOK <=> S!TypeOK
  BY DEF Scanning!TypeOK, S!TypeOK, Scanning!Resolution, S!Resolution, Scanning!Heading,
         S!Heading, Scanning!Target, S!Target, Scanning!Pc, S!Pc, Scanning!Line, S!Line,
         Scanning!Decision, S!Decision, Scanning!Task, S!Task, Scanning!State, S!State,
         Scanning!NoTask, S!NoTask, Scanning!Draft, S!Draft
<1>2. Scanning!ScanOK <=> S!ScanOK
  BY DEF Scanning!ScanOK, S!ScanOK, Scanning!Steps, S!Steps, Scanning!Heading, S!Heading,
         Scanning!State, S!State
<1> QED
  BY <1>1, <1>2

\* S judges the verdicts of Scanning.
LEMMA ScansVerdicts ==
    /\ Scanning!FreshVerdict <=> S!FreshVerdict
    /\ Scanning!QuietVerdict <=> S!QuietVerdict
<1>1. Scanning!FreshVerdict <=> S!FreshVerdict
  BY DEF Scanning!FreshVerdict, S!FreshVerdict, Scanning!Looking, S!Looking, Scanning!Found,
         S!Found, Scanning!Confirmed, S!Confirmed, Scanning!Label, S!Label, Scanning!Scanned,
         S!Scanned, Scanning!Canonical, S!Canonical, Scanning!Expected, S!Expected,
         Scanning!HeadOf, S!HeadOf, Scanning!StateOf, S!StateOf, Scanning!Heads, S!Heads,
         Scanning!Outcome, S!Outcome, Scanning!Previous, S!Previous, Scanning!On, S!On
<1>2. Scanning!QuietVerdict <=> S!QuietVerdict
  BY DEF Scanning!QuietVerdict, S!QuietVerdict, Scanning!Looking, S!Looking, Scanning!NextAction,
         S!NextAction, Scanning!Waits, S!Waits, Scanning!HeadOf, S!HeadOf, Scanning!Summary,
         S!Summary, Scanning!Confirmed, S!Confirmed, Scanning!Scanned, S!Scanned, Scanning!Shows,
         S!Shows, Scanning!Effects, S!Effects, Scanning!Blocked, S!Blocked, Scanning!Aggregate,
         S!Aggregate, Scanning!Heads, S!Heads, Scanning!LabelledConfirmed, S!LabelledConfirmed,
         Scanning!Canonical, S!Canonical, Scanning!Previous, S!Previous, Scanning!Pressing,
         S!Pressing, Scanning!On, S!On, Scanning!Label, S!Label, Scanning!Expected, S!Expected,
         Scanning!StateOf, S!StateOf, Scanning!Outcome, S!Outcome
<1> QED
  BY <1>1, <1>2

-----------------------------------------------------------------------------

\* What T assumes of its constants is assumed of the clones that git merges.
LEMMA ClonesAssumed == T!ConstantsAssumption /\ T!NoneAssumption /\ T!EditedAssumption
                       /\ T!QueueAssumption
<1>1. T!ConstantsAssumption /\ T!QueueAssumption
  BY ConstantsAssumption, MergesAssumed
     DEF T!ConstantsAssumption, T!QueueAssumption, T!Act, Act
<1>2. T!NoneAssumption /\ T!EditedAssumption
  BY NoneAssumption, EditedAssumption
     DEF T!NoneAssumption, T!EditedAssumption, T!Decision, T!Target, T!State, T!Heading, T!Line,
         Decision, Target, State, Heading, Line
<1> QED
  BY <1>1, <1>2

\* What S assumes of its constants is assumed of the writers of the scanned clone.
LEMMA ScansAssume == S!ConstantsAssumption /\ S!NoneAssumption /\ S!EditedAssumption
                     /\ (Of \in Clone => S!QueueAssumption)
<1>1. S!ConstantsAssumption /\ (Of \in Clone => S!QueueAssumption)
  BY ConstantsAssumption, ScansAssumed
     DEF S!ConstantsAssumption, S!QueueAssumption, S!Act, Act
<1>2. S!NoneAssumption /\ S!EditedAssumption
  BY NoneAssumption, EditedAssumption
     DEF S!NoneAssumption, S!EditedAssumption, S!Decision, S!Target, S!State, S!Heading, S!Line,
         Decision, Target, State, Heading, Line
<1> QED
  BY <1>1, <1>2

\* Each kind's invariant.
Kinds ==
    /\ Inv
    /\ kind = "two clones" => T!Inv /\ T!Sound /\ T!Unrounded
    /\ kind = "queue" => S!Inv /\ S!ScanOK

\* They hold at first.
LEMMA InitKinds == InitKind => Kinds
<1> SUFFICES ASSUME InitKind PROVE Kinds
  OBVIOUS
<1>1. Inv
  BY InitInv DEF InitKind
<1>2. ASSUME kind = "two clones" PROVE T!Inv /\ T!Sound /\ T!Unrounded
  <2>1. T!Init
    BY <1>2, ClonesInit DEF InitKind
  <2> QED
    BY <2>1, ClonesAssumed, T!InitInv, T!InitSound, T!InitUnrounded
<1>3. ASSUME kind = "queue" PROVE S!Inv /\ S!ScanOK
  <2>1. S!InitQueue
    BY <1>3, ScansInit DEF InitKind
  <2>2. S!Init
    BY <2>1 DEF S!InitQueue
  <2> QED
    BY <2>1, <2>2, QueueAssumption, ScansAssume, S!InitInv, S!InitScanTyped
<1> QED
  BY <1>1, <1>2, <1>3 DEF Kinds

\* A step of the composition is one of the kind's part, or of none.
LEMMA KindSteps ==
    ASSUME [StepKind]_all
    PROVE  /\ kind' = kind
           /\ Next \/ UNCHANGED vars
           /\ kind = "two clones" => T!Next \/ UNCHANGED T!vars
           /\ kind = "queue" => S!NextQueue \/ UNCHANGED S!queueVars
<1>1. CASE UNCHANGED all
  <2>1. kind' = kind /\ UNCHANGED vars /\ UNCHANGED others /\ UNCHANGED scanVars
    BY <1>1 DEF all, queueVars
  <2>2. UNCHANGED T!vars /\ UNCHANGED S!vars
    BY <2>1 DEF others, T!vars, T!repoVars, T!procVars, S!vars, S!repoVars, S!procVars
  <2> QED
    BY <2>1, <2>2 DEF S!queueVars, S!scanVars, scanVars
<1>2. CASE StepKind
  BY <1>2, ClonesNext, ScansNext DEF StepKind, queueVars
<1> QED
  BY <1>1, <1>2

\* Each step keeps them.
LEMMA NextKinds == Kinds /\ [StepKind]_all => Kinds'
<1> SUFFICES ASSUME Kinds, [StepKind]_all PROVE Kinds'
  OBVIOUS
<1>1. kind' = kind
  BY KindSteps
<1>2. Inv'
  BY KindSteps, NextInv DEF Kinds
<1>3. ASSUME kind = "two clones" PROVE (T!Inv /\ T!Sound /\ T!Unrounded)'
  <2>1. T!Inv /\ T!Sound /\ T!Unrounded /\ (T!Next \/ UNCHANGED T!vars)
    BY <1>3, KindSteps DEF Kinds
  <2> QED
    BY <2>1, ClonesAssumed, T!NextInv, T!NextSound, T!NextUnrounded
<1>4. ASSUME kind = "queue" PROVE (S!Inv /\ S!ScanOK)'
  <2>1. S!Inv /\ S!ScanOK /\ (S!NextQueue \/ UNCHANGED S!queueVars)
    BY <1>4, KindSteps DEF Kinds
  <2>2. S!Next \/ UNCHANGED S!vars
    BY <2>1 DEF S!NextQueue, S!queueVars
  <2> QED
    BY <2>1, <2>2, QueueAssumption, ScansAssume, S!NextInv, S!NextScanTyped
<1> QED
  BY <1>1, <1>2, <1>3, <1>4 DEF Kinds

\* What is proved of one clone holds of the composition: the other kinds leave it
\* as it begins.
THEOREM OneCloneGoesOn == KindSpec => Spec
<1>1. InitKind => Init
  BY DEF InitKind
<1>2. [StepKind]_all => [Next]_vars
  BY KindSteps
<1> QED
  BY <1>1, <1>2, PTL DEF KindSpec, Spec

\* Of every kind: the types of the repository and of the processes are kept
\* through crashes and merges, and those of a scan whatever the writers do.
THEOREM ReviewTypes == KindSpec => []TypesOK
<1>1. Kinds => TypesOK
  BY ClonesTypes, ScansTypes DEF Kinds, TypesOK, Inv, T!Inv, S!Inv
<1> QED
  BY <1>1, InitKinds, NextKinds, PTL DEF KindSpec

-----------------------------------------------------------------------------

\* What holds of the scanned clone.
Scans == kind = "queue" => S!QueueInv /\ S!Faithful

\* In two clones, whatever git merges, decisions form chains and references
\* resolve; what a scan finds confirmed is, and a scan that nobody disturbs is
\* right, as long as the writers write the view they owe and nobody edits one.
THEOREM ClonesAndQueueHold ==
    ASSUME {"merge", "fail", "edit"} \cap WriteActs = {}
    PROVE  KindSpec => ClonesAndQueue
<1>1. S!Attended /\ S!QueueAssumption /\ "edit" \notin WriteActs
  BY QueueAssumption, ScansAssume DEF S!Attended
<1>2. InitKind => Scans
  BY <1>1, ScansInit, ScansAssume, S!InitScans DEF InitKind, Scans
<1>3. Scans /\ [StepKind]_all => Scans'
  <2> SUFFICES ASSUME Scans, [StepKind]_all, kind = "queue" PROVE (S!QueueInv /\ S!Faithful)'
    BY KindSteps DEF Scans
  <2>1. S!QueueInv /\ S!Faithful /\ (S!NextQueue \/ UNCHANGED S!queueVars)
    BY KindSteps DEF Scans
  <2> QED
    BY <1>1, <2>1, ScansAssume, S!NextScans, S!NextFaithful
<1>4. Kinds => (kind = "two clones" => Two!DecisionsChained /\ Two!ReferencesResolve)
  BY ClonesAssumed, ClonesChained, ClonesResolve, T!ChainsAreWhole
     DEF Kinds, T!Sound, T!ReferencesResolve
<1>5. Scans /\ [StepKind]_all =>
          [kind = "queue" => Scanning!FreshVerdict /\ Scanning!QuietVerdict]_all
  <2> SUFFICES ASSUME Scans, StepKind, kind = "queue"
               PROVE  Scanning!FreshVerdict /\ Scanning!QuietVerdict
    OBVIOUS
  <2>1. S!QueueInv /\ S!Faithful /\ S!NextQueue
    BY ScansNext DEF Scans, StepKind
  <2>2. CASE UNCHANGED S!queueVars
    <3>1. UNCHANGED <<at, seen, state>>
      BY <2>2 DEF S!queueVars, S!scanVars
    <3> QED
      BY <3>1, ScansAssume, ScansVerdicts, S!WritersLookAway, <1>1
  <2>3. CASE ~UNCHANGED S!queueVars
    BY <1>1, <2>1, <2>3, ScansAssume, ScansVerdicts, S!FreshStep, S!QuietStep
  <2> QED
    BY <2>2, <2>3
<1> QED
  BY <1>2, <1>3, <1>4, <1>5, InitKinds, NextKinds, PTL DEF KindSpec, ClonesAndQueue
=============================================================================

-------------------------- MODULE ProjectionProofs --------------------------
(***************************************************************************)
(* For any number of records, definitions, versions and texts: what the    *)
(* owner wrote into a view is replaced only when that text was backed up,  *)
(* and the manifest owns every view the program wrote. Both say what an    *)
(* exchange that ends in the middle leaves in displaced entries.           *)
(*                                                                         *)
(* The argument: one command runs at a time (Serial). A view is replaced   *)
(* either because it bears the digest of the manifest, which is never of   *)
(* the owner's text, or by a repair whose recovery is complete, and a      *)
(* recovery is completed only after its backup (Backed). Definitions never *)
(* get so far: the plan was made when they were safe (PlanSafe).           *)
(***************************************************************************)
EXTENDS Projection, TLAPS

\* Only the holder of the repository lock is inside a command.
Serial == \A p \in Proc : pc[p] # "idle" => holder = p

Known == {v \in View : want[v] # None}
Writing == {"look", "create", "replace", "record"}
Recovering == {"backup", "recover"}

\* A command works on views that are wanted; those of records are owned.
JobSound == \A p \in Proc :
    /\ pc[p] # "idle" => job[p].todo \subseteq Known
    /\ pc[p] = "look" => job[p].view \in job[p].todo
    /\ pc[p] \in Writing =>
           /\ job[p].view \in Known
           /\ job[p].view \in Record => manifest[job[p].view] # None
    /\ pc[p] \in Recovering =>
           /\ job[p].view \in Record \cap Known
           /\ job[p].seen \in Mine \cup Version

\* A definition still to be written was safe when it was read.
PlanSafe == \A p \in Proc : pc[p] # "idle" =>
    \A v \in Fixed \cap job[p].todo : job[p].plan[v] \in {None, want[v], manifest[v]}

\* No recovery and no replacement of an owner's text without its backup.
Backed ==
    /\ \A v, m, w : <<v, m, w>> \in ready => <<v, m>> \in saved
    /\ \A p \in Proc :
           \/ pc[p] = "recover"
           \/ pc[p] = "replace" /\ job[p].seen \in Mine
           => <<job[p].view, job[p].seen>> \in saved

\* What a step of a command, or its end, does to the files (DiskSteps).
Writes(p) ==
    \/ UNCHANGED disk
    \/ \E v \in job[p].todo \cap Record : ClaimEntry(v)
    \/ ListingOut
    \/ pc[p] = "create" /\ NewView(p)
    \/ pc[p] = "replace" /\ (SwapView(p) \/ ViewOut(job[p].view))
    \/ pc[p] = "record" /\ NoteDigest(p)
    \/ pc[p] = "backup" /\ KeepText(p)
    \/ pc[p] = "recover" /\ KeepRest(p)

Inv == TypeOK /\ Serial /\ JobSound /\ PlanSafe /\ Backed /\ OwnedBeforeWritten

-----------------------------------------------------------------------------

LEMMA InitInv == Init => Inv
<1> SUFFICES ASSUME Init PROVE Inv
  OBVIOUS
<1>1. PICK v \in Version : want = [x \in View |-> IF x \in Fixed THEN v ELSE None]
  BY DEF Init
<1>2. NoJob \in Job
  BY DEF NoJob, Job, Bytes
<1>3. TypeOK
  BY <1>1, <1>2, ConstantsAssumption DEF Init, TypeOK, Bytes, Pc
<1>4. Serial /\ JobSound /\ PlanSafe /\ Backed
  BY DEF Init, Serial, JobSound, PlanSafe, Backed, Writing, Recovering
<1>5. OwnedBeforeWritten
  BY ConstantsAssumption DEF Init, OwnedBeforeWritten, View
<1> QED
  BY <1>3, <1>4, <1>5 DEF Inv

\* Every step of a command, and every way it stops, writes at most one thing.
LEMMA DiskSteps ==
    ASSUME NEW p \in Proc, Step(p) \/ Stop(p)
    PROVE  Writes(p)
<1> USE DEF Writes, Fails
<1>1. ASSUME NEW v \in Following(p) PROVE v \in job[p].todo
  BY <1>1 DEF Following
<1>2. CASE Claim(p) \/ (pc[p] = "claim" /\ CutShort(p))
  BY <1>1, <1>2 DEF Claim, CutShort, Halfway, Unclaimed
<1>3. CASE Stop(p)
  BY <1>2, <1>3 DEF Stop, CutShort, Halfway
<1>4. CASE Look(p) \/ Create(p) \/ Replace(p) \/ Note(p) \/ Backup(p) \/ Recover(p)
  BY <1>4 DEF Look, Create, Replace, Note, Backup, Recover, disk
<1> QED
  BY <1>2, <1>3, <1>4 DEF Step

\* What it writes is well typed, and so are the locks it may leave behind.
LEMMA DiskTypes ==
    ASSUME Inv, NEW p \in Proc, Step(p) \/ Stop(p)
    PROVE  /\ file' \in [View -> Bytes]
           /\ manifest' \in [View -> Version \cup {None, Claimed}]
           /\ saved' \in SUBSET (Record \X Mine \cup Record \X Version)
           /\ ready' \in SUBSET (Record \X (Mine \cup Version) \X Version)
           /\ aside' \in SUBSET (View \X Mine) /\ lost' \in SUBSET Record
           /\ locked' \in SUBSET Place /\ cuts' \in 0..MaxCuts
<1> USE ConstantsAssumption DEF recoveries, displaced
<1>1. TypeOK /\ JobSound
  BY DEF Inv
<1>2. /\ pc[p] \in Writing => job[p].view \in View /\ want[job[p].view] \in Version
      /\ pc[p] \in Recovering => /\ job[p].view \in Record /\ job[p].seen \in Mine \cup Version
                                 /\ want[job[p].view] \in Version
  BY <1>1 DEF JobSound, Known, View, TypeOK
<1>3. /\ file' \in [View -> Bytes]
      /\ manifest' \in [View -> Version \cup {None, Claimed}]
      /\ saved' \in SUBSET (Record \X Mine \cup Record \X Version)
      /\ ready' \in SUBSET (Record \X (Mine \cup Version) \X Version)
      /\ aside' \in SUBSET (View \X Mine) /\ lost' \in SUBSET Record
  <2> USE <1>1 DEF TypeOK
  <2>1. CASE UNCHANGED disk \/ (\E v \in job[p].todo \cap Record : ClaimEntry(v)) \/ ListingOut
    BY <2>1 DEF disk, ClaimEntry, ListingOut
  <2>2. CASE pc[p] = "create" /\ NewView(p)
    BY <1>2, <2>2 DEF NewView, Writing, Bytes
  <2>3. CASE pc[p] = "replace" /\ (SwapView(p) \/ ViewOut(job[p].view))
    BY <1>2, <2>3 DEF SwapView, ViewOut, Writing, Bytes
  <2>4. CASE pc[p] = "record" /\ NoteDigest(p)
    BY <1>2, <2>4 DEF NoteDigest, Digest, Writing
  <2>5. CASE pc[p] = "backup" /\ KeepText(p)
    BY <1>2, <2>5 DEF KeepText, Recovering
  <2>6. CASE pc[p] = "recover" /\ KeepRest(p)
    <3>1. Recovery(p) \in Record \X (Mine \cup Version) \X Version
      BY <1>2, <2>6 DEF Recovery, Recovering
    <3> QED
      BY <2>6, <3>1 DEF KeepRest
  <2> QED
    BY <2>1, <2>2, <2>3, <2>4, <2>5, <2>6, DiskSteps DEF Writes
<1>4. /\ pc[p] \in Writing => <<job[p].view>> \in Place
      /\ pc[p] \in Recovering => Recovery(p) \in Place
      /\ Listing \in Place
  <2>1. pc[p] \in Recovering => Recovery(p) \in Record \X (Mine \cup Version) \X Version
    BY <1>2 DEF Recovery
  <2> QED
    BY <1>2, <2>1 DEF Place
<1>5. UNCHANGED <<locked, cuts>> \/ CutShort(p)
  BY DEF Step, Stop, Claim, Look, Create, Replace, Note, Backup, Recover, killed
<1>6. CASE UNCHANGED <<locked, cuts>>
  BY <1>1, <1>3, <1>6 DEF TypeOK
<1>7. CASE CutShort(p)
  <2>1. PICK place \in Place : /\ locked' \in {locked, locked \cup {place}}
                               /\ cuts < MaxCuts /\ cuts' = cuts + 1
    BY <1>4, <1>7 DEF CutShort, Halfway, Writing, Recovering
  <2> QED
    BY <1>1, <1>3, <2>1 DEF TypeOK
<1> QED
  BY <1>3, <1>5, <1>6, <1>7

LEMMA SerialStep ==
    ASSUME Inv, [Next]_vars
    PROVE  Serial'
<1> USE ConstantsAssumption DEF Serial, Goto
<1>1. TypeOK /\ Serial
  BY DEF Inv
<1>2. CASE UNCHANGED vars
  BY <1>1, <1>2 DEF vars, disk, recoveries, displaced, killed
<1>3. ASSUME NEW p \in Proc, Dashboard(p) \/ (\E r \in Record : Publish(p, r) \/ Repair(p, r))
      PROVE Serial'
  <2>1. Begin(p) /\ pc' \in {[pc EXCEPT ![p] = s] : s \in Pc}
    BY <1>3 DEF Dashboard, Publish, Repair, Pc
  <2> QED
    BY <1>1, <2>1 DEF Begin, TypeOK
<1>4. ASSUME NEW p \in Proc, Step(p) \/ Stop(p) PROVE Serial'
  <2>1. pc[p] # "idle" /\ \/ End(p)
                          \/ holder' = holder /\ \E s \in Pc : pc' = [pc EXCEPT ![p] = s]
    BY <1>4 DEF Step, Stop, Claim, Look, Create, Replace, Note, Backup, Recover, Fails, Then, Pc
  <2> QED
    BY <1>1, <2>1 DEF End, TypeOK
<1>5. CASE (\E v \in View : Edit(v) \/ Relocate(v)) \/ \E place \in locked : Unlock(place)
  BY <1>1, <1>5 DEF Edit, Relocate, Unlock
<1>6. CASE Upgrade
  BY <1>1, <1>6 DEF Upgrade
<1> QED
  BY <1>2, <1>3, <1>4, <1>5, <1>6 DEF Next

LEMMA TypeStep ==
    ASSUME Inv, [Next]_vars
    PROVE  TypeOK'
<1> USE ConstantsAssumption DEF TypeOK, Goto
<1>1. TypeOK /\ JobSound /\ \A p \in Proc : job[p] \in Job
  BY DEF Inv
<1>2. CASE UNCHANGED vars
  BY <1>1, <1>2 DEF vars, disk, recoveries, displaced, killed
<1>3. ASSUME NEW p \in Proc, End(p)
      PROVE  pc' \in [Proc -> Pc] /\ job' \in [Proc -> Job] /\ holder' \in Proc \cup {None}
  BY <1>1, <1>3 DEF End, NoJob, Job, Bytes, Pc
<1>4. ASSUME NEW p \in Proc, Dashboard(p) PROVE TypeOK'
  <2>1. \E j \in Job, s \in Pc : job' = [job EXCEPT ![p] = j] /\ pc' = [pc EXCEPT ![p] = s]
    <3>1. CASE /\ job' = [job EXCEPT ![p] = [NoJob EXCEPT !.todo = {v \in View : want[v] # None},
                                                         !.plan = [v \in Fixed |-> file[v]]]]
               /\ Goto(p, "claim")
      <4>1. [NoJob EXCEPT !.todo = {v \in View : want[v] # None},
                          !.plan = [v \in Fixed |-> file[v]]] \in Job
        BY <1>1 DEF NoJob, Job, Bytes, View
      <4> QED
        BY <3>1, <4>1 DEF Pc
    <3>2. CASE \E v \in View : /\ job' = [job EXCEPT ![p] = [NoJob EXCEPT !.view = v, !.seen = file[v]]]
                               /\ Goto(p, "backup")
      BY <1>1, <3>2 DEF NoJob, Job, Bytes, Pc
    <3> QED
      BY <1>4, <3>1, <3>2 DEF Dashboard
  <2>2. job' \in [Proc -> Job] /\ pc' \in [Proc -> Pc]
    BY <1>1, <2>1
  <2> QED
    BY <1>1, <1>4, <2>2 DEF Dashboard, Begin, disk, recoveries, displaced, killed
<1>5. ASSUME NEW p \in Proc, NEW r \in Record, Publish(p, r) PROVE TypeOK'
  <2>1. [NoJob EXCEPT !.todo = {r}] \in Job
    BY DEF NoJob, Job, Bytes, View
  <2> QED
    BY <1>1, <1>5, <2>1 DEF Publish, Begin, disk, recoveries, displaced, killed, Pc, View
<1>6. ASSUME NEW p \in Proc, NEW r \in Record, Repair(p, r) PROVE TypeOK'
  <2>1. [NoJob EXCEPT !.todo = {r}, !.view = r, !.seen = file[r]] \in Job
    BY <1>1 DEF NoJob, Job, Bytes, View
  <2> QED
    BY <1>1, <1>6, <2>1 DEF Repair, Begin, disk, recoveries, displaced, killed, Pc
<1>7. ASSUME NEW p \in Proc, Step(p) \/ Stop(p),
             pc' \in [Proc -> Pc], job' \in [Proc -> Job], holder' \in Proc \cup {None}
      PROVE  TypeOK'
  <2>1. UNCHANGED want
    BY <1>7 DEF Step, Stop, Claim, Look, Create, Replace, Note, Backup, Recover
  <2> QED
    BY <1>1, <1>7, <2>1, DiskTypes
<1>8. ASSUME NEW p \in Proc, Step(p) \/ Stop(p), End(p) PROVE TypeOK'
  BY <1>3, <1>7, <1>8
<1>9. ASSUME NEW p \in Proc, Claim(p) PROVE TypeOK'
  <2>1. CASE End(p)
    BY <1>8, <1>9, <2>1 DEF Step
  <2>2. CASE ~End(p)
    <3>1. PICK v \in Following(p) : /\ job' = [job EXCEPT ![p].view = v]
                                   /\ Goto(p, "look") /\ holder' = holder
      BY <1>9, <2>2 DEF Claim, Fails
    <3>2. v \in View
      BY <1>1 DEF Following, Job
    <3>3. [job[p] EXCEPT !.view = v] \in Job
      BY <1>1, <3>2 DEF Job
    <3>4. job' \in [Proc -> Job] /\ pc' \in [Proc -> Pc]
      BY <1>1, <3>1, <3>3 DEF Pc
    <3> QED
      BY <1>1, <1>7, <1>9, <3>1, <3>4 DEF Step
  <2> QED
    BY <2>1, <2>2
<1>10. ASSUME NEW p \in Proc, Look(p) PROVE TypeOK'
  <2>1. job[p].view \in View
    BY <1>1, <1>10 DEF Look, JobSound, Writing, Known
  <2>2. job[p].plan \in [Fixed -> Bytes]
    BY <1>1 DEF Job
  <2>3. PICK x \in Bytes : job' = [job EXCEPT ![p].seen = x]
    BY <1>1, <1>10, <2>1, <2>2 DEF Look
  <2>4. job' \in [Proc -> Job]
    <3>1. [job[p] EXCEPT !.seen = x] \in Job
      BY <1>1 DEF Job
    <3> QED
      BY <1>1, <2>3, <3>1
  <2>5. pc' \in [Proc -> Pc]
    BY <1>1, <1>10 DEF Look, Pc
  <2> QED
    BY <1>1, <1>7, <1>10, <2>4, <2>5 DEF Look, Step
<1>11. ASSUME NEW p \in Proc, Create(p) \/ Replace(p) \/ Backup(p) \/ Recover(p) PROVE TypeOK'
  <2>1. End(p) \/ \E x \in Pc : Then(p, x)
    BY <1>11 DEF Create, Replace, Backup, Recover, Fails, Pc
  <2>2. CASE \E x \in Pc : Then(p, x)
    BY <1>1, <1>7, <1>11, <2>2 DEF Then, Step
  <2> QED
    BY <1>8, <1>11, <2>1, <2>2 DEF Step
<1>12. ASSUME NEW p \in Proc, Note(p) PROVE TypeOK'
  <2>1. CASE End(p)
    BY <1>8, <1>12, <2>1 DEF Step
  <2>2. CASE ~End(p)
    <3>1. job' = [job EXCEPT ![p].todo = @ \ {job[p].view}] /\ Goto(p, "claim") /\ holder' = holder
      BY <1>12, <2>2 DEF Note, Fails
    <3>2. [job[p] EXCEPT !.todo = @ \ {job[p].view}] \in Job
      BY <1>1 DEF Job
    <3>3. job' \in [Proc -> Job] /\ pc' \in [Proc -> Pc]
      BY <1>1, <3>1, <3>2 DEF Pc
    <3> QED
      BY <1>1, <1>7, <1>12, <3>1, <3>3 DEF Step
  <2> QED
    BY <2>1, <2>2
<1>13. ASSUME NEW p \in Proc, Stop(p) PROVE TypeOK'
  BY <1>8, <1>13 DEF Stop
<1>14. ASSUME NEW v \in View, Edit(v) \/ Relocate(v) PROVE TypeOK'
  BY <1>1, <1>14 DEF Edit, Relocate, recoveries, displaced, killed, Bytes
<1>15. CASE Upgrade \/ \E place \in locked : Unlock(place)
  BY <1>1, <1>15 DEF Upgrade, Unlock, disk, recoveries, displaced, killed, View
<1> QED
  BY <1>2, <1>4, <1>5, <1>6, <1>9, <1>10, <1>11, <1>12, <1>13, <1>14, <1>15
     DEF Next, Step

LEMMA JobStep ==
    ASSUME Inv, [Next]_vars
    PROVE  JobSound'
<1> USE ConstantsAssumption DEF JobSound, Known, Writing, Recovering, Goto
<1>1. /\ TypeOK /\ Serial /\ JobSound /\ PlanSafe
      /\ pc \in [Proc -> Pc] /\ job \in [Proc -> Job] /\ holder \in Proc \cup {None}
  BY DEF Inv, TypeOK
<1>2. CASE UNCHANGED vars
  BY <1>1, <1>2 DEF vars, disk, recoveries, displaced, killed
<1>3. ASSUME NEW p \in Proc, pc[p] # "idle" \/ Begin(p)
      PROVE  \A q \in Proc \ {p} : pc[q] = "idle"
  BY <1>1, <1>3 DEF Serial, Begin
<1>4. ASSUME NEW p \in Proc, End(p), \A q \in Proc \ {p} : pc[q] = "idle" PROVE JobSound'
  BY <1>1, <1>4 DEF End
<1>5. ASSUME NEW p \in Proc, Dashboard(p) PROVE JobSound'
  <2>1. \A q \in Proc \ {p} : pc'[q] = "idle"
    BY <1>1, <1>3, <1>5 DEF Dashboard
  <2>2. CASE /\ job' = [job EXCEPT ![p] = [NoJob EXCEPT !.todo = {v \in View : want[v] # None},
                                                       !.plan = [v \in Fixed |-> file[v]]]]
             /\ Goto(p, "claim")
    BY <1>1, <1>5, <2>1, <2>2 DEF Dashboard, NoJob
  <2>3. CASE \E v \in {x \in View : want[x] # None} :
               /\ ~Safe(v)
               /\ job' = [job EXCEPT ![p] = [NoJob EXCEPT !.view = v, !.seen = file[v]]]
               /\ Goto(p, "backup")
    <3>1. PICK v \in View : /\ want[v] # None /\ ~Safe(v)
                            /\ job' = [job EXCEPT ![p] = [NoJob EXCEPT !.view = v, !.seen = file[v]]]
                            /\ Goto(p, "backup")
      BY <2>3
    <3>2. v \in Record /\ file[v] \in Mine \cup Version
      BY <1>1, <1>5, <3>1, ZenonT(60) DEF Dashboard, Safe, View, TypeOK, Bytes
    <3> QED
      BY <1>1, <1>5, <2>1, <3>1, <3>2 DEF Dashboard, NoJob
  <2> QED
    BY <1>5, <2>2, <2>3 DEF Dashboard
<1>6. ASSUME NEW p \in Proc, NEW r \in Record, Publish(p, r) PROVE JobSound'
  <2>1. want'[r] \in Version /\ want'[r] # None /\ r \in View
    BY <1>1, <1>6 DEF Publish, TypeOK, View
  <2>2. \A q \in Proc \ {p} : pc'[q] = "idle"
    BY <1>1, <1>3, <1>6 DEF Publish
  <2> QED
    BY <1>1, <1>6, <2>1, <2>2 DEF Publish, NoJob
<1>7. ASSUME NEW p \in Proc, NEW r \in Record, Repair(p, r) PROVE JobSound'
  <2>1. want[r] \in Version /\ r \in View
    BY <1>1, <1>7 DEF Repair, TypeOK, View
  <2>2. \A q \in Proc \ {p} : pc'[q] = "idle"
    BY <1>1, <1>3, <1>7 DEF Repair
  <2> QED
    BY <1>1, <1>7, <2>1, <2>2 DEF Repair, NoJob, disk
<1>8. ASSUME NEW p \in Proc, Claim(p) PROVE JobSound'
  <2>1. \A q \in Proc \ {p} : pc[q] = "idle"
    BY <1>3, <1>8 DEF Claim
  <2>2. CASE End(p)
    BY <1>4, <2>1, <2>2
  <2>3. CASE ~End(p)
    <3>1. PICK v \in Following(p) :
             /\ job' = [job EXCEPT ![p].view = v] /\ Goto(p, "look")
             /\ \/ Unclaimed(v) /\ ClaimEntry(v)
                \/ ~Unclaimed(v) /\ UNCHANGED disk
      BY <1>8, <2>3 DEF Claim, Fails
    <3>2. v \in job[p].todo /\ job[p].todo \subseteq Known
      BY <1>1, <1>8 DEF Claim, Following
    <3>3. v \in Record => manifest'[v] # None
      BY <1>1, <3>1, <3>2 DEF Unclaimed, ClaimEntry, disk, TypeOK
    <3>4. job'[p].view = v /\ job'[p].todo = job[p].todo
      BY <1>1, <3>1 DEF Job
    <3>5. UNCHANGED want /\ pc'[p] = "look" /\ \A q \in Proc \ {p} : pc'[q] = "idle"
      BY <1>1, <1>8, <2>1, <3>1 DEF Claim
    <3> QED
      BY <3>2, <3>3, <3>4, <3>5
  <2> QED
    BY <2>2, <2>3
<1>9. ASSUME NEW p \in Proc, Look(p) PROVE JobSound'
  <2>1. \A q \in Proc \ {p} : pc'[q] = "idle"
    BY <1>1, <1>3, <1>9 DEF Look
  <2>2. /\ job[p].view \in View /\ want[job[p].view] # None
        /\ job[p].view \in Fixed => job[p].plan[job[p].view]
              \in {None, want[job[p].view], manifest[job[p].view]}
    BY <1>1, <1>9 DEF Look, PlanSafe
  <2>3. CASE pc'[p] = "backup"
    <3>1. job[p].view \in Record
      BY <1>1, <1>9, <2>2, <2>3 DEF Look, View
    <3>2. job'[p].seen \in Mine \cup Version
      BY <1>1, <1>9, <2>2, <2>3, <3>1 DEF Look, TypeOK, Bytes, Job
    <3> QED
      BY <1>1, <1>9, <2>1, <2>2, <2>3, <3>1, <3>2 DEF Look
  <2>4. CASE pc'[p] # "backup"
    <3>1. pc'[p] \in {"create", "replace", "record"}
      BY <1>1, <1>9, <2>4 DEF Look
    <3>2. job'[p].view = job[p].view /\ job'[p].todo = job[p].todo
      BY <1>1, <1>9 DEF Look, Job
    <3>3. UNCHANGED <<want, manifest>>
      BY <1>9 DEF Look, disk
    <3>4. /\ job[p].todo \subseteq Known /\ job[p].view \in Known
          /\ job[p].view \in Record => manifest[job[p].view] # None
      BY <1>1, <1>9 DEF Look
    <3> QED
      BY <2>1, <3>1, <3>2, <3>3, <3>4
  <2> QED
    BY <2>3, <2>4
<1>10. ASSUME NEW p \in Proc, Create(p) \/ Replace(p) PROVE JobSound'
  <2>1. \A q \in Proc \ {p} : pc[q] = "idle"
    BY <1>3, <1>10 DEF Create, Replace
  <2>2. \/ End(p)
        \/ Then(p, "record") /\ UNCHANGED <<want, manifest>> /\ pc[p] \in Writing
    BY <1>10 DEF Create, Replace, NewView, SwapView, Fails
  <2> QED
    BY <1>1, <1>4, <2>1, <2>2 DEF Then
<1>11. ASSUME NEW p \in Proc, Note(p) PROVE JobSound'
  <2>1. \A q \in Proc \ {p} : pc[q] = "idle"
    BY <1>3, <1>11 DEF Note
  <2>2. CASE End(p)
    BY <1>4, <2>1, <2>2
  <2>3. CASE ~End(p)
    <3>1. job' = [job EXCEPT ![p].todo = @ \ {job[p].view}] /\ Goto(p, "claim")
      BY <1>11, <2>3 DEF Note, Fails
    <3> QED
      BY <1>1, <1>11, <2>1, <3>1 DEF Note, Job
  <2> QED
    BY <2>2, <2>3
<1>12. ASSUME NEW p \in Proc, Backup(p) PROVE JobSound'
  <2>1. \A q \in Proc \ {p} : pc[q] = "idle"
    BY <1>3, <1>12 DEF Backup
  <2>2. \/ End(p)
        \/ Then(p, "recover") /\ UNCHANGED <<want, manifest>> /\ pc[p] = "backup"
    BY <1>12 DEF Backup, KeepText, Fails
  <2> QED
    BY <1>1, <1>4, <2>1, <2>2 DEF Then
<1>13. ASSUME NEW p \in Proc, Recover(p) \/ Stop(p) PROVE JobSound'
  BY <1>3, <1>4, <1>13 DEF Recover, Stop, Fails
<1>14. CASE (\E v \in View : Edit(v) \/ Relocate(v)) \/ \E place \in locked : Unlock(place)
  BY <1>1, <1>14 DEF Edit, Relocate, Unlock, disk
<1>15. CASE Upgrade
  <2>1. \A q \in Proc : pc'[q] = "idle"
    BY <1>1, <1>15 DEF Upgrade, Serial
  <2> QED
    BY <2>1
<1> QED
  BY <1>2, <1>5, <1>6, <1>7, <1>8, <1>9, <1>10, <1>11, <1>12, <1>13, <1>14, <1>15
     DEF Next, Step

LEMMA PlanStep ==
    ASSUME Inv, [Next]_vars
    PROVE  PlanSafe'
<1> USE ConstantsAssumption DEF PlanSafe, Goto
<1>1. /\ TypeOK /\ Serial /\ JobSound /\ PlanSafe
      /\ pc \in [Proc -> Pc] /\ job \in [Proc -> Job] /\ holder \in Proc \cup {None}
  BY DEF Inv, TypeOK
<1>2. CASE UNCHANGED vars
  BY <1>1, <1>2 DEF vars, disk, recoveries, displaced, killed
<1>3. ASSUME NEW p \in Proc, pc[p] # "idle" \/ Begin(p)
      PROVE  \A q \in Proc \ {p} : pc[q] = "idle"
  BY <1>1, <1>3 DEF Serial, Begin
<1>4. ASSUME NEW p \in Proc, End(p), \A q \in Proc \ {p} : pc[q] = "idle" PROVE PlanSafe'
  BY <1>1, <1>4 DEF End
<1>5. ASSUME NEW p \in Proc, Dashboard(p) PROVE PlanSafe'
  <2>1. \A q \in Proc \ {p} : pc'[q] = "idle"
    BY <1>1, <1>3, <1>5 DEF Dashboard
  <2>2. \/ job'[p].todo = {}
        \/ job'[p].plan = [v \in Fixed |-> file[v]]
    BY <1>1, <1>5, ZenonT(60) DEF Dashboard, NoJob
  <2>3. \A v \in Fixed : file[v] \in {None, want'[v], manifest'[v]}
    BY <1>5 DEF Dashboard, Safe, disk
  <2> QED
    BY <2>1, <2>2, <2>3
<1>6. ASSUME NEW p \in Proc, NEW r \in Record, Publish(p, r) \/ Repair(p, r) PROVE PlanSafe'
  <2>1. \A q \in Proc \ {p} : pc'[q] = "idle"
    BY <1>1, <1>3, <1>6 DEF Publish, Repair
  <2>2. job'[p].todo = {r}
    BY <1>1, <1>6, ZenonT(60) DEF Publish, Repair, NoJob
  <2> QED
    BY <2>1, <2>2
<1>7. ASSUME NEW p \in Proc, Claim(p) PROVE PlanSafe'
  <2>1. \A q \in Proc \ {p} : pc[q] = "idle"
    BY <1>3, <1>7 DEF Claim
  <2>2. CASE End(p)
    BY <1>4, <2>1, <2>2
  <2>3. CASE ~End(p)
    <3>1. PICK v \in Following(p) :
             /\ job' = [job EXCEPT ![p].view = v] /\ Goto(p, "look")
             /\ \/ Unclaimed(v) /\ ClaimEntry(v)
                \/ UNCHANGED disk
      BY <1>7, <2>3 DEF Claim, Fails
    <3>2. job'[p].todo = job[p].todo /\ job'[p].plan = job[p].plan
      BY <1>1, <3>1 DEF Job
    <3>3. \A x \in Fixed : manifest'[x] = manifest[x] /\ want'[x] = want[x]
      BY <1>1, <1>7, <3>1 DEF Claim, Unclaimed, ClaimEntry, disk, TypeOK, View
    <3> QED
      BY <1>1, <1>7, <2>1, <3>1, <3>2, <3>3 DEF Claim
  <2> QED
    BY <2>2, <2>3
<1>8. ASSUME NEW p \in Proc, Look(p) PROVE PlanSafe'
  <2>1. /\ \A q \in Proc \ {p} : pc'[q] = "idle"
        /\ job'[p].todo = job[p].todo /\ job'[p].plan = job[p].plan
    BY <1>1, <1>3, <1>8 DEF Look, Job
  <2> QED
    BY <1>1, <1>8, <2>1 DEF Look, disk
<1>9. ASSUME NEW p \in Proc, Create(p) \/ Replace(p) \/ Backup(p) PROVE PlanSafe'
  <2>1. \A q \in Proc \ {p} : pc[q] = "idle"
    BY <1>3, <1>9 DEF Create, Replace, Backup
  <2>2. \/ End(p)
        \/ UNCHANGED <<want, manifest, job>> /\ pc[p] # "idle"
           /\ \A q \in Proc \ {p} : pc'[q] = pc[q]
    BY <1>1, <1>9 DEF Create, Replace, Backup, NewView, SwapView, KeepText, Then, Fails
  <2> QED
    BY <1>1, <1>4, <2>1, <2>2
<1>10. ASSUME NEW p \in Proc, Note(p) PROVE PlanSafe'
  <2>1. \A q \in Proc \ {p} : pc[q] = "idle"
    BY <1>3, <1>10 DEF Note
  <2>2. CASE End(p)
    BY <1>4, <2>1, <2>2
  <2>3. CASE ~End(p)
    <3>1. /\ job' = [job EXCEPT ![p].todo = @ \ {job[p].view}] /\ Goto(p, "claim")
          /\ NoteDigest(p)
      BY <1>10, <2>3 DEF Note, Fails
    <3>2. job'[p].todo = job[p].todo \ {job[p].view} /\ job'[p].plan = job[p].plan
      BY <1>1, <3>1 DEF Job
    <3>3. \A v \in View \ {job[p].view} : manifest'[v] = manifest[v]
      BY <1>1, <3>1 DEF NoteDigest, TypeOK
    <3> QED
      BY <1>1, <1>10, <2>1, <3>1, <3>2, <3>3 DEF Note, View
  <2> QED
    BY <2>2, <2>3
<1>12. ASSUME NEW p \in Proc, Recover(p) \/ Stop(p) PROVE PlanSafe'
  BY <1>3, <1>4, <1>12 DEF Recover, Stop, Fails
<1>13. CASE (\E v \in View : Edit(v) \/ Relocate(v)) \/ \E place \in locked : Unlock(place)
  BY <1>1, <1>13 DEF Edit, Relocate, Unlock, disk
<1>14. CASE Upgrade
  BY <1>1, <1>14 DEF Upgrade, Serial
<1> QED
  BY <1>2, <1>5, <1>6, <1>7, <1>8, <1>9, <1>10, <1>12, <1>13, <1>14 DEF Next, Step

LEMMA BackedStep ==
    ASSUME Inv, [Next]_vars
    PROVE  Backed'
<1> USE ConstantsAssumption DEF Backed, Goto
<1>1. /\ TypeOK /\ Serial /\ JobSound /\ Backed
      /\ pc \in [Proc -> Pc] /\ job \in [Proc -> Job] /\ holder \in Proc \cup {None}
  BY DEF Inv, TypeOK
<1>2. CASE UNCHANGED vars
  BY <1>1, <1>2 DEF vars, disk, recoveries, displaced, killed
<1>3. ASSUME NEW p \in Proc, End(p), Step(p) \/ Stop(p) PROVE Backed'
  <2>1. \/ UNCHANGED <<saved, ready>>
        \/ pc[p] = "backup" /\ KeepText(p)
        \/ pc[p] = "recover" /\ KeepRest(p)
    BY <1>3, DiskSteps DEF Writes, disk, recoveries, ClaimEntry, ListingOut, NewView, SwapView,
       ViewOut, NoteDigest
  <2>2. saved \subseteq saved' /\ \A v, m, w : <<v, m, w>> \in ready' => <<v, m>> \in saved'
    BY <1>1, <2>1 DEF KeepText, KeepRest, Recovery
  <2> QED
    BY <1>1, <1>3, <2>2 DEF End
<1>4. ASSUME NEW p \in Proc, Dashboard(p) PROVE Backed'
  <2>1. pc'[p] \in {"claim", "backup"} /\ \A q \in Proc \ {p} : pc'[q] = pc[q] /\ job'[q] = job[q]
    BY <1>1, <1>4 DEF Dashboard
  <2> QED
    BY <1>1, <1>4, <2>1 DEF Dashboard, disk, recoveries
<1>5. ASSUME NEW p \in Proc, NEW r \in Record, Publish(p, r) PROVE Backed'
  BY <1>1, <1>5 DEF Publish, disk, recoveries
<1>6. ASSUME NEW p \in Proc, NEW r \in Record, Repair(p, r) PROVE Backed'
  <2>1. job'[p].view = r /\ job'[p].seen = file[r]
    BY <1>1, <1>6 DEF Repair, NoJob
  <2>2. <<r, file[r]>> \in saved
    BY <1>1, <1>6 DEF Repair
  <2> QED
    BY <1>1, <1>6, <2>1, <2>2 DEF Repair, disk, recoveries
<1>7. ASSUME NEW p \in Proc, Claim(p) PROVE Backed'
  <2>1. CASE End(p)
    BY <1>3, <1>7, <2>1 DEF Step
  <2>2. CASE ~End(p)
    <3>1. /\ UNCHANGED <<saved, ready>> /\ Goto(p, "look")
          /\ \E v \in Following(p) : job' = [job EXCEPT ![p].view = v]
      BY <1>7, <2>2 DEF Claim, Fails, ClaimEntry, disk, recoveries
    <3> QED
      BY <1>1, <3>1
  <2> QED
    BY <2>1, <2>2
<1>8. ASSUME NEW p \in Proc, Look(p) PROVE Backed'
  <2>1. job[p].view \in View /\ manifest[job[p].view] \notin Mine
    BY <1>1, <1>8 DEF Look, JobSound, Writing, Known, TypeOK
  <2>2. CASE pc'[p] = "replace"
    <3>1. job'[p].seen = manifest[job[p].view]
      BY <1>1, <1>8, <2>2 DEF Look, Job
    <3> QED
      BY <1>1, <1>8, <2>1, <2>2, <3>1 DEF Look, disk, recoveries
  <2>3. CASE pc'[p] # "replace"
    <3>1. pc'[p] # "recover" /\ \A q \in Proc \ {p} : pc'[q] = pc[q] /\ job'[q] = job[q]
      BY <1>1, <1>8 DEF Look
    <3> QED
      BY <1>1, <1>8, <2>3, <3>1 DEF Look, disk, recoveries
  <2> QED
    BY <2>2, <2>3
<1>9. ASSUME NEW p \in Proc, Create(p) \/ Replace(p) PROVE Backed'
  <2>1. \/ End(p)
        \/ Then(p, "record") /\ UNCHANGED <<saved, ready>>
    BY <1>9 DEF Create, Replace, Fails, NewView, SwapView, recoveries
  <2> QED
    BY <1>1, <1>3, <1>9, <2>1 DEF Then, Step
<1>10. ASSUME NEW p \in Proc, Note(p) PROVE Backed'
  <2>1. CASE End(p)
    BY <1>3, <1>10, <2>1 DEF Step
  <2>2. CASE ~End(p)
    <3>1. /\ job' = [job EXCEPT ![p].todo = @ \ {job[p].view}] /\ Goto(p, "claim")
          /\ UNCHANGED <<saved, ready>>
      BY <1>10, <2>2 DEF Note, NoteDigest, Fails, recoveries
    <3> QED
      BY <1>1, <3>1
  <2> QED
    BY <2>1, <2>2
<1>11. ASSUME NEW p \in Proc, Backup(p) PROVE Backed'
  <2>1. CASE End(p)
    BY <1>3, <1>11, <2>1 DEF Step
  <2>2. CASE KeepText(p) /\ Then(p, "recover")
    BY <1>1, <2>2 DEF KeepText, Then
  <2> QED
    BY <1>11, <2>1, <2>2 DEF Backup, Fails
<1>12. ASSUME NEW p \in Proc, Recover(p) \/ Stop(p) PROVE Backed'
  BY <1>3, <1>12 DEF Recover, Stop, Fails, Step
<1>14. CASE (\E v \in View : Edit(v) \/ Relocate(v)) \/ Upgrade \/ \E place \in locked : Unlock(place)
  BY <1>1, <1>14 DEF Edit, Relocate, Upgrade, Unlock, disk, recoveries
<1> QED
  BY <1>2, <1>4, <1>5, <1>6, <1>7, <1>8, <1>9, <1>10, <1>11, <1>12, <1>14
     DEF Next, Step

LEMMA OwnedStep ==
    ASSUME Inv, [Next]_vars
    PROVE  OwnedBeforeWritten'
<1> USE ConstantsAssumption DEF OwnedBeforeWritten
<1>1. TypeOK /\ JobSound /\ OwnedBeforeWritten
  BY DEF Inv
<1>2. CASE /\ UNCHANGED file
           /\ \A r \in Record : manifest[r] # None \/ r \in lost => manifest'[r] # None \/ r \in lost'
  BY <1>1, <1>2
<1>3. ASSUME NEW p \in Proc, Step(p) \/ Stop(p) PROVE OwnedBeforeWritten'
  <2>1. CASE UNCHANGED <<file, manifest, lost>>
    BY <1>2, <2>1
  <2>2. CASE \E v \in job[p].todo \cap Record : ClaimEntry(v)
    BY <1>1, <1>2, <2>2 DEF ClaimEntry, displaced, TypeOK
  <2>3. CASE ListingOut
    BY <1>1, <1>2, <2>3 DEF ListingOut
  <2>4. CASE \/ pc[p] = "create" /\ NewView(p)
             \/ pc[p] = "replace" /\ (SwapView(p) \/ ViewOut(job[p].view))
    <3>1. \A r \in Record : file'[r] # file[r] => r = job[p].view
      BY <1>1, <2>4 DEF NewView, SwapView, ViewOut, TypeOK, View
    <3>2. job[p].view \in Record => manifest[job[p].view] # None
      BY <1>1, <2>4 DEF JobSound, Writing
    <3>3. UNCHANGED <<manifest, lost>>
      BY <2>4 DEF NewView, SwapView, ViewOut, displaced
    <3> QED
      BY <1>1, <3>1, <3>2, <3>3
  <2>5. CASE pc[p] = "record" /\ NoteDigest(p)
    <3>1. want[job[p].view] # None
      BY <1>1, <2>5 DEF JobSound, Writing, Known
    <3> QED
      BY <1>1, <1>2, <2>5, <3>1 DEF NoteDigest, Digest, displaced, TypeOK, View
  <2> QED
    BY <1>3, <2>1, <2>2, <2>3, <2>4, <2>5, DiskSteps
       DEF Writes, disk, displaced, KeepText, KeepRest
<1>6. ASSUME NEW v \in View, Edit(v) \/ Relocate(v) PROVE OwnedBeforeWritten'
  <2>1. \A r \in Record : file'[r] \in Version => file'[r] = file[r]
    BY <1>1, <1>6 DEF Edit, Relocate, TypeOK, View
  <2> QED
    BY <1>1, <1>6, <2>1 DEF Edit, Relocate, displaced
<1> QED
  BY <1>2, <1>3, <1>6 DEF Next, vars, disk, displaced, Dashboard, Publish, Repair,
     Upgrade, Unlock

LEMMA Invariant == Spec => []Inv
<1>1. Inv /\ [Next]_vars => Inv'
  BY TypeStep, SerialStep, JobStep, PlanStep, BackedStep, OwnedStep DEF Inv
<1> QED
  BY InitInv, <1>1, PTL DEF Spec

-----------------------------------------------------------------------------

\* The manifest, the backups and the commands stay well typed: a definition is
\* never backed up, and the manifest holds no digest of an owner's text.
THEOREM ProjectionTypes == Spec => []TypeOK
<1>1. Inv => TypeOK
  BY DEF Inv
<1> QED
  BY Invariant, <1>1, PTL

\* claim_projection_path comes before the write, wherever commands stop; only
\* an exchange of the manifest that ends in the middle takes the entry away, and
\* the displaced manifest still has it.
THEOREM ViewsAreOwned == Spec => []OwnedBeforeWritten
<1>1. Inv => OwnedBeforeWritten
  BY DEF Inv
<1> QED
  BY Invariant, <1>1, PTL

\* replace_exact only ever replaces generated bytes or backed-up text; one that
\* ends in the middle leaves what it took out in a displaced entry.
THEOREM OwnersTextKept == Spec => OwnersTextSafe
<1> DEFINE Kept == \A v \in View :
        file[v] \in Mine /\ file'[v] # file[v] /\ pc' # pc =>
            <<v, file[v]>> \in saved \cup aside'
<1>1. Inv /\ [Next]_vars => [Kept]_vars
  <2> SUFFICES ASSUME Inv, [Next]_vars, NEW v \in View,
                      file[v] \in Mine, file'[v] # file[v], pc' # pc
               PROVE  <<v, file[v]>> \in saved \cup aside'
    OBVIOUS
  <2>1. TypeOK /\ JobSound /\ Backed
    BY DEF Inv
  <2>2. PICK p \in Proc : Step(p) \/ Stop(p)
    BY DEF Next, vars, disk, Dashboard, Publish, Repair, Edit, Relocate, Upgrade, Unlock
  <2>3. PICK x \in {job[p].view} :
            \/ pc[p] = "create" /\ NewView(p)
            \/ pc[p] = "replace" /\ (SwapView(p) \/ ViewOut(x))
    BY <2>2, DiskSteps DEF Writes, disk, ClaimEntry, ListingOut, NoteDigest, KeepText, KeepRest
  <2>4. v = job[p].view
    BY <2>1, <2>3 DEF NewView, SwapView, ViewOut, TypeOK
  <2>5. CASE NewView(p)
    BY ConstantsAssumption, <2>1, <2>4, <2>5 DEF NewView, TypeOK
  <2>6. CASE pc[p] = "replace" /\ SwapView(p)
    BY <2>1, <2>4, <2>6 DEF SwapView, Backed
  <2>7. CASE ViewOut(v)
    BY <2>7 DEF ViewOut
  <2> QED
    BY <2>3, <2>4, <2>5, <2>6, <2>7
<1> QED
  BY Invariant, <1>1, PTL DEF Spec, OwnersTextSafe
=============================================================================

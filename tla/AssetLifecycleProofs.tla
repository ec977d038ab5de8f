------------------------- MODULE AssetLifecycleProofs -------------------------
(***************************************************************************)
(* For all processes, contents and drafts, however the file changes: what  *)
(* interrupted commands leave of an Asset and its Source, and what         *)
(* `mko check` says of it.                                                 *)
(***************************************************************************)
EXTENDS Check, TLAPS

-----------------------------------------------------------------------------
(* What is true of every record, and of what a process holds *)

\* A record of this model never fails, so it keeps at most one checkpoint,
\* and that is its last successful step.
Shape(r) ==
    /\ r.status # "failed"
    /\ IF r.status \in Stable THEN r.history = <<>> /\ r.step = r.status
       ELSE r.history = <<r.step>>

RecordOK(c) ==
    Registered(c) =>
        /\ Shape(asset[c])
        /\ asset[c].supersedes # None => Registered(asset[c].supersedes)

\* A process past the start of its command holds the lock of an Asset there is.
Working == Pc \ {"idle", "captured"}
Holds(p) ==
    /\ pc[p] # "idle" => job[p].asset \in Content
    /\ pc[p] \in Working =>
           Registered(job[p].asset) /\ lock[job[p].asset] = p

\* What each command found out at its start is still so.
AsFound(p) ==
    LET c == job[p].asset IN
    /\ pc[p] = "seen" =>
           \/ In(c, Stable) /\ job[p].to \in {"changed", "missing"}
           \/ In(c, {"changed", "missing"}) /\ job[p].to = asset[c].step
    /\ pc[p] = "prepared" => In(c, {"registered", "extracted"})
    /\ pc[p] = "drafted" =>
           /\ In(c, {"extracted", "review_pending", "processed"})
           /\ source[c] = None \/ Pending(c)
           /\ job[p].rev \in Draft
    /\ pc[p] = "mark" => In(c, Stable) /\ job[p].to \in Stable
    /\ pc[p] = "confirm" => In(c, {"review_pending"}) /\ job[p].rev \in Draft
    /\ pc[p] = "successor" => In(c, {"changed"}) /\ job[p].next \in Content \ {c}
    /\ pc[p] = "supersede" => In(c, {"changed"})
    /\ pc[p] = "stale" => In(c, {"superseded"})
    /\ pc[p] = "staling" => In(c, {"superseded"}) /\ job[p].read \in Source

Inv == /\ TypeOK
       /\ \A c \in Content : RecordOK(c)
       /\ \A p \in Proc : Holds(p) /\ AsFound(p)

-----------------------------------------------------------------------------
(* What moves of state.rs make of such a record *)

LEMMA ShapeIsValid ==
    ASSUME NEW r \in Asset, Shape(r)
    PROVE  Valid(r) /\ Base(r) = r.step
<1>1. r.status \in AssetStatus /\ r.step \in Stable
  BY DEF Asset
<1>2. CASE r.status \in Stable
  BY <1>1, <1>2 DEF Shape, Valid, Base, Stable
<1>3. CASE r.status \notin Stable
  <2>1. r.status \in {"changed", "missing", "superseded"}
    BY <1>1, <1>3 DEF Shape, AssetStatus, Recoverable
  <2>2. r.history = <<r.step>> /\ Len(r.history) = 1 /\ r.history[1] = r.step
    BY <1>1, <1>3 DEF Shape
  <2>3. r.history # <<>>
    BY <2>2
  <2>4. Base(r) = r.step /\ Top(r.history) = r.step
    BY <2>2, <2>3 DEF Base, Top
  <2>5. r.status # "superseded" => <<r.step, r.status>> \in Stable \X Recoverable
    BY <1>1, <2>1 DEF Recoverable
  <2>6. r.status # "superseded" => <<r.step, r.status>> \in Allowed
    BY <2>5 DEF Allowed
  <2> QED
    BY <1>1, <1>3, <2>2, <2>4, <2>6 DEF Valid
<1> QED
  BY <1>2, <1>3

\* A file found changed or missing: the state is kept as the checkpoint.
LEMMA MovedAside ==
    ASSUME NEW r \in Asset, Shape(r), r.status \in Stable,
           NEW to \in {"changed", "missing"}
    PROVE  /\ Moved(r, to) \in Asset /\ Shape(Moved(r, to))
           /\ Moved(r, to).status = to /\ Moved(r, to).step = r.step
           /\ Moved(r, to).supersedes = r.supersedes
<1>1. to \in Recoverable /\ to \notin Stable /\ to \in AssetStatus /\ to # "failed"
  BY DEF Recoverable, Stable, AssetStatus
<1>2. ~Recovers(r.status, to)
  BY DEF Recovers, Recoverable, Stable
<1>3. r.history = <<>> /\ r.step = r.status /\ r.status \in AssetStatus
  BY DEF Shape, Asset
<1>4. Moved(r, to) = [r EXCEPT !.status = to, !.history = <<r.step>>, !.step = r.step]
  BY <1>1, <1>2, <1>3 DEF Moved, Asset
<1>5. <<r.step>> \in History
  BY <1>3 DEF History
<1> QED
  BY <1>1, <1>4, <1>5 DEF Asset, Shape

\* A file found as it was again: back to the checkpoint.
LEMMA MovedBack ==
    ASSUME NEW r \in Asset, Shape(r), r.status \in {"changed", "missing"}
    PROVE  /\ Moved(r, r.step) \in Asset /\ Shape(Moved(r, r.step))
           /\ Moved(r, r.step).status = r.step /\ Moved(r, r.step).step = r.step
           /\ Moved(r, r.step).supersedes = r.supersedes
<1>1. r.step \in Stable /\ r.step \in AssetStatus /\ r.status \notin Stable
  BY DEF Asset, Stable, AssetStatus
<1>2. Recovers(r.status, r.step)
  BY <1>1 DEF Recovers, Recoverable, Stable
<1>3. r.history = <<r.step>>
  BY <1>1 DEF Shape
<1>4. SubSeq(r.history, 1, Len(r.history) - 1) = <<>>
  BY <1>3
<1>5. Moved(r, r.step) = [r EXCEPT !.status = r.step, !.history = <<>>, !.step = r.step]
  BY <1>1, <1>2, <1>4 DEF Moved, Asset
<1>6. <<>> \in History /\ r.step # "failed"
  BY <1>1 DEF History, Stable
<1> QED
  BY <1>1, <1>5, <1>6 DEF Asset, Shape

\* A step forward, or none.
LEMMA MovedOn ==
    ASSUME NEW r \in Asset, Shape(r), r.status \in Stable, NEW to \in Stable
    PROVE  /\ Moved(r, to) \in Asset /\ Shape(Moved(r, to))
           /\ Moved(r, to).status = to /\ Moved(r, to).step = to
           /\ Moved(r, to).supersedes = r.supersedes
<1>1. to \notin Recoverable /\ to # "failed" /\ to \in AssetStatus
  BY DEF Recoverable, Stable, AssetStatus
<1>2. ~Recovers(r.status, to)
  BY DEF Recovers, Recoverable, Stable
<1>3. r.history = <<>> /\ r.history \in History
  BY DEF Shape, Asset
<1>4. Moved(r, to) = [r EXCEPT !.status = to, !.history = <<>>, !.step = to]
  BY <1>1, <1>2, <1>3 DEF Moved, Asset
<1> QED
  BY <1>1, <1>3, <1>4 DEF Asset, Shape

\* A changed Asset is superseded and keeps its checkpoint.
LEMMA MovedOut ==
    ASSUME NEW r \in Asset, Shape(r), r.status = "changed"
    PROVE  /\ Moved(r, "superseded") \in Asset /\ Shape(Moved(r, "superseded"))
           /\ Moved(r, "superseded").status = "superseded"
           /\ Moved(r, "superseded").step = r.step
           /\ Moved(r, "superseded").supersedes = r.supersedes
<1>1. ~Recovers(r.status, "superseded") /\ "superseded" \notin Recoverable \cup Stable
  BY DEF Recovers, Recoverable, Stable
<1>2. Moved(r, "superseded") =
          [r EXCEPT !.status = "superseded", !.history = r.history, !.step = r.step]
  BY <1>1 DEF Moved, Asset
<1> QED
  BY <1>1, <1>2 DEF Asset, Shape, AssetStatus, Stable

LEMMA FreshShape ==
    ASSUME NEW c, NEW old \in Content \cup {None}
    PROVE  Fresh(c, old) \in Asset /\ Shape(Fresh(c, old)) /\ Fresh(c, old).supersedes = old
BY DEF Fresh, Asset, Shape, History, AssetStatus, Stable

-----------------------------------------------------------------------------
(* Processes keep out of each other's way *)

\* p leaves alone what every other process is working on.
Apart(p) ==
    \A q \in Proc \ {p} :
        /\ pc'[q] = pc[q] /\ job'[q] = job[q]
        /\ pc[q] \in Working =>
               LET d == job[q].asset IN
               asset'[d] = asset[d] /\ source'[d] = source[d] /\ lock'[d] = lock[d]

LEMMA ApartKeeps ==
    ASSUME Inv, NEW p \in Proc, Apart(p)
    PROVE  \A q \in Proc \ {p} : Holds(q)' /\ AsFound(q)'
<1> SUFFICES ASSUME NEW q \in Proc \ {p} PROVE Holds(q)' /\ AsFound(q)'
  OBVIOUS
<1>1. pc'[q] = pc[q] /\ job'[q] = job[q] /\ Holds(q) /\ AsFound(q)
  BY DEF Apart, Inv
<1>2. CASE pc[q] \in Working
  BY <1>1, <1>2 DEF Apart, Holds, AsFound, Registered, In, Pending
<1>3. CASE pc[q] \notin Working
  <2>1. pc[q] \in {"idle", "captured"}
    BY <1>3 DEF Inv, TypeOK, Working
  <2> QED
    BY <1>1, <1>3, <2>1 DEF Holds, AsFound
<1> QED
  BY <1>2, <1>3

\* A lock that is free, or p's own, is not another worker's.
LEMMA NotAnothers ==
    ASSUME Inv, NEW p \in Proc, NEW c \in Content, lock[c] \in {None, p},
           NEW q \in Proc \ {p}, pc[q] \in Working
    PROVE  job[q].asset # c /\ job[q].asset \in Content /\ lock[job[q].asset] = q
BY ConstantsAssumption DEF Inv, Holds, Working

\* So a step that touches one Asset, whose lock is free or p's, is apart.
LEMMA TouchesOne ==
    ASSUME Inv, NEW p \in Proc, NEW c \in Content, lock[c] \in {None, p},
           \A q \in Proc \ {p} : pc'[q] = pc[q] /\ job'[q] = job[q],
           \A d \in Content \ {c} :
               \/ /\ asset'[d] = asset[d] /\ source'[d] = source[d]
                  /\ lock[d] # p => lock'[d] = lock[d]
    PROVE  Apart(p)
BY NotAnothers DEF Apart

LEMMA EndApart ==
    ASSUME Inv, NEW p \in Proc, End(p)
    PROVE  /\ \A q \in Proc \ {p} : pc'[q] = pc[q] /\ job'[q] = job[q]
           /\ \A d \in Content : lock[d] # p => lock'[d] = lock[d]
           /\ pc'[p] = "idle" /\ job'[p] = NoJob
           /\ pc' \in [Proc -> Pc] /\ job' \in [Proc -> Job]
           /\ lock' \in [Content -> Proc \cup {None}]
           /\ Holds(p)' /\ AsFound(p)'
<1>1. NoJob \in Job
  BY DEF NoJob, Job, AssetStatus, Stable
<1>2. /\ pc' = [pc EXCEPT ![p] = "idle"] /\ job' = [job EXCEPT ![p] = NoJob]
      /\ lock' = [c \in Content |-> IF lock[c] = p THEN None ELSE lock[c]]
  BY DEF End, Goto
<1>3. TypeOK
  BY DEF Inv
<1>4. pc'[p] = "idle" /\ pc' \in [Proc -> Pc] /\ job'[p] = NoJob /\ job' \in [Proc -> Job]
  BY <1>1, <1>2, <1>3 DEF TypeOK, Pc
<1>5. Holds(p)' /\ AsFound(p)'
  BY <1>4 DEF Holds, AsFound, Working
<1>6. lock' \in [Content -> Proc \cup {None}]
  BY <1>2, <1>3 DEF TypeOK
<1> QED
  BY <1>2, <1>3, <1>4, <1>5, <1>6 DEF TypeOK

-----------------------------------------------------------------------------
(* Records: each is moved on its own, and none disappears *)

LEMMA RecordsMoved ==
    ASSUME Inv, NEW c \in Content, NEW r \in Asset, Shape(r),
           asset' = [asset EXCEPT ![c] = r],
           r.supersedes # None => Registered(r.supersedes)
    PROVE  /\ asset' \in [Content -> Asset \cup {None}]
           /\ \A d \in Content : RecordOK(d)'
           /\ \A d \in Content : Registered(d) => Registered(d)'
<1>1. TypeOK /\ \A d \in Content : RecordOK(d)
  BY DEF Inv
<1>2. asset' \in [Content -> Asset \cup {None}]
  BY <1>1 DEF TypeOK
<1>3. r # None
  BY NoneAssumption
<1>4. \A d \in Content : Registered(d) => Registered(d)'
  BY <1>1, <1>3 DEF TypeOK, Registered
<1>5. r.supersedes \in Content \cup {None}
  BY DEF Asset
<1>6. RecordOK(c)'
  BY <1>1, <1>4, <1>5 DEF TypeOK, RecordOK
<1>7. ASSUME NEW d \in Content \ {c}, Registered(d)
      PROVE  RecordOK(d)'
  <2>1. asset'[d] = asset[d] /\ asset[d] \in Asset
    BY <1>1, <1>7 DEF TypeOK, Registered
  <2>2. asset[d].supersedes \in Content \cup {None}
    BY <2>1 DEF Asset
  <2> QED
    BY <1>1, <1>4, <1>7, <2>1, <2>2 DEF RecordOK
<1>8. ASSUME NEW d \in Content \ {c}, ~Registered(d)
      PROVE  RecordOK(d)'
  BY <1>1, <1>8 DEF TypeOK, Registered, RecordOK
<1> QED
  BY <1>2, <1>4, <1>6, <1>7, <1>8

LEMMA RecordsKept ==
    ASSUME Inv, asset' = asset
    PROVE  \A d \in Content : RecordOK(d)'
BY DEF Inv, RecordOK, Registered

-----------------------------------------------------------------------------
(* Every step keeps the invariant: first the starts of the commands *)

\* What a command's start leaves of the invariant to show: what it found out.
LEMMA Starting ==
    ASSUME Inv, NEW p \in Proc, NEW c \in Content, Begin(p, c), Registered(c),
           NEW j \in Job, j.asset = c, Set(p, j),
           NEW s \in Working, Goto(p, s), UNCHANGED <<disk, files>>
    PROVE  /\ pc'[p] = s /\ job'[p] = j
           /\ Apart(p) /\ TypeOK' /\ Holds(p)'
           /\ \A d \in Content : RecordOK(d)'
           /\ (AsFound(p)' => Inv')
<1>1. TypeOK
  BY DEF Inv
<1>2. /\ pc' = [pc EXCEPT ![p] = s] /\ job' = [job EXCEPT ![p] = j]
      /\ lock' = [lock EXCEPT ![c] = p] /\ lock[c] = None /\ s \in Pc
      /\ disk' = disk /\ asset' = asset /\ bundle' = bundle /\ source' = source
  BY DEF Begin, Set, Goto, files, Working
<1>3. /\ pc'[p] = s /\ job'[p] = j /\ lock'[c] = p
      /\ \A q \in Proc \ {p} : pc'[q] = pc[q] /\ job'[q] = job[q]
      /\ \A d \in Content \ {c} : lock'[d] = lock[d]
  BY <1>1, <1>2 DEF TypeOK
<1>4. TypeOK'
  BY <1>1, <1>2 DEF TypeOK
<1>5. Apart(p)
  BY <1>2, <1>3, TouchesOne
<1>6. Holds(p)'
  BY <1>2, <1>3 DEF Holds, Registered
<1>7. \A d \in Content : RecordOK(d)'
  BY <1>2, RecordsKept
<1>8. AsFound(p)' => Inv'
  BY <1>4, <1>5, <1>6, <1>7, ApartKeeps DEF Inv
<1> QED
  BY <1>3, <1>4, <1>5, <1>6, <1>7, <1>8

LEMMA InspectKeeps ==
    ASSUME Inv, NEW p \in Proc, NEW c \in Content, Inspect(p, c)
    PROVE  Inv' /\ Apart(p)
<1> DEFINE j == [NoJob EXCEPT !.asset = c, !.to = Observed(c)]
<1>1. /\ Begin(p, c) /\ In(c, AssetStatus \ {"superseded"}) /\ Registered(c)
      /\ Observed(c) # asset[c].status /\ CanMove(asset[c], Observed(c))
      /\ Set(p, j) /\ Goto(p, "seen") /\ UNCHANGED <<disk, files>>
  BY DEF Inspect, In
<1>2. asset[c] \in Asset /\ Shape(asset[c])
  BY <1>1 DEF Inv, TypeOK, RecordOK, Registered
<1>3. \/ asset[c].status \in Stable /\ Observed(c) \in {"changed", "missing"}
      \/ asset[c].status \in {"changed", "missing"} /\ Observed(c) = asset[c].step
  <2>1. CASE asset[c].status \in Stable
    BY <1>1, <1>2, <2>1 DEF Shape, Observed
  <2>2. CASE asset[c].status \notin Stable
    <3>1. asset[c].status \in {"changed", "missing"}
      BY <1>1, <1>2, <2>2 DEF In, Shape, AssetStatus, Recoverable
    <3>2. asset[c].history = <<asset[c].step>>
      BY <1>2, <2>2 DEF Shape
    <3>3. asset[c].history # <<>> /\ Top(asset[c].history) = asset[c].step
      BY <3>2 DEF Top
    <3>4. Observed(c) \notin {"changed", "missing"}
      BY <1>1, <3>1 DEF CanMove, Allowed, Stable, Recoverable, AssetStatus
    <3> QED
      BY <3>1, <3>3, <3>4 DEF Observed
  <2> QED
    BY <2>1, <2>2
<1>4. Observed(c) \in AssetStatus
  BY <1>2, <1>3 DEF Asset, AssetStatus, Stable, Recoverable
<1>5. j \in Job /\ j.asset = c /\ j.to = Observed(c)
  BY <1>4 DEF NoJob, Job
<1>6. "seen" \in Working
  BY DEF Working, Pc
<1> HIDE DEF j
<1>7. /\ pc'[p] = "seen" /\ job'[p] = j /\ Apart(p) /\ (AsFound(p)' => Inv')
  BY <1>1, <1>5, <1>6, Starting
<1>8. AsFound(p)'
  BY <1>1, <1>3, <1>5, <1>7 DEF AsFound, In, Registered, files
<1> QED
  BY <1>7, <1>8

LEMMA PrepareKeeps ==
    ASSUME Inv, NEW p \in Proc, NEW c \in Content, Prepare(p, c)
    PROVE  Inv' /\ Apart(p)
<1> DEFINE j == [NoJob EXCEPT !.asset = c]
<1>1. /\ Begin(p, c) /\ In(c, {"registered", "extracted"}) /\ Registered(c)
      /\ Set(p, j) /\ Goto(p, "prepared") /\ UNCHANGED <<disk, files>>
  BY DEF Prepare, In
<1>2. j \in Job /\ j.asset = c /\ "prepared" \in Working
  BY DEF NoJob, Job, AssetStatus, Stable, Working, Pc
<1> HIDE DEF j
<1>3. /\ pc'[p] = "prepared" /\ job'[p] = j /\ Apart(p) /\ (AsFound(p)' => Inv')
  BY <1>1, <1>2, Starting
<1>4. AsFound(p)'
  BY <1>1, <1>2, <1>3 DEF AsFound, In, Registered, files
<1> QED
  BY <1>3, <1>4

LEMMA WriteDraftKeeps ==
    ASSUME Inv, NEW p \in Proc, NEW c \in Content, WriteDraft(p, c)
    PROVE  Inv' /\ Apart(p)
<1>1. /\ Begin(p, c) /\ In(c, {"extracted", "review_pending", "processed"}) /\ Registered(c)
      /\ source[c] = None \/ Pending(c)
      /\ UNCHANGED <<disk, files>>
  BY DEF WriteDraft, In
<1>2. PICK d \in Draft :
         \/ /\ In(c, {"extracted"}) /\ Goto(p, "mark")
            /\ Set(p, [NoJob EXCEPT !.asset = c, !.to = "review_pending"])
         \/ Set(p, [NoJob EXCEPT !.asset = c, !.rev = d]) /\ Goto(p, "drafted")
  BY Zenon DEF WriteDraft
<1>3. CASE /\ In(c, {"extracted"}) /\ Goto(p, "mark")
           /\ Set(p, [NoJob EXCEPT !.asset = c, !.to = "review_pending"])
  <2> DEFINE j == [NoJob EXCEPT !.asset = c, !.to = "review_pending"]
  <2>1. Set(p, j) /\ "review_pending" \in Stable /\ In(c, Stable)
    BY <1>3 DEF Stable, In
  <2>2. j \in Job /\ j.asset = c /\ j.to = "review_pending" /\ "mark" \in Working
    BY DEF NoJob, Job, AssetStatus, Stable, Working, Pc
  <2> HIDE DEF j
  <2>3. /\ pc'[p] = "mark" /\ job'[p] = j /\ Apart(p) /\ (AsFound(p)' => Inv')
    BY <1>1, <1>3, <2>1, <2>2, Starting
  <2>4. AsFound(p)'
    BY <1>1, <2>1, <2>2, <2>3 DEF AsFound, In, Registered, files
  <2> QED
    BY <2>3, <2>4
<1>4. CASE Set(p, [NoJob EXCEPT !.asset = c, !.rev = d]) /\ Goto(p, "drafted")
  <2> DEFINE j == [NoJob EXCEPT !.asset = c, !.rev = d]
  <2>1. Set(p, j)
    BY <1>4
  <2>2. j \in Job /\ j.asset = c /\ j.rev = d /\ "drafted" \in Working
    BY DEF NoJob, Job, AssetStatus, Stable, Working, Pc
  <2> HIDE DEF j
  <2>3. /\ pc'[p] = "drafted" /\ job'[p] = j /\ Apart(p) /\ (AsFound(p)' => Inv')
    BY <1>1, <1>4, <2>1, <2>2, Starting
  <2>4. AsFound(p)'
    BY <1>1, <2>2, <2>3 DEF AsFound, In, Registered, Pending, files
  <2> QED
    BY <2>3, <2>4
<1> QED
  BY <1>2, <1>3, <1>4

LEMMA RepairStateKeeps ==
    ASSUME Inv, NEW p \in Proc, NEW c \in Content, RepairState(p, c)
    PROVE  Inv' /\ Apart(p)
<1>1. /\ Begin(p, c) /\ RepairTo(c) # None /\ UNCHANGED <<disk, files>>
  BY DEF RepairState
<1>2. /\ Registered(c)
      /\ \/ RepairTo(c) = "stale" /\ In(c, {"superseded"})
         \/ /\ RepairTo(c) \in {"review_pending", "processed"}
            /\ In(c, {"extracted", "review_pending", "processed"})
  BY <1>1 DEF RepairTo, In
<1>3. CASE RepairTo(c) = "stale"
  <2> DEFINE j == [NoJob EXCEPT !.asset = c]
  <2>1. Set(p, j) /\ Goto(p, "stale") /\ In(c, {"superseded"})
    BY <1>2, <1>3 DEF RepairState
  <2>2. j \in Job /\ j.asset = c /\ "stale" \in Working
    BY DEF NoJob, Job, AssetStatus, Stable, Working, Pc
  <2> HIDE DEF j
  <2>3. /\ pc'[p] = "stale" /\ job'[p] = j /\ Apart(p) /\ (AsFound(p)' => Inv')
    BY <1>1, <1>2, <2>1, <2>2, Starting
  <2>4. AsFound(p)'
    BY <1>1, <2>1, <2>2, <2>3 DEF AsFound, In, Registered, files
  <2> QED
    BY <2>3, <2>4
<1>4. CASE RepairTo(c) # "stale"
  <2> DEFINE j == [NoJob EXCEPT !.asset = c, !.to = RepairTo(c)]
  <2>1. Set(p, j) /\ Goto(p, "mark") /\ RepairTo(c) \in Stable /\ In(c, Stable)
    BY <1>2, <1>4 DEF RepairState, Stable, In
  <2>2. j \in Job /\ j.asset = c /\ j.to = RepairTo(c) /\ "mark" \in Working
    BY <2>1 DEF NoJob, Job, AssetStatus, Working, Pc
  <2> HIDE DEF j
  <2>3. /\ pc'[p] = "mark" /\ job'[p] = j /\ Apart(p) /\ (AsFound(p)' => Inv')
    BY <1>1, <1>2, <2>1, <2>2, Starting
  <2>4. AsFound(p)'
    BY <1>1, <2>1, <2>2, <2>3 DEF AsFound, In, Registered, files
  <2> QED
    BY <2>3, <2>4
<1> QED
  BY <1>3, <1>4

LEMMA ApproveKeeps ==
    ASSUME Inv, NEW p \in Proc, NEW c \in Content, Approve(p, c)
    PROVE  Inv' /\ Apart(p)
<1> DEFINE j == [NoJob EXCEPT !.asset = c, !.rev = source[c].rev]
<1>1. /\ Begin(p, c) /\ Registered(c) /\ Pending(c) /\ In(c, {"review_pending"})
      /\ Set(p, j) /\ Goto(p, "confirm") /\ UNCHANGED <<disk, files>>
  BY DEF Approve, In
<1>2. source[c].rev \in Draft
  BY <1>1 DEF Inv, TypeOK, Pending, Source
<1>3. j \in Job /\ j.asset = c /\ j.rev = source[c].rev /\ "confirm" \in Working
  BY <1>2 DEF NoJob, Job, AssetStatus, Stable, Working, Pc
<1> HIDE DEF j
<1>4. /\ pc'[p] = "confirm" /\ job'[p] = j /\ Apart(p) /\ (AsFound(p)' => Inv')
  BY <1>1, <1>3, Starting
<1>5. AsFound(p)'
  BY <1>1, <1>2, <1>3, <1>4 DEF AsFound, In, Registered, files
<1> QED
  BY <1>4, <1>5

LEMMA AcceptKeeps ==
    ASSUME Inv, NEW p \in Proc, NEW c \in Content, Accept(p, c)
    PROVE  Inv' /\ Apart(p)
<1> DEFINE j == [NoJob EXCEPT !.asset = c, !.next = disk]
<1>1. /\ Begin(p, c) /\ Registered(c) /\ In(c, {"changed"}) /\ disk \in Content \ {c}
      /\ Set(p, j) /\ Goto(p, "successor") /\ UNCHANGED <<disk, files>>
  BY DEF Accept, In, Inv, TypeOK
<1>2. j \in Job /\ j.asset = c /\ j.next = disk /\ "successor" \in Working
  BY <1>1 DEF NoJob, Job, AssetStatus, Stable, Working, Pc
<1> HIDE DEF j
<1>3. /\ pc'[p] = "successor" /\ job'[p] = j /\ Apart(p) /\ (AsFound(p)' => Inv')
  BY <1>1, <1>2, Starting
<1>4. AsFound(p)'
  BY <1>1, <1>2, <1>3 DEF AsFound, In, Registered, files
<1> QED
  BY <1>3, <1>4

LEMMA RepairLineageKeeps ==
    ASSUME Inv, NEW p \in Proc, NEW c \in Content, RepairLineage(p, c)
    PROVE  Inv' /\ Apart(p)
<1> DEFINE j == [NoJob EXCEPT !.asset = c]
<1>1. /\ Begin(p, c) /\ Registered(c) /\ Set(p, j) /\ UNCHANGED <<disk, files>>
      /\ \/ In(c, {"superseded"}) /\ Goto(p, "stale")
         \/ In(c, {"changed"}) /\ Goto(p, "supersede")
  BY DEF RepairLineage, In
<1>2. j \in Job /\ j.asset = c /\ "stale" \in Working /\ "supersede" \in Working
  BY DEF NoJob, Job, AssetStatus, Stable, Working, Pc
<1> HIDE DEF j
<1>3. CASE In(c, {"superseded"}) /\ Goto(p, "stale")
  <2>1. /\ pc'[p] = "stale" /\ job'[p] = j /\ Apart(p) /\ (AsFound(p)' => Inv')
    BY <1>1, <1>2, <1>3, Starting
  <2>2. AsFound(p)'
    BY <1>1, <1>2, <1>3, <2>1 DEF AsFound, In, Registered, files
  <2> QED
    BY <2>1, <2>2
<1>4. CASE In(c, {"changed"}) /\ Goto(p, "supersede")
  <2>1. /\ pc'[p] = "supersede" /\ job'[p] = j /\ Apart(p) /\ (AsFound(p)' => Inv')
    BY <1>1, <1>2, <1>4, Starting
  <2>2. AsFound(p)'
    BY <1>1, <1>2, <1>4, <2>1 DEF AsFound, In, Registered, files
  <2> QED
    BY <2>1, <2>2
<1> QED
  BY <1>1, <1>3, <1>4

LEMMA StartsQuietly ==
    ASSUME NEW p \in Proc, NEW c \in Content, Start(p, c)
    PROVE  UNCHANGED <<disk, asset, bundle, source>>
<1>1. CASE WriteDraft(p, c)
  BY <1>1, Zenon DEF WriteDraft, files
<1> QED
  BY <1>1 DEF Start, Inspect, Prepare, RepairState, Approve, Accept, RepairLineage, files

LEMMA StartKeeps ==
    ASSUME Inv, NEW p \in Proc, NEW c \in Content, Start(p, c)
    PROVE  Inv' /\ Apart(p)
BY InspectKeeps, PrepareKeeps, WriteDraftKeeps, RepairStateKeeps, ApproveKeeps,
   AcceptKeeps, RepairLineageKeeps DEF Start

-----------------------------------------------------------------------------
(* The writes of the commands, one after another *)

\* What a process at work has: its Asset, which is registered, and the lock.
LEMMA AtWork ==
    ASSUME Inv, NEW p \in Proc, pc[p] \in Working
    PROVE  LET c == job[p].asset IN
           /\ c \in Content /\ Registered(c) /\ lock[c] = p
           /\ asset[c] \in Asset /\ Shape(asset[c])
           /\ asset[c].supersedes # None => Registered(asset[c].supersedes)
BY DEF Inv, Holds, TypeOK, RecordOK, Registered, Working

\* The last write of a command, when it replaces the record of its Asset.
LEMMA MovedAndDone ==
    ASSUME Inv, NEW p \in Proc, pc[p] \in Working,
           NEW r \in Asset, Shape(r), r.supersedes = asset[job[p].asset].supersedes,
           asset' = [asset EXCEPT ![job[p].asset] = r],
           End(p), UNCHANGED <<disk, bundle, source>>
    PROVE  Inv' /\ Apart(p)
<1> DEFINE c == job[p].asset
<1>1. /\ c \in Content /\ lock[c] = p
      /\ r.supersedes # None => Registered(r.supersedes)
  BY AtWork
<1>2. /\ asset' \in [Content -> Asset \cup {None}] /\ \A d \in Content : RecordOK(d)'
  BY <1>1, RecordsMoved
<1>3. \A d \in Content \ {c} : asset'[d] = asset[d] /\ source'[d] = source[d]
  BY <1>1 DEF Inv, TypeOK
<1>4. /\ \A q \in Proc \ {p} : pc'[q] = pc[q] /\ job'[q] = job[q]
      /\ \A d \in Content : lock[d] # p => lock'[d] = lock[d]
      /\ pc' \in [Proc -> Pc] /\ job' \in [Proc -> Job]
      /\ lock' \in [Content -> Proc \cup {None}]
      /\ Holds(p)' /\ AsFound(p)'
  BY EndApart
<1>5. TypeOK'
  BY <1>2, <1>4 DEF TypeOK, Inv
<1> HIDE DEF c
<1>6. Apart(p)
  BY <1>1, <1>3, <1>4, TouchesOne
<1> QED
  BY <1>2, <1>4, <1>5, <1>6, ApartKeeps DEF Inv

LEMMA CaptureKeeps ==
    ASSUME Inv, NEW p \in Proc, Capture(p)
    PROVE  Inv' /\ Apart(p)
<1> DEFINE c == job[p].asset
<1>1. /\ c \in Content /\ End(p) /\ UNCHANGED <<disk, bundle, source>>
      /\ asset' = [asset EXCEPT ![c] = IF Registered(c) THEN @ ELSE Fresh(c, None)]
  BY DEF Capture, Inv, Holds
<1>2. asset \in [Content -> Asset \cup {None}] /\ bundle \in SUBSET Content
  BY DEF Inv, TypeOK
<1>3. /\ asset' \in [Content -> Asset \cup {None}]
      /\ \A d \in Content : RecordOK(d)'
  <2>1. CASE Registered(c)
    <3>1. asset' = asset
      BY <1>1, <1>2, <2>1
    <3> QED
      BY <1>2, <3>1, RecordsKept
  <2>2. CASE ~Registered(c)
    <3>1. asset' = [asset EXCEPT ![c] = Fresh(c, None)]
      BY <1>1, <2>2
    <3> QED
      BY <1>1, <3>1, FreshShape, RecordsMoved
  <2> QED
    BY <2>1, <2>2
<1>4. /\ \A q \in Proc \ {p} : pc'[q] = pc[q] /\ job'[q] = job[q]
      /\ \A d \in Content : lock[d] # p => lock'[d] = lock[d]
      /\ pc' \in [Proc -> Pc] /\ job' \in [Proc -> Job]
      /\ lock' \in [Content -> Proc \cup {None}]
      /\ Holds(p)' /\ AsFound(p)'
  BY <1>1, EndApart
<1>5. TypeOK'
  BY <1>1, <1>3, <1>4 DEF TypeOK, Inv
<1>6. Apart(p)
  <2> SUFFICES ASSUME NEW q \in Proc \ {p}, pc[q] \in Working
               PROVE  LET d == job[q].asset IN
                      asset'[d] = asset[d] /\ source'[d] = source[d] /\ lock'[d] = lock[d]
    BY <1>4 DEF Apart
  <2>1. /\ job[q].asset \in Content /\ Registered(job[q].asset) /\ lock[job[q].asset] = q
    BY AtWork
  <2> QED
    BY <1>1, <1>2, <1>4, <2>1
<1> QED
  BY <1>3, <1>4, <1>5, <1>6, ApartKeeps DEF Inv

LEMMA SeenKeeps ==
    ASSUME Inv, NEW p \in Proc, Seen(p)
    PROVE  Inv' /\ Apart(p)
<1> DEFINE c == job[p].asset
           r == Moved(asset[c], job[p].to)
<1>1. pc[p] = "seen" /\ pc[p] \in Working
  BY DEF Seen, Working, Pc
<1>2. asset[c] \in Asset /\ Shape(asset[c])
  BY <1>1, AtWork
<1>3. \/ asset[c].status \in Stable /\ job[p].to \in {"changed", "missing"}
      \/ asset[c].status \in {"changed", "missing"} /\ job[p].to = asset[c].step
  BY <1>1 DEF Inv, AsFound, In
<1>4. r \in Asset /\ Shape(r) /\ r.supersedes = asset[c].supersedes
  BY <1>2, <1>3, MovedAside, MovedBack
<1>5. /\ asset' = [asset EXCEPT ![c] = r] /\ End(p) /\ UNCHANGED <<disk, bundle, source>>
  BY DEF Seen
<1> HIDE DEF r
<1> QED
  BY <1>1, <1>4, <1>5, MovedAndDone

LEMMA MarkKeeps ==
    ASSUME Inv, NEW p \in Proc, Mark(p)
    PROVE  Inv' /\ Apart(p)
<1> DEFINE c == job[p].asset
           r == IF CanMove(asset[c], job[p].to) THEN Moved(asset[c], job[p].to) ELSE asset[c]
<1>1. pc[p] = "mark" /\ pc[p] \in Working
  BY DEF Mark, Working, Pc
<1>2. asset[c] \in Asset /\ Shape(asset[c]) /\ c \in Content
  BY <1>1, AtWork
<1>3. asset[c].status \in Stable /\ job[p].to \in Stable
  BY <1>1 DEF Inv, AsFound, In
<1>4. r \in Asset /\ Shape(r) /\ r.supersedes = asset[c].supersedes
  BY <1>2, <1>3, MovedOn
<1>5. /\ asset' = [asset EXCEPT ![c] = r] /\ End(p) /\ UNCHANGED <<disk, bundle, source>>
  BY <1>2 DEF Mark, Inv, TypeOK
<1> HIDE DEF r
<1> QED
  BY <1>1, <1>4, <1>5, MovedAndDone

LEMMA PublishedKeeps ==
    ASSUME Inv, NEW p \in Proc, Published(p)
    PROVE  Inv' /\ Apart(p)
<1> DEFINE c == job[p].asset
           r == Moved(asset[c], "processed")
<1>1. pc[p] = "approved" /\ pc[p] \in Working
  BY DEF Published, Working, Pc
<1>2. asset[c] \in Asset /\ Shape(asset[c])
  BY <1>1, AtWork
<1>3. asset[c].status \in Stable /\ "processed" \in Stable
  BY DEF Published, In, Stable
<1>4. r \in Asset /\ Shape(r) /\ r.supersedes = asset[c].supersedes
  BY <1>2, <1>3, MovedOn
<1>5. /\ asset' = [asset EXCEPT ![c] = r] /\ End(p) /\ UNCHANGED <<disk, bundle, source>>
  BY DEF Published
<1> HIDE DEF r
<1> QED
  BY <1>1, <1>4, <1>5, MovedAndDone

LEMMA PreparedKeeps ==
    ASSUME Inv, NEW p \in Proc, Prepared(p)
    PROVE  Inv' /\ Apart(p)
<1> DEFINE c == job[p].asset
<1>1. pc[p] = "prepared" /\ pc[p] \in Working /\ TypeOK
  BY DEF Prepared, Working, Pc, Inv
<1>2. c \in Content /\ lock[c] = p /\ Registered(c)
  BY <1>1, AtWork
<1>3. /\ UNCHANGED <<disk, asset, source>> /\ bundle' \in SUBSET Content
      /\ \A d \in Content : RecordOK(d)'
  BY <1>1, <1>2, RecordsKept DEF Prepared, TypeOK
<1>4. CASE In(c, {"registered"})
  <2>1. /\ job' = [job EXCEPT ![p] = [job[p] EXCEPT !.to = "extracted"]]
        /\ pc' = [pc EXCEPT ![p] = "mark"] /\ lock' = lock
    BY <1>4 DEF Prepared, In, Set, Goto
  <2>2. /\ job'[p] \in Job /\ job'[p].asset = c /\ job'[p].to = "extracted"
        /\ pc'[p] = "mark" /\ "extracted" \in Stable
        /\ \A q \in Proc \ {p} : pc'[q] = pc[q] /\ job'[q] = job[q]
    BY <1>1, <2>1 DEF TypeOK, Job, AssetStatus, Stable
  <2>3. TypeOK'
    BY <1>1, <1>3, <2>1, <2>2 DEF TypeOK, Pc
  <2> HIDE DEF c
  <2>4. Apart(p)
    BY <1>2, <1>3, <2>1, <2>2, TouchesOne
  <2>5. Holds(p)'
    BY <1>2, <1>3, <2>1, <2>2 DEF Holds, Registered
  <2>6. AsFound(p)'
    BY <1>3, <1>4, <2>2 DEF AsFound, In, Registered, Stable
  <2> QED
    BY <1>3, <2>3, <2>4, <2>5, <2>6, ApartKeeps DEF Inv
<1>5. CASE ~In(c, {"registered"})
  <2>1. End(p)
    BY <1>2, <1>5 DEF Prepared, In
  <2>2. TypeOK'
    BY <1>1, <1>3, <2>1, EndApart DEF TypeOK
  <2> HIDE DEF c
  <2>3. Apart(p)
    BY <1>2, <1>3, <2>1, EndApart, TouchesOne
  <2> QED
    BY <1>3, <2>1, <2>2, <2>3, EndApart, ApartKeeps DEF Inv
<1> QED
  BY <1>4, <1>5

LEMMA DraftedKeeps ==
    ASSUME Inv, NEW p \in Proc, Drafted(p)
    PROVE  Inv' /\ Apart(p)
<1> DEFINE c == job[p].asset
           s == [status |-> "review_pending", approved |-> FALSE,
                 rev |-> job[p].rev, stored |-> job[p].rev]
<1>1. pc[p] = "drafted" /\ pc[p] \in Working /\ TypeOK
  BY DEF Drafted, Working, Pc, Inv
<1>2. c \in Content /\ lock[c] = p /\ Registered(c)
  BY <1>1, AtWork
<1>3. s \in Source
  BY <1>1 DEF Inv, AsFound, Source
<1>4. /\ source' = [source EXCEPT ![c] = s] /\ UNCHANGED <<disk, asset, bundle>>
      /\ source' \in [Content -> Source \cup {None}]
      /\ \A d \in Content \ {c} : source'[d] = source[d]
      /\ \A d \in Content : RecordOK(d)'
  BY <1>1, <1>3, RecordsKept DEF Drafted, TypeOK
<1> HIDE DEF s
<1>5. CASE In(c, {"extracted"})
  <2>1. /\ job' = [job EXCEPT ![p] = [job[p] EXCEPT !.to = "review_pending"]]
        /\ pc' = [pc EXCEPT ![p] = "mark"] /\ lock' = lock
    BY <1>5 DEF Drafted, In, Set, Goto
  <2>2. /\ job'[p] \in Job /\ job'[p].asset = c /\ job'[p].to = "review_pending"
        /\ pc'[p] = "mark" /\ "review_pending" \in Stable
        /\ \A q \in Proc \ {p} : pc'[q] = pc[q] /\ job'[q] = job[q]
    BY <1>1, <2>1 DEF TypeOK, Job, AssetStatus, Stable
  <2>3. TypeOK'
    BY <1>1, <1>4, <2>1, <2>2 DEF TypeOK, Pc
  <2> HIDE DEF c
  <2>4. Apart(p)
    BY <1>2, <1>4, <2>1, <2>2, TouchesOne
  <2>5. Holds(p)'
    BY <1>2, <1>4, <2>1, <2>2 DEF Holds, Registered
  <2>6. AsFound(p)'
    BY <1>4, <1>5, <2>2 DEF AsFound, In, Registered, Stable
  <2> QED
    BY <1>4, <2>3, <2>4, <2>5, <2>6, ApartKeeps DEF Inv
<1>6. CASE ~In(c, {"extracted"})
  <2>1. End(p)
    BY <1>2, <1>6 DEF Drafted, In
  <2>2. TypeOK'
    BY <1>1, <1>4, <2>1, EndApart DEF TypeOK
  <2> HIDE DEF c
  <2>3. Apart(p)
    BY <1>2, <1>4, <2>1, EndApart, TouchesOne
  <2> QED
    BY <1>4, <2>1, <2>2, <2>3, EndApart, ApartKeeps DEF Inv
<1> QED
  BY <1>5, <1>6

LEMMA ConfirmKeeps ==
    ASSUME Inv, NEW p \in Proc, Confirm(p)
    PROVE  Inv' /\ Apart(p)
<1> DEFINE c == job[p].asset
           s == [source[c] EXCEPT !.status = "approved", !.approved = TRUE]
<1>1. pc[p] = "confirm" /\ pc[p] \in Working /\ TypeOK
  BY DEF Confirm, Working, Pc, Inv
<1>2. c \in Content /\ lock[c] = p /\ Registered(c)
  BY <1>1, AtWork
<1>3. source[c] \in Source
  BY <1>1, <1>2 DEF Confirm, Pending, TypeOK
<1>4. s \in Source
  BY <1>3 DEF Source
<1>5. source' = [source EXCEPT ![c] = s]
  BY <1>1, <1>2, <1>3 DEF Confirm, TypeOK, Source
<1> HIDE DEF s
<1>6. /\ UNCHANGED <<disk, asset, bundle, lock>>
      /\ source' \in [Content -> Source \cup {None}]
      /\ \A d \in Content \ {c} : source'[d] = source[d]
      /\ \A d \in Content : RecordOK(d)'
  BY <1>1, <1>4, <1>5, RecordsKept DEF Confirm, TypeOK
<1>7. /\ job' = [job EXCEPT ![p] = [job[p] EXCEPT !.to = "processed"]]
      /\ pc' = [pc EXCEPT ![p] = "approved"]
  BY DEF Confirm, Set, Goto
<1>8. /\ job'[p] \in Job /\ job'[p].asset = c /\ pc'[p] = "approved"
      /\ \A q \in Proc \ {p} : pc'[q] = pc[q] /\ job'[q] = job[q]
  BY <1>1, <1>7 DEF TypeOK, Job, AssetStatus, Stable
<1>9. TypeOK'
  BY <1>1, <1>6, <1>7, <1>8 DEF TypeOK, Pc
<1> HIDE DEF c
<1>10. Apart(p)
  BY <1>2, <1>6, <1>8, TouchesOne
<1>11. Holds(p)'
  BY <1>2, <1>6, <1>8 DEF Holds, Registered
<1>12. AsFound(p)'
  BY <1>8 DEF AsFound
<1> QED
  BY <1>6, <1>9, <1>10, <1>11, <1>12, ApartKeeps DEF Inv

\* The successor is another Asset than the one that is locked: it is created
\* only when nobody has it.
LEMMA SucceedKeeps ==
    ASSUME Inv, NEW p \in Proc, Succeed(p)
    PROVE  Inv' /\ Apart(p)
<1> DEFINE c == job[p].asset
           n == job[p].next
<1>1. pc[p] = "successor" /\ pc[p] \in Working /\ TypeOK
  BY DEF Succeed, Working, Pc, Inv
<1>2. /\ c \in Content /\ lock[c] = p /\ Registered(c)
      /\ In(c, {"changed"}) /\ n \in Content \ {c}
  BY <1>1, AtWork DEF Inv, AsFound
<1>3. /\ asset' = [asset EXCEPT ![n] = IF Registered(n) THEN @ ELSE Fresh(n, c)]
      /\ pc' = [pc EXCEPT ![p] = "supersede"]
      /\ UNCHANGED <<disk, bundle, source, lock, job>>
  BY DEF Succeed, Goto
<1>4. /\ asset' \in [Content -> Asset \cup {None}]
      /\ \A d \in Content : RecordOK(d)'
  <2>1. CASE Registered(n)
    <3>1. asset' = asset
      BY <1>1, <1>3, <2>1 DEF TypeOK
    <3> QED
      BY <1>1, <3>1, RecordsKept DEF TypeOK
  <2>2. CASE ~Registered(n)
    <3>1. asset' = [asset EXCEPT ![n] = Fresh(n, c)]
      BY <1>3, <2>2
    <3> QED
      BY <1>2, <3>1, FreshShape, RecordsMoved
  <2> QED
    BY <2>1, <2>2
<1>5. \A d \in Content : Registered(d) => asset'[d] = asset[d]
  BY <1>1, <1>3 DEF TypeOK
<1>6. /\ pc'[p] = "supersede" /\ \A q \in Proc \ {p} : pc'[q] = pc[q] /\ job'[q] = job[q]
  BY <1>1, <1>3 DEF TypeOK
<1>7. TypeOK'
  BY <1>1, <1>3, <1>4 DEF TypeOK, Pc
<1>8. Apart(p)
  BY <1>3, <1>5, <1>6, AtWork DEF Apart
<1>9. Holds(p)'
  BY <1>2, <1>3, <1>5, <1>6 DEF Holds, Registered
<1>10. AsFound(p)'
  BY <1>2, <1>3, <1>5, <1>6 DEF AsFound, In, Registered
<1> QED
  BY <1>4, <1>7, <1>8, <1>9, <1>10, ApartKeeps DEF Inv

LEMMA SupersedeKeeps ==
    ASSUME Inv, NEW p \in Proc, Supersede(p)
    PROVE  Inv' /\ Apart(p)
<1> DEFINE c == job[p].asset
           r == Moved(asset[c], "superseded")
<1>1. pc[p] = "supersede" /\ pc[p] \in Working /\ TypeOK
  BY DEF Supersede, Working, Pc, Inv
<1>2. /\ c \in Content /\ lock[c] = p /\ Registered(c)
      /\ asset[c] \in Asset /\ Shape(asset[c]) /\ asset[c].status = "changed"
      /\ asset[c].supersedes # None => Registered(asset[c].supersedes)
  BY <1>1, AtWork DEF Inv, AsFound, In
<1>3. /\ r \in Asset /\ Shape(r) /\ r.supersedes = asset[c].supersedes
      /\ r.status = "superseded"
  BY <1>2, MovedOut
<1>4. /\ asset' = [asset EXCEPT ![c] = r] /\ pc' = [pc EXCEPT ![p] = "stale"]
      /\ UNCHANGED <<disk, bundle, source, lock, job>>
  BY DEF Supersede, Goto
<1> HIDE DEF r
<1>5. /\ asset' \in [Content -> Asset \cup {None}] /\ \A d \in Content : RecordOK(d)'
  BY <1>2, <1>3, <1>4, RecordsMoved
<1>6. /\ asset'[c] = r /\ \A d \in Content \ {c} : asset'[d] = asset[d]
      /\ pc'[p] = "stale" /\ \A q \in Proc \ {p} : pc'[q] = pc[q] /\ job'[q] = job[q]
  BY <1>1, <1>2, <1>4 DEF TypeOK
<1>7. TypeOK'
  BY <1>1, <1>4, <1>5 DEF TypeOK, Pc
<1>8. Holds(p)'
  BY <1>2, <1>3, <1>4, <1>6, NoneAssumption DEF Holds, Registered
<1>9. AsFound(p)'
  BY <1>3, <1>4, <1>6, NoneAssumption DEF AsFound, In, Registered
<1> HIDE DEF c
<1>10. Apart(p)
  BY <1>2, <1>4, <1>6, TouchesOne
<1> QED
  BY <1>5, <1>7, <1>8, <1>9, <1>10, ApartKeeps DEF Inv

LEMMA ReadStaleKeeps ==
    ASSUME Inv, NEW p \in Proc, ReadStale(p)
    PROVE  Inv' /\ Apart(p)
<1> DEFINE c == job[p].asset
           j == [job[p] EXCEPT !.read = source[c]]
<1>1. pc[p] = "stale" /\ pc[p] \in Working /\ TypeOK
  BY DEF ReadStale, Working, Pc, Inv
<1>2. c \in Content /\ lock[c] = p /\ Registered(c) /\ In(c, {"superseded"})
  BY <1>1, AtWork DEF Inv, AsFound
<1>3. UNCHANGED <<disk, asset, bundle, source>> /\ \A d \in Content : RecordOK(d)'
  BY RecordsKept DEF ReadStale, files
<1>4. CASE End(p)
  <2>1. TypeOK'
    BY <1>1, <1>3, <1>4, EndApart DEF TypeOK
  <2> HIDE DEF c
  <2>2. Apart(p)
    BY <1>2, <1>3, <1>4, EndApart, TouchesOne
  <2> QED
    BY <1>3, <1>4, <2>1, <2>2, EndApart, ApartKeeps DEF Inv
<1>5. CASE /\ source[c] # None /\ Set(p, j) /\ Goto(p, "staling") /\ lock' = lock
  <2>1. job' = [job EXCEPT ![p] = j] /\ pc' = [pc EXCEPT ![p] = "staling"]
    BY <1>5 DEF Set, Goto
  <2>2. j \in Job /\ j.asset = c /\ j.read \in Source
    BY <1>1, <1>2, <1>5 DEF TypeOK, Job
  <2> HIDE DEF j
  <2>3. /\ job'[p] = j /\ pc'[p] = "staling"
        /\ \A q \in Proc \ {p} : pc'[q] = pc[q] /\ job'[q] = job[q]
    BY <1>1, <2>1 DEF TypeOK
  <2>4. TypeOK'
    BY <1>1, <1>3, <1>5, <2>1, <2>2 DEF TypeOK, Pc
  <2> HIDE DEF c
  <2>5. Apart(p)
    BY <1>2, <1>3, <1>5, <2>3, TouchesOne
  <2>6. Holds(p)'
    BY <1>2, <1>3, <1>5, <2>2, <2>3 DEF Holds, Registered
  <2>7. AsFound(p)'
    BY <1>2, <1>3, <2>2, <2>3 DEF AsFound, In, Registered
  <2> QED
    BY <1>3, <2>4, <2>5, <2>6, <2>7, ApartKeeps DEF Inv
<1> QED
  BY <1>4, <1>5 DEF ReadStale

LEMMA MarkStaleKeeps ==
    ASSUME Inv, NEW p \in Proc, MarkStale(p)
    PROVE  Inv' /\ Apart(p)
<1> DEFINE c == job[p].asset
           s == [job[p].read EXCEPT !.status = "stale"]
<1>1. pc[p] = "staling" /\ pc[p] \in Working /\ TypeOK
  BY DEF MarkStale, Working, Pc, Inv
<1>2. c \in Content /\ lock[c] = p /\ job[p].read \in Source
  BY <1>1, AtWork DEF Inv, AsFound
<1>3. source' = [source EXCEPT ![c] = s] /\ End(p) /\ UNCHANGED <<disk, asset, bundle>>
  BY DEF MarkStale
<1>4. s \in Source \cup {None}
  BY <1>2 DEF Source
<1> HIDE DEF s
<1>5. /\ source' \in [Content -> Source \cup {None}]
      /\ \A d \in Content \ {c} : source'[d] = source[d]
      /\ \A d \in Content : RecordOK(d)'
  BY <1>1, <1>3, <1>4, RecordsKept DEF TypeOK
<1>6. TypeOK'
  BY <1>1, <1>3, <1>5, EndApart DEF TypeOK
<1> HIDE DEF c
<1>7. Apart(p)
  BY <1>2, <1>3, <1>5, EndApart, TouchesOne
<1> QED
  BY <1>3, <1>5, <1>6, <1>7, EndApart, ApartKeeps DEF Inv

-----------------------------------------------------------------------------
(* Steps without a lock *)

LEMMA BeginCaptureKeeps ==
    ASSUME Inv, NEW p \in Proc, BeginCapture(p)
    PROVE  Inv' /\ Apart(p)
<1> DEFINE j == [NoJob EXCEPT !.asset = disk]
<1>1. TypeOK /\ disk \in Content /\ UNCHANGED <<disk, asset, bundle, source, lock>>
  BY DEF BeginCapture, Inv, TypeOK, files
<1>2. job' = [job EXCEPT ![p] = j] /\ pc' = [pc EXCEPT ![p] = "captured"]
  BY DEF BeginCapture, Set, Goto
<1>3. j \in Job /\ j.asset = disk
  BY <1>1 DEF NoJob, Job, AssetStatus, Stable
<1> HIDE DEF j
<1>4. /\ job'[p] = j /\ pc'[p] = "captured"
      /\ \A q \in Proc \ {p} : pc'[q] = pc[q] /\ job'[q] = job[q]
  BY <1>1, <1>2 DEF TypeOK
<1>5. TypeOK'
  BY <1>1, <1>2, <1>3 DEF TypeOK, Pc
<1>6. Apart(p)
  BY <1>1, <1>4 DEF Apart
<1>7. Holds(p)' /\ AsFound(p)'
  BY <1>1, <1>3, <1>4 DEF Holds, AsFound, Working
<1>8. \A d \in Content : RecordOK(d)'
  BY <1>1, RecordsKept
<1> QED
  BY <1>5, <1>6, <1>7, <1>8, ApartKeeps DEF Inv

LEMMA StopKeeps ==
    ASSUME Inv, NEW p \in Proc, Stop(p)
    PROVE  Inv' /\ Apart(p)
<1>1. End(p) /\ TypeOK /\ UNCHANGED <<disk, asset, bundle, source>>
  BY DEF Stop, Inv, files
<1>2. TypeOK'
  BY <1>1, EndApart DEF TypeOK
<1>3. Apart(p)
  <2> SUFFICES ASSUME NEW q \in Proc \ {p}, pc[q] \in Working
               PROVE  lock'[job[q].asset] = lock[job[q].asset]
    BY <1>1, EndApart DEF Apart
  <2>1. job[q].asset \in Content /\ lock[job[q].asset] = q
    BY AtWork
  <2> QED
    BY <1>1, <2>1, EndApart
<1>4. \A d \in Content : RecordOK(d)'
  BY <1>1, RecordsKept
<1> QED
  BY <1>1, <1>2, <1>3, <1>4, EndApart, ApartKeeps DEF Inv

LEMMA SaveKeeps == ASSUME Inv, Save PROVE Inv'
<1>1. UNCHANGED <<asset, bundle, source, lock, pc, job>> /\ disk' \in Content \cup {None}
  BY ConstantsAssumption DEF Save, files
<1>2. TypeOK'
  BY <1>1 DEF Inv, TypeOK
<1>3. \A d \in Content : RecordOK(d)'
  BY <1>1, RecordsKept
<1>4. \A p \in Proc : Holds(p)' /\ AsFound(p)'
  BY <1>1 DEF Inv, Holds, AsFound, Registered, In, Pending
<1> QED
  BY <1>2, <1>3, <1>4 DEF Inv

\* An edit changes what a Source says, with what it names or without, or takes
\* it away.
LEMMA Edited ==
    ASSUME TypeOK, NEW c \in Content, EditSource(c)
    PROVE  /\ UNCHANGED <<disk, asset, bundle, lock, pc, job>>
           /\ \A d \in Content \ {c} : source'[d] = source[d]
           /\ \/ "remove" \in Edits /\ source' = [source EXCEPT ![c] = None]
              \/ /\ source[c] \in Source /\ source'[c] \in Source
                 /\ source' = [source EXCEPT ![c] = source'[c]]
                 /\ source'[c].status = source[c].status
                 /\ source'[c].approved = source[c].approved
                 /\ source'[c].stored = source[c].stored \/ Pending(c)
<1>1. UNCHANGED <<disk, asset, bundle, lock, pc, job>>
  BY DEF EditSource
<1>2. ASSUME NEW e \in Source, source' = [source EXCEPT ![c] = e]
      PROVE  source'[c] = e /\ \A d \in Content \ {c} : source'[d] = source[d]
  BY <1>2 DEF TypeOK
<1>3. CASE \E d \in Draft :
               Pending(c) /\ source' = [source EXCEPT ![c].rev = d, ![c].stored = d]
  <2>1. PICK d \in Draft :
            Pending(c) /\ source' = [source EXCEPT ![c].rev = d, ![c].stored = d]
    BY <1>3
  <2>2. source[c] \in Source
    BY <2>1 DEF Pending, TypeOK
  <2> DEFINE e == [source[c] EXCEPT !.rev = d, !.stored = d]
  <2>3. source' = [source EXCEPT ![c] = e]
    BY <2>1, <2>2 DEF TypeOK, Source
  <2>4. e \in Source /\ e.status = source[c].status /\ e.approved = source[c].approved
    BY <2>2 DEF Source
  <2> HIDE DEF e
  <2> QED
    BY <1>1, <1>2, <2>1, <2>2, <2>3, <2>4
<1>4. CASE \E d \in Draft : source[c] # None /\ source' = [source EXCEPT ![c].rev = d]
  <2>1. PICK d \in Draft : source[c] # None /\ source' = [source EXCEPT ![c].rev = d]
    BY <1>4
  <2>2. source[c] \in Source
    BY <2>1 DEF TypeOK
  <2> DEFINE e == [source[c] EXCEPT !.rev = d]
  <2>3. source' = [source EXCEPT ![c] = e]
    BY <2>1
  <2>4. e \in Source /\ e.status = source[c].status /\ e.approved = source[c].approved
        /\ e.stored = source[c].stored
    BY <2>2 DEF Source
  <2> HIDE DEF e
  <2> QED
    BY <1>1, <1>2, <2>2, <2>3, <2>4
<1>5. CASE "remove" \in Edits /\ source' = [source EXCEPT ![c] = None]
  BY <1>1, <1>5 DEF TypeOK
<1>6. \A d \in Content \ {c} : source'[d] = source[d]
  BY DEF EditSource, TypeOK
<1> QED
  BY <1>3, <1>4, <1>5, <1>6 DEF EditSource

LEMMA EditSourceKeeps == ASSUME Inv, NEW c \in Content, EditSource(c) PROVE Inv'
<1>1. UNCHANGED <<disk, asset, bundle, lock, pc, job>> /\ TypeOK
  BY DEF EditSource, Inv
<1>2. /\ source' \in [Content -> Source \cup {None}]
      /\ \A d \in Content : source[d] = None \/ Pending(d) => source'[d] = None \/ Pending(d)'
  BY <1>1, Edited, NoneAssumption DEF TypeOK, Pending
<1>3. TypeOK'
  BY <1>1, <1>2 DEF TypeOK
<1>4. \A d \in Content : RecordOK(d)'
  BY <1>1, RecordsKept
<1>5. ASSUME NEW p \in Proc PROVE Holds(p)' /\ AsFound(p)'
  <2>1. Holds(p) /\ AsFound(p)
    BY DEF Inv
  <2>2. Holds(p)'
    BY <1>1, <2>1 DEF Holds, Registered
  <2>3. pc[p] = "drafted" => job[p].asset \in Content
    BY <2>1 DEF Holds
  <2>4. AsFound(p)'
    BY <1>1, <1>2, <2>1, <2>3 DEF AsFound, Registered, In
  <2> QED
    BY <2>2, <2>4
<1> QED
  BY <1>3, <1>4, <1>5 DEF Inv

-----------------------------------------------------------------------------

LEMMA InitInv == Init => Inv
<1> SUFFICES ASSUME Init PROVE Inv
  OBVIOUS
<1>1. NoJob \in Job
  BY DEF NoJob, Job, AssetStatus, Stable
<1>2. TypeOK
  BY <1>1 DEF Init, TypeOK, Pc
<1>3. \A c \in Content : RecordOK(c)
  BY DEF Init, RecordOK, Registered
<1>4. \A p \in Proc : Holds(p) /\ AsFound(p)
  BY DEF Init, Holds, AsFound, Working
<1> QED
  BY <1>2, <1>3, <1>4 DEF Inv

LEMMA ProcessKeeps ==
    ASSUME Inv, NEW p \in Proc, BeginCapture(p) \/ Continue(p) \/ Stop(p)
    PROVE  Inv' /\ Apart(p)
<1>1. CASE Continue(p)
  BY <1>1, CaptureKeeps, SeenKeeps, PreparedKeeps, DraftedKeeps, MarkKeeps, ConfirmKeeps,
     PublishedKeeps, SucceedKeeps, SupersedeKeeps, ReadStaleKeeps, MarkStaleKeeps DEF Continue
<1> QED
  BY <1>1, BeginCaptureKeeps, StopKeeps

LEMMA NextKeepsInv == Inv /\ [Next]_vars => Inv'
<1> SUFFICES ASSUME Inv, [Next]_vars PROVE Inv'
  OBVIOUS
<1>1. ASSUME NEW p \in Proc, BeginCapture(p) \/ Continue(p) \/ Stop(p) PROVE Inv'
  BY <1>1, ProcessKeeps
<1>2. ASSUME NEW p \in Proc, NEW c \in Content, Start(p, c) PROVE Inv'
  BY <1>2, StartKeeps
<1>3. CASE UNCHANGED vars
  <2>1. \A c \in Content : RecordOK(c)'
    BY <1>3, RecordsKept DEF vars, files
  <2>2. \A p \in Proc : Holds(p)' /\ AsFound(p)'
    BY <1>3 DEF Inv, Holds, AsFound, Registered, In, Pending, vars, files
  <2> QED
    BY <1>3, <2>1, <2>2 DEF Inv, TypeOK, vars, files
<1> QED
  BY <1>1, <1>2, <1>3, SaveKeeps, EditSourceKeeps DEF Next

LEMMA InvHolds == Spec => []Inv
BY InitInv, NextKeepsInv, PTL DEF Spec

\* Whatever commands do at the same time and wherever they stop, the files of
\* the registry, the Sources and the locks are of their types.
THEOREM TypeCorrect == Spec => []TypeOK
<1>1. Inv => TypeOK
  BY DEF Inv
<1> QED
  BY <1>1, InvHolds, PTL

\* capture, inspect, prepare, the marks and accept-changed: every record they
\* leave, whenever they are interrupted, is one that validate_asset_state accepts.
THEOREM RecordsAreValid == Spec => []RecordsValid
<1>1. Inv => RecordsValid
  BY ShapeIsValid DEF Inv, TypeOK, RecordOK, RecordsValid, Registered
<1> QED
  BY <1>1, InvHolds, PTL

-----------------------------------------------------------------------------
(* Approval *)

\* Only Confirm approves: every other step that writes Sources leaves one that
\* waits for review, is stale, or says of its approval what it said before.
LEMMA OnlyConfirmApproves ==
    ASSUME Inv, Next, NEW c \in Content, ~Approved(c), Approved(c)'
    PROVE  \E p \in Proc : /\ pc[p] = "confirm" /\ job[p].asset = c
                          /\ job[p].rev = source'[c].rev
                          /\ job[p].rev = source'[c].stored
<1>1. TypeOK /\ source'[c] # source[c]
  BY DEF Inv, Approved
<1>2. ASSUME NEW p \in Proc, BeginCapture(p) \/ Stop(p) PROVE FALSE
  BY <1>1, <1>2 DEF BeginCapture, Stop, files
<1>3. ASSUME NEW p \in Proc, NEW d \in Content, Start(p, d) PROVE FALSE
  BY <1>1, <1>3, StartsQuietly
<1>4. ASSUME Save PROVE FALSE
  BY <1>1, <1>4 DEF Save, files
<1>5. ASSUME NEW d \in Content, EditSource(d) PROVE FALSE
  <2>1. CASE source' = [source EXCEPT ![d] = None]
    BY <1>1, <2>1 DEF TypeOK, Approved
  <2>2. CASE source[d] \in Source /\ source'[d].status = source[d].status
    BY <1>1, <1>5, <2>2, Edited, NoneAssumption DEF Approved
  <2> QED
    BY <1>1, <1>5, <2>1, <2>2, Edited
<1>6. ASSUME NEW p \in Proc, Continue(p)
      PROVE  /\ pc[p] = "confirm" /\ job[p].asset = c
             /\ job[p].rev = source'[c].rev /\ job[p].rev = source'[c].stored
  <2>1. CASE Capture(p) \/ Seen(p) \/ Prepared(p) \/ Mark(p) \/ Published(p)
             \/ Succeed(p) \/ Supersede(p) \/ ReadStale(p)
    BY <1>1, <2>1 DEF Capture, Seen, Prepared, Mark, Published, Succeed, Supersede,
       ReadStale, files
  <2>2. CASE Drafted(p)
    BY <1>1, <2>2 DEF Drafted, TypeOK, Approved
  <2>3. CASE MarkStale(p)
    <3>1. /\ job[p].read \in Source
          /\ source' = [source EXCEPT ![job[p].asset] = [job[p].read EXCEPT !.status = "stale"]]
      BY <2>3 DEF MarkStale, Inv, AsFound
    <3>2. c = job[p].asset
      BY <1>1, <3>1 DEF TypeOK
    <3>3. source'[c] = [job[p].read EXCEPT !.status = "stale"]
      BY <1>1, <3>1, <3>2 DEF TypeOK
    <3> QED
      BY <3>1, <3>3 DEF Approved, Source
  <2>4. CASE Confirm(p)
    <3>1. /\ pc[p] = "confirm" /\ Pending(job[p].asset)
          /\ source[job[p].asset].rev = job[p].rev /\ Canonical(job[p].asset)
          /\ source' = [source EXCEPT ![job[p].asset].status = "approved",
                                     ![job[p].asset].approved = TRUE]
      BY <2>4 DEF Confirm
    <3>2. c = job[p].asset /\ source[c] \in Source
      BY <1>1, <3>1 DEF TypeOK, Pending
    <3>3. source'[c].rev = source[c].rev /\ source'[c].stored = source[c].stored
      BY <1>1, <3>1, <3>2 DEF TypeOK, Source
    <3> QED
      BY <3>1, <3>2, <3>3 DEF Canonical, Pending
  <2> QED
    BY <1>6, <2>1, <2>2, <2>3, <2>4 DEF Continue
<1> QED
  BY <1>2, <1>3, <1>4, <1>5, <1>6 DEF Next

\* publish_approved_source_under_lock: whatever git and editors do to the Source
\* while it is shown, the text that becomes approved is the text that was
\* confirmed, and the revision it names is that text's.
THEOREM ApprovalIsOfTheShown == Spec => ApprovedAsShown
<1>1. Inv /\ [Next]_vars => [ApprovedNow]_vars
  BY OnlyConfirmApproves DEF ApprovedNow
<1> QED
  BY <1>1, InvHolds, PTL DEF Spec, ApprovedAsShown

-----------------------------------------------------------------------------
(* As long as git takes no Source away: how far a record and its Source are apart *)

SourceOK(c) ==
    /\ source[c] # None => Registered(c)
    /\ Pending(c) => ~source[c].approved
    /\ Approved(c) => source[c].approved
    /\ Registered(c) /\ source[c] = None => asset[c].step \in {"registered", "extracted"}
    /\ source[c] # None /\ In(c, AssetStatus \ {"superseded"}) =>
           \/ Pending(c) /\ asset[c].step \in {"extracted", "review_pending"}
           \/ Approved(c) /\ asset[c].step \in {"review_pending", "processed"}

\* What is about to be marked is what the Source says, and what is about to be
\* written back is of the approval it has.
MarkOK(p) ==
    LET c == job[p].asset  r == job[p].read IN
    /\ pc[p] = "mark" =>
           \/ job[p].to = "extracted" /\ source[c] = None
           \/ job[p].to = "review_pending" /\ Pending(c)
           \/ job[p].to = "processed" /\ Approved(c)
    /\ pc[p] = "staling" =>
           /\ source[c] # None /\ source[c].approved = r.approved
           /\ r.rev = r.stored
           /\ r.approved => source[c].stored = r.stored

Agree == /\ \A c \in Content : SourceOK(c)
         /\ \A p \in Proc : MarkOK(p)

LEMMA AgreeApart ==
    ASSUME Inv, Agree, NEW p \in Proc, Apart(p), MarkOK(p)',
           NEW c \in Content, SourceOK(c)',
           \A d \in Content \ {c} : asset'[d] = asset[d] /\ source'[d] = source[d]
    PROVE  Agree'
<1>1. ASSUME NEW d \in Content \ {c} PROVE SourceOK(d)'
  BY DEF Agree, SourceOK, Registered, Pending, Approved, In
<1>2. ASSUME NEW q \in Proc \ {p} PROVE MarkOK(q)'
  BY DEF Agree, MarkOK, Apart, Pending, Approved, Working, Pc
<1> QED
  BY <1>1, <1>2 DEF Agree

LEMMA StartAgrees ==
    ASSUME Inv, Agree, NEW p \in Proc, NEW c \in Content, Start(p, c)
    PROVE  Agree'
<1>1. Apart(p) /\ TypeOK /\ SourceOK(c)
  BY StartKeeps DEF Inv, Agree
<1>2. asset' = asset /\ source' = source
  BY StartsQuietly
<1>3. SourceOK(c)'
  BY <1>1, <1>2 DEF SourceOK, Registered, Pending, Approved, In
<1>4. MarkOK(p)'
  <2>1. CASE RepairState(p, c)
    <3>1. /\ RepairTo(c) # None
          /\ IF RepairTo(c) = "stale" THEN Goto(p, "stale")
             ELSE Set(p, [NoJob EXCEPT !.asset = c, !.to = RepairTo(c)])
      BY <2>1 DEF RepairState
    <3>2. \/ RepairTo(c) = "stale"
          \/ RepairTo(c) = "review_pending" /\ Pending(c)
          \/ RepairTo(c) = "processed" /\ Approved(c)
      BY <3>1 DEF RepairTo
    <3>3. CASE RepairTo(c) = "stale"
      BY <1>1, <3>1, <3>3 DEF Goto, TypeOK, MarkOK
    <3>4. CASE RepairTo(c) # "stale"
      <4>1. job'[p].asset = c /\ job'[p].to = RepairTo(c) /\ pc'[p] = "mark"
        BY <1>1, <2>1, <3>1, <3>4 DEF RepairState, Goto, Set, TypeOK, NoJob
      <4> QED
        BY <1>2, <3>2, <3>4, <4>1 DEF MarkOK, Pending, Approved
    <3> QED
      BY <3>3, <3>4
  <2>2. CASE WriteDraft(p, c)
    <3>1. PICK d \in Draft :
             \/ /\ source[c] # None /\ Goto(p, "mark")
                /\ Set(p, [NoJob EXCEPT !.asset = c, !.to = "review_pending"])
             \/ Goto(p, "drafted")
      BY <2>2, Zenon DEF WriteDraft
    <3>2. source[c] = None \/ Pending(c)
      BY <2>2 DEF WriteDraft
    <3>3. CASE Goto(p, "drafted")
      BY <1>1, <3>3 DEF Goto, TypeOK, MarkOK
    <3>4. CASE /\ source[c] # None /\ Goto(p, "mark")
               /\ Set(p, [NoJob EXCEPT !.asset = c, !.to = "review_pending"])
      <4>1. pc'[p] = "mark" /\ job'[p].asset = c /\ job'[p].to = "review_pending"
        BY <1>1, <3>4 DEF Set, Goto, TypeOK, NoJob
      <4> QED
        BY <1>2, <3>2, <3>4, <4>1 DEF MarkOK, Pending
    <3> QED
      BY <3>1, <3>3, <3>4
  <2>3. CASE ~RepairState(p, c) /\ ~WriteDraft(p, c)
    <3>1. \E s \in Pc \ {"mark", "staling"} : Goto(p, s)
      BY <2>3 DEF Start, Inspect, Prepare, Approve, Accept, RepairLineage, Pc
    <3> QED
      BY <1>1, <3>1 DEF Goto, TypeOK, MarkOK
  <2> QED
    BY <2>1, <2>2, <2>3
<1> QED
  BY <1>1, <1>2, <1>3, <1>4, AgreeApart

\* The last write of a command, when it replaces the record of its Asset.
LEMMA DoneAgrees ==
    ASSUME Inv, Agree, NEW p \in Proc, Apart(p), End(p), source' = source,
           NEW c \in Content, NEW r \in Asset,
           asset' = [asset EXCEPT ![c] = r],
           IF source[c] = None THEN r.step \in {"registered", "extracted"}
           ELSE \/ Pending(c) /\ r.step \in {"extracted", "review_pending"}
                \/ Approved(c) /\ r.step \in {"review_pending", "processed"}
    PROVE  Agree'
<1>1. asset'[c] = r /\ r # None /\ \A d \in Content \ {c} : asset'[d] = asset[d]
  BY NoneAssumption DEF Inv, TypeOK
<1>2. SourceOK(c)'
  BY <1>1 DEF Agree, SourceOK, Registered, Pending, Approved, In
<1>3. MarkOK(p)'
  BY EndApart DEF MarkOK
<1> QED
  BY <1>1, <1>2, <1>3, AgreeApart

LEMMA ContinueAgrees ==
    ASSUME Inv, Agree, NEW p \in Proc, Continue(p)
    PROVE  Agree'
<1>0. PICK c \in Content : job[p].asset = c
  BY DEF Inv, Holds, Continue, Capture, Seen, Prepared, Drafted, Mark, Confirm, Published,
     Succeed, Supersede, ReadStale, MarkStale
<1>1. Apart(p) /\ TypeOK /\ MarkOK(p)
  BY ProcessKeeps DEF Inv, Agree
<1>2. CASE Capture(p)
  <2>1. /\ End(p) /\ source' = source
        /\ asset' = [asset EXCEPT ![c] = IF Registered(c) THEN @ ELSE Fresh(c, None)]
    BY <1>0, <1>2 DEF Capture
  <2>2. SourceOK(c)
    BY <2>1 DEF Agree
  <2>3. SourceOK(c)'
    BY <1>1, <2>1, <2>2 DEF SourceOK, TypeOK, Registered, Pending, Approved, In, Fresh
  <2>4. MarkOK(p)'
    BY <2>1, EndApart DEF MarkOK
  <2> QED
    BY <1>1, <2>1, <2>3, <2>4, AgreeApart DEF TypeOK
<1>3. ASSUME pc[p] \in Working
      PROVE  /\ lock[c] = p /\ Registered(c) /\ asset[c] \in Asset
             /\ Shape(asset[c]) /\ SourceOK(c) /\ AsFound(p)
  BY <1>0, <1>3, AtWork DEF Agree, Inv
<1>4. CASE Seen(p)
  <2>1. pc[p] = "seen" /\ pc[p] \in Working /\ End(p) /\ source' = source
    BY <1>0, <1>4 DEF Seen, Working, Pc
  <2> DEFINE r == Moved(asset[c], job[p].to)
  <2>2. \/ asset[c].status \in Stable /\ job[p].to \in {"changed", "missing"}
        \/ asset[c].status \in {"changed", "missing"} /\ job[p].to = asset[c].step
    BY <1>0, <1>3, <2>1 DEF AsFound, In
  <2>3. r \in Asset /\ r.step = asset[c].step
    BY <1>0, <1>3, <2>1, <2>2, MovedAside, MovedBack
  <2>4. In(c, AssetStatus \ {"superseded"})
    BY <1>0, <1>3, <2>1, <2>2 DEF In, AssetStatus, Stable, Recoverable
  <2>5. asset' = [asset EXCEPT ![c] = r]
    BY <1>0, <1>4 DEF Seen
  <2> HIDE DEF r
  <2> QED
    BY <1>0, <1>1, <1>3, <2>1, <2>3, <2>4, <2>5, DoneAgrees DEF SourceOK
<1>5. CASE Prepared(p)
  <2>1. /\ pc[p] = "prepared" /\ pc[p] \in Working /\ asset' = asset /\ source' = source
    BY <1>0, <1>5 DEF Prepared, Working, Pc
  <2>2. SourceOK(c)'
    BY <1>0, <1>3, <2>1 DEF SourceOK, Registered, Pending, Approved, In
  <2>3. MarkOK(p)'
    <3>1. CASE asset[c].status = "registered"
      <4>1. asset[c].step = "registered" /\ source[c] = None
        BY <1>0, <1>3, <2>1, <3>1 DEF Shape, SourceOK, In, Stable, AssetStatus
      <4>2. job'[p].to = "extracted" /\ job'[p].asset = c /\ pc'[p] = "mark"
        BY <1>0, <1>1, <1>5, <3>1 DEF Prepared, Goto, Set, TypeOK, Job
      <4> QED
        BY <1>0, <2>1, <4>1, <4>2 DEF MarkOK
    <3>2. CASE asset[c].status # "registered"
      BY <1>0, <1>5, <3>2, EndApart DEF Prepared, MarkOK
    <3> QED
      BY <1>0, <3>1, <3>2
  <2> QED
    BY <1>0, <1>1, <1>3, <2>1, <2>2, <2>3, AgreeApart
<1>6. CASE Drafted(p)
  <2> DEFINE s == [status |-> "review_pending", approved |-> FALSE,
                   rev |-> job[p].rev, stored |-> job[p].rev]
  <2>1. /\ pc[p] = "drafted" /\ pc[p] \in Working /\ asset' = asset
        /\ source' = [source EXCEPT ![c] = s]
    BY <1>0, <1>6 DEF Drafted, Working, Pc
  <2>2. /\ source'[c] = s /\ \A d \in Content \ {c} : source'[d] = source[d]
    BY <1>0, <1>1, <1>3, <2>1 DEF TypeOK
  <2>3. /\ source'[c].status = "review_pending" /\ ~source'[c].approved
        /\ source'[c] # None
    <3>1. s \in Source
      BY <1>0, <1>3, <2>1 DEF AsFound, Source
    <3>2. s.status = "review_pending" /\ s.approved = FALSE
      OBVIOUS
    <3> HIDE DEF s
    <3>3. source'[c].approved = FALSE /\ source'[c].status = "review_pending"
      BY <2>2, <3>2
    <3>4. source'[c] # None
      BY <2>2, <3>1, NoneAssumption
    <3> QED
      BY <3>3, <3>4
  <2>4. asset[c].status \in Stable /\ (source[c] = None \/ Pending(c))
    BY <1>0, <1>3, <2>1 DEF AsFound, In, Stable
  <2>5. asset[c].step \in {"extracted", "review_pending"} \/ asset[c].status = "registered"
    BY <1>0, <1>3, <2>1, <2>4 DEF SourceOK, Shape, In, Stable, AssetStatus, Pending, Approved
  <2>6. asset[c].status # "registered"
    BY <1>0, <1>3, <2>1 DEF AsFound, In
  <2>7. SourceOK(c)'
    BY <1>0, <1>3, <2>1, <2>3, <2>5, <2>6 DEF SourceOK, Registered, Pending, Approved, In
  <2>8. MarkOK(p)'
    <3>1. CASE asset[c].status = "extracted"
      <4>1. job'[p].to = "review_pending" /\ job'[p].asset = c /\ pc'[p] = "mark"
        BY <1>0, <1>1, <1>6, <3>1 DEF Drafted, Goto, Set, TypeOK, Job
      <4> QED
        BY <1>0, <2>3, <4>1 DEF MarkOK, Pending
    <3>2. CASE asset[c].status # "extracted"
      BY <1>0, <1>6, <3>2, EndApart DEF Drafted, MarkOK
    <3> QED
      BY <1>0, <3>1, <3>2
  <2> QED
    BY <1>0, <1>1, <1>3, <2>1, <2>2, <2>7, <2>8, AgreeApart
<1>7. CASE Mark(p)
  <2>1. pc[p] = "mark" /\ pc[p] \in Working /\ End(p) /\ source' = source
    BY <1>0, <1>7 DEF Mark, Working, Pc
  <2> DEFINE r == IF CanMove(asset[c], job[p].to) THEN Moved(asset[c], job[p].to) ELSE asset[c]
  <2>2. asset[c].status \in Stable /\ job[p].to \in Stable
    BY <1>0, <1>3, <2>1 DEF AsFound, In
  <2>3. r \in Asset /\ r.step \in {asset[c].step, job[p].to} /\ r.status \in Stable
    BY <1>0, <1>3, <2>1, <2>2, MovedOn
  <2>4. asset' = [asset EXCEPT ![c] = r]
    BY <1>0, <1>1, <1>3, <1>7, <2>1 DEF Mark, TypeOK
  <2>5. In(c, AssetStatus \ {"superseded"})
    BY <1>0, <1>3, <2>1, <2>2 DEF In, AssetStatus, Stable
  <2>6. \/ job[p].to = "extracted" /\ source[c] = None
        \/ job[p].to = "review_pending" /\ Pending(c)
        \/ job[p].to = "processed" /\ Approved(c)
    BY <1>0, <1>1, <2>1 DEF MarkOK
  <2> HIDE DEF r
  <2>7. IF source[c] = None THEN r.step \in {"registered", "extracted"}
        ELSE \/ Pending(c) /\ r.step \in {"extracted", "review_pending"}
             \/ Approved(c) /\ r.step \in {"review_pending", "processed"}
    BY <1>0, <1>3, <2>1, <2>3, <2>5, <2>6 DEF SourceOK, Pending, Approved
  <2> QED
    BY <1>0, <1>1, <1>3, <2>1, <2>3, <2>4, <2>7, DoneAgrees
<1>8. CASE Confirm(p)
  <2>1. /\ pc[p] = "confirm" /\ pc[p] \in Working /\ asset' = asset /\ Pending(c)
        /\ source' = [source EXCEPT ![c].status = "approved", ![c].approved = TRUE]
        /\ pc' = [pc EXCEPT ![p] = "approved"]
    BY <1>0, <1>8 DEF Confirm, Working, Pc, Goto
  <2>2. source[c] \in Source
    BY <1>0, <1>1, <1>3, <2>1 DEF TypeOK, Pending
  <2>3. /\ source'[c] # None /\ source'[c].status = "approved" /\ source'[c].approved
        /\ \A d \in Content \ {c} : source'[d] = source[d]
    <3>1. source'[c] = [source[c] EXCEPT !.status = "approved", !.approved = TRUE]
      BY <1>0, <1>1, <1>3, <2>1, <2>2 DEF TypeOK, Source
    <3>2. source'[c] \in Source
      BY <1>0, <2>2, <3>1 DEF Source
    <3> QED
      BY <1>0, <1>1, <2>1, <2>2, <3>1, <3>2, NoneAssumption, ZenonT(60) DEF TypeOK, Source
  <2>4. SourceOK(c)'
    <3>1. In(c, AssetStatus \ {"superseded"}) => asset[c].step \in {"review_pending", "processed"}
      BY <1>0, <1>3, <2>1 DEF AsFound, In, Shape, Stable
    <3> QED
      BY <1>0, <1>3, <2>1, <2>3, <3>1 DEF SourceOK, Registered, Pending, Approved, In
  <2>5. MarkOK(p)'
    BY <1>0, <1>1, <2>1 DEF TypeOK, MarkOK
  <2> QED
    BY <1>0, <1>1, <1>3, <2>1, <2>3, <2>4, <2>5, AgreeApart
<1>9. CASE Published(p)
  <2>1. pc[p] = "approved" /\ pc[p] \in Working /\ End(p) /\ source' = source /\ Approved(c)
    BY <1>0, <1>9 DEF Published, Working, Pc
  <2> DEFINE r == Moved(asset[c], "processed")
  <2>2. asset[c].status \in Stable /\ "processed" \in Stable
    BY <1>0, <1>9 DEF Published, In, Stable
  <2>3. r \in Asset /\ r.step = "processed"
    BY <1>0, <1>3, <2>1, <2>2, MovedOn
  <2>4. asset' = [asset EXCEPT ![c] = r] /\ source[c] # None
    BY <1>0, <1>9 DEF Published, Approved
  <2> HIDE DEF r
  <2> QED
    BY <1>0, <1>1, <1>3, <2>1, <2>3, <2>4, DoneAgrees
<1>10. CASE Succeed(p)
  <2>0. PICK n : job[p].next = n
    OBVIOUS
  <2>1. /\ pc[p] = "successor" /\ pc[p] \in Working /\ source' = source
        /\ asset' = [asset EXCEPT ![n] = IF Registered(n) THEN @ ELSE Fresh(n, c)]
        /\ pc' = [pc EXCEPT ![p] = "supersede"]
    BY <1>0, <1>10, <2>0 DEF Succeed, Working, Pc, Goto
  <2>2. n \in Content /\ SourceOK(n)
    BY <1>0, <1>3, <2>0, <2>1 DEF AsFound, Agree
  <2>3. SourceOK(n)'
    BY <1>0, <1>1, <2>1, <2>2 DEF SourceOK, TypeOK, Registered, Pending, Approved, In, Fresh
  <2>4. MarkOK(p)'
    BY <1>0, <1>1, <2>1 DEF TypeOK, MarkOK
  <2> QED
    BY <1>0, <1>1, <2>1, <2>2, <2>3, <2>4, AgreeApart DEF TypeOK
<1>11. CASE Supersede(p)
  <2> DEFINE r == Moved(asset[c], "superseded")
  <2>1. /\ pc[p] = "supersede" /\ pc[p] \in Working /\ source' = source
        /\ asset' = [asset EXCEPT ![c] = r] /\ pc' = [pc EXCEPT ![p] = "stale"]
    BY <1>0, <1>11 DEF Supersede, Working, Pc, Goto
  <2>2. r \in Asset /\ r.status = "superseded" /\ r.step = asset[c].step
    BY <1>0, <1>3, <2>1, MovedOut DEF AsFound, In
  <2> HIDE DEF r
  <2>3. /\ asset'[c] = r /\ r # None /\ \A d \in Content \ {c} : asset'[d] = asset[d]
    BY <1>0, <1>1, <1>3, <2>1, <2>2, NoneAssumption DEF TypeOK
  <2>4. SourceOK(c)'
    BY <1>0, <1>3, <2>1, <2>2, <2>3 DEF SourceOK, Registered, Pending, Approved, In
  <2>5. MarkOK(p)'
    BY <1>0, <1>1, <2>1 DEF TypeOK, MarkOK
  <2> QED
    BY <1>0, <1>1, <1>3, <2>1, <2>3, <2>4, <2>5, AgreeApart
<1>12. CASE ReadStale(p)
  <2>1. /\ pc[p] = "stale" /\ pc[p] \in Working /\ asset' = asset /\ source' = source
        /\ Canonical(c)
    BY <1>0, <1>12 DEF ReadStale, Working, Pc, files
  <2>2. SourceOK(c)'
    BY <1>0, <1>3, <2>1 DEF SourceOK, Registered, Pending, Approved, In
  <2>3. MarkOK(p)'
    <3>1. CASE End(p)
      BY <3>1, EndApart DEF MarkOK
    <3>2. CASE /\ source[c] # None /\ Goto(p, "staling")
               /\ Set(p, [job[p] EXCEPT !.read = source[c]])
      <4>1. pc'[p] = "staling" /\ job'[p].asset = c /\ job'[p].read = source[c]
        BY <1>0, <1>1, <3>2 DEF Set, Goto, TypeOK, Job
      <4> QED
        BY <2>1, <3>2, <4>1 DEF MarkOK, Canonical
    <3> QED
      BY <1>0, <1>12, <3>1, <3>2 DEF ReadStale
  <2> QED
    BY <1>0, <1>1, <1>3, <2>1, <2>2, <2>3, AgreeApart
<1>13. CASE MarkStale(p)
  <2> DEFINE s == [job[p].read EXCEPT !.status = "stale"]
  <2>1. /\ pc[p] = "staling" /\ pc[p] \in Working /\ asset' = asset /\ End(p)
        /\ source' = [source EXCEPT ![c] = s]
    BY <1>0, <1>13 DEF MarkStale, Working, Pc
  <2>2. asset[c].status = "superseded" /\ job[p].read \in Source
    BY <1>0, <1>3, <2>1 DEF AsFound, In
  <2>3. s \in Source /\ s.status = "stale"
    BY <2>2 DEF Source
  <2> HIDE DEF s
  <2>4. /\ source'[c].status = "stale" /\ source'[c] # None
        /\ \A d \in Content \ {c} : source'[d] = source[d]
    BY <1>0, <1>1, <2>1, <2>3, NoneAssumption DEF TypeOK
  <2>5. SourceOK(c)'
    BY <1>0, <1>3, <2>1, <2>2, <2>4 DEF SourceOK, Registered, Pending, Approved, In
  <2>6. MarkOK(p)'
    BY <1>0, <2>1, EndApart DEF MarkOK
  <2> QED
    BY <1>0, <1>1, <1>3, <2>1, <2>4, <2>5, <2>6, AgreeApart
<1> QED
  BY <1>2, <1>4, <1>5, <1>6, <1>7, <1>8, <1>9, <1>10, <1>11, <1>12, <1>13 DEF Continue

LEMMA InitAgrees == Init => Agree
BY DEF Init, Agree, SourceOK, MarkOK, Pending, Approved, In, Registered

\* Another text says nothing else of the approval.
LEMMA EditAgrees ==
    ASSUME Inv, Agree, "remove" \notin Edits, NEW c \in Content, EditSource(c)
    PROVE  Agree'
<1>1. /\ UNCHANGED <<asset, pc, job>> /\ TypeOK
      /\ \A e \in Content \ {c} : source'[e] = source[e]
      /\ source[c] \in Source /\ source'[c] \in Source
      /\ source[c] # None /\ source'[c] # None
      /\ source'[c].status = source[c].status
      /\ source'[c].approved = source[c].approved
      /\ source'[c].stored = source[c].stored \/ ~source[c].approved
  <2>1. Pending(c) => ~source[c].approved
    BY DEF Agree, SourceOK
  <2> QED
    BY <2>1, Edited, NoneAssumption DEF Inv
<1>2. SourceOK(c)'
  BY <1>1 DEF Agree, SourceOK, Registered, Pending, Approved, In
<1>3. ASSUME NEW e \in Content \ {c} PROVE SourceOK(e)'
  BY <1>1 DEF Agree, SourceOK, Registered, Pending, Approved, In
<1>4. ASSUME NEW p \in Proc, pc[p] \in {"mark", "staling"} PROVE MarkOK(p)'
  <2>1. job[p].asset \in Content /\ MarkOK(p)
    BY <1>4, AtWork DEF Agree, Working, Pc
  <2>2. CASE job[p].asset = c
    BY <1>1, <2>1, <2>2 DEF MarkOK, Pending, Approved
  <2>3. CASE job[p].asset # c
    BY <1>1, <2>1, <2>3 DEF MarkOK, Pending, Approved
  <2> QED
    BY <2>2, <2>3
<1>5. \A p \in Proc : MarkOK(p)'
  BY <1>1, <1>4 DEF MarkOK
<1> QED
  BY <1>2, <1>3, <1>5 DEF Agree

LEMMA NextKeepsAgree ==
    ASSUME Inv, Agree, "remove" \notin Edits, [Next]_vars
    PROVE  Agree'
<1>1. ASSUME NEW p \in Proc, BeginCapture(p) \/ Stop(p) PROVE Agree'
  <2>1. asset' = asset /\ source' = source /\ \A q \in Proc \ {p} : pc'[q] = pc[q] /\ job'[q] = job[q]
    BY <1>1, ProcessKeeps DEF BeginCapture, Stop, files, Apart
  <2>2. pc'[p] \notin {"mark", "staling"}
    BY <1>1, EndApart DEF BeginCapture, Stop, Goto, Inv, TypeOK
  <2>3. ASSUME NEW q \in Proc PROVE MarkOK(q)'
    BY <2>1, <2>2 DEF Agree, MarkOK, Pending, Approved
  <2>4. ASSUME NEW c \in Content PROVE SourceOK(c)'
    BY <2>1 DEF Agree, SourceOK, Registered, Pending, Approved, In
  <2> QED
    BY <2>3, <2>4 DEF Agree
<1>2. CASE Save \/ UNCHANGED vars
  BY <1>2 DEF Save, vars, files, Agree, SourceOK, MarkOK, Registered, Pending, Approved, In
<1> QED
  BY <1>1, <1>2, ContinueAgrees, StartAgrees, EditAgrees DEF Next

LEMMA AgreeHolds == ASSUME "remove" \notin Edits PROVE Spec => [](Inv /\ Agree)
<1>1. Inv /\ Agree /\ [Next]_vars => Inv' /\ Agree'
  BY NextKeepsInv, NextKeepsAgree
<1> QED
  BY <1>1, InitInv, InitAgrees, PTL DEF Spec

\* write_source_draft, approve_source and the marks write a Source and its Asset
\* one after the other: wherever they stop, and whatever is inspected, accepted
\* and repaired in between, repair-state's one step is all that is missing -
\* unless git takes a Source away.
THEOREM NeverFurtherApart == ASSUME "remove" \notin Edits PROVE Spec => []OneStepApart
<1>1. Inv /\ Agree => OneStepApart
  <2> SUFFICES ASSUME Inv, Agree, NEW c \in Content, Registered(c)
               PROVE  /\ Pending(c) /\ In(c, AssetStatus \ {"superseded"}) =>
                             Base(asset[c]) \in {"extracted", "review_pending"}
                      /\ Approved(c) /\ In(c, AssetStatus \ {"superseded"}) =>
                             Base(asset[c]) \in {"review_pending", "processed"}
                      /\ source[c] = None => Base(asset[c]) \in {"registered", "extracted"}
    BY DEF OneStepApart, In
  <2>1. Base(asset[c]) = asset[c].step /\ asset[c].status \in AssetStatus
    BY ShapeIsValid DEF Inv, TypeOK, RecordOK, Registered, Asset
  <2> QED
    BY <2>1 DEF Agree, SourceOK, In, Pending, Approved
<1> QED
  BY <1>1, AgreeHolds, PTL

\* No command, stopped anywhere, takes an approval back, moves it to another
\* text or changes what the Source says; editors may change the text, not the
\* approval, and git may take the file away.
THEOREM ApprovalIsKept == ASSUME "remove" \notin Edits PROVE Spec => ApprovalStands
<1>1. ASSUME Inv, Agree, Next, NEW c \in Content, source[c] # None, source[c].approved
      PROVE  /\ source'[c] # None
             /\ source'[c].approved /\ source'[c].stored = source[c].stored
             /\ source'[c].rev \in {source[c].rev, source[c].stored} \/ EditSource(c)
  <2>1. TypeOK /\ source[c] \in Source /\ ~Pending(c)
    BY <1>1 DEF Inv, TypeOK, Agree, SourceOK
  <2>2. CASE source'[c] = source[c]
    BY <1>1, <2>2
  <2>3. ASSUME NEW p \in Proc, BeginCapture(p) \/ Stop(p) PROVE source'[c] = source[c]
    BY <2>3 DEF BeginCapture, Stop, files
  <2>4. ASSUME NEW p \in Proc, NEW d \in Content, Start(p, d) PROVE source'[c] = source[c]
    BY <2>4, StartsQuietly
  <2>5. ASSUME Save PROVE source'[c] = source[c]
    BY <2>5 DEF Save, files
  <2>6. ASSUME NEW d \in Content \ {c}, EditSource(d) PROVE source'[c] = source[c]
    BY <2>1, <2>6, Edited
  <2>7. CASE EditSource(c)
    <3>1. source'[c] \in Source /\ source'[c].approved = source[c].approved
          /\ source'[c].stored = source[c].stored
      BY <2>1, <2>7, Edited
    <3> QED
      BY <1>1, <2>7, <3>1, NoneAssumption
  <2>8. ASSUME NEW p \in Proc, Continue(p), source'[c] # source[c]
        PROVE  /\ pc[p] = "staling" /\ job[p].asset = c /\ job[p].read \in Source
               /\ source'[c] = [job[p].read EXCEPT !.status = "stale"]
    <3>1. CASE Capture(p) \/ Seen(p) \/ Prepared(p) \/ Mark(p) \/ Published(p)
               \/ Succeed(p) \/ Supersede(p) \/ ReadStale(p)
      BY <2>8, <3>1 DEF Capture, Seen, Prepared, Mark, Published, Succeed, Supersede,
         ReadStale, files
    <3>2. CASE Drafted(p)
      <4>1. job[p].asset # c
        BY <1>1, <2>1, <3>2 DEF Drafted, Inv, AsFound
      <4> QED
        BY <2>1, <2>8, <3>2, <4>1 DEF Drafted, TypeOK
    <3>3. CASE Confirm(p)
      BY <2>1, <2>8, <3>3 DEF Confirm, TypeOK
    <3>4. CASE MarkStale(p)
      BY <1>1, <2>1, <2>8, <3>4 DEF MarkStale, TypeOK, Inv, AsFound
    <3> QED
      BY <2>8, <3>1, <3>2, <3>3, <3>4 DEF Continue
  <2>9. ASSUME NEW p \in Proc, pc[p] = "staling", job[p].asset = c, job[p].read \in Source,
               source'[c] = [job[p].read EXCEPT !.status = "stale"]
        PROVE  /\ source'[c] # None
               /\ source'[c].approved /\ source'[c].stored = source[c].stored
               /\ source'[c].rev = source[c].stored
    <3>1. /\ source[c].approved = job[p].read.approved
          /\ job[p].read.rev = job[p].read.stored
          /\ job[p].read.approved => source[c].stored = job[p].read.stored
      BY <1>1, <2>9 DEF Agree, MarkOK
    <3>2. /\ source'[c] \in Source
          /\ source'[c].approved = job[p].read.approved
          /\ source'[c].rev = job[p].read.rev /\ source'[c].stored = job[p].read.stored
      BY <2>9 DEF Source
    <3> QED
      BY <1>1, <3>1, <3>2, NoneAssumption
  <2> QED
    BY <1>1, <2>2, <2>3, <2>4, <2>5, <2>6, <2>7, <2>8, <2>9 DEF Next
<1>2. Inv /\ Agree /\ [Next]_vars => [ApprovalKept]_vars
  BY <1>1 DEF ApprovalKept
<1> QED
  BY <1>2, AgreeHolds, PTL DEF Spec, ApprovalStands

-----------------------------------------------------------------------------
(* mko check *)

LEMMA IssuesOfAnAsset ==
    ASSUME NEW c \in Content
    PROVE  AssetIssues(c) # {} <=>
               \/ /\ Registered(c) /\ asset[c].supersedes # None
                  /\ ~Registered(asset[c].supersedes)
               \/ In(c, {"changed"}) /\ Successors(c) # {}
               \/ In(c, {"review_pending"}) /\ ~(Pending(c) /\ Canonical(c))
               \/ In(c, {"processed"}) /\ ~(Approved(c) /\ Canonical(c))
<1> DEFINE Names == {"supersedes_missing", "lineage_repair_needed",
                     "source_missing", "source_state_mismatch"}
           Of(issue) ==
               CASE issue = "supersedes_missing" ->
                        /\ Registered(c)
                        /\ asset[c].supersedes # None
                        /\ ~Registered(asset[c].supersedes)
                 [] issue = "lineage_repair_needed" ->
                        In(c, {"changed"}) /\ Successors(c) # {}
                 [] issue = "source_missing" ->
                        In(c, {"review_pending"}) /\ ~(Pending(c) /\ Canonical(c))
                 [] issue = "source_state_mismatch" ->
                        In(c, {"processed"}) /\ ~(Approved(c) /\ Canonical(c))
<1>1. AssetIssues(c) = {issue \in Names : Of(issue)}
  BY DEF AssetIssues
<1>2. /\ Of("supersedes_missing") <=>
             Registered(c) /\ asset[c].supersedes # None /\ ~Registered(asset[c].supersedes)
      /\ Of("lineage_repair_needed") <=> In(c, {"changed"}) /\ Successors(c) # {}
      /\ Of("source_missing") <=> In(c, {"review_pending"}) /\ ~(Pending(c) /\ Canonical(c))
      /\ Of("source_state_mismatch") <=> In(c, {"processed"}) /\ ~(Approved(c) /\ Canonical(c))
  OBVIOUS
<1> HIDE DEF Of
<1>3. AssetIssues(c) # {} <=> \E issue \in Names : Of(issue)
  BY <1>1
<1> QED
  BY <1>2, <1>3

LEMMA IssuesOfASource ==
    ASSUME NEW c \in Content
    PROVE  /\ source[c] # None /\ ~Canonical(c) => "revision_mismatch" \in SourceIssues(c)
           /\ Canonical(c) =>
                  (SourceIssues(c) # {} <=>
                      /\ source[c] # None
                      /\ \/ ~Registered(c)
                         \/ Pending(c) /\ In(c, AssetStatus \ {"review_pending"})
                         \/ Approved(c) /\ In(c, AssetStatus \ {"processed"}))
<1> DEFINE Names == {"revision_mismatch", "approval_stale", "relation_missing",
                     "source_state_mismatch"}
           Late == \/ Pending(c) /\ In(c, AssetStatus \ {"review_pending"})
                   \/ Approved(c) /\ In(c, AssetStatus \ {"processed"})
           Of(issue) ==
               /\ source[c] # None
               /\ CASE issue = "revision_mismatch" -> ~Canonical(c)
                    [] issue = "approval_stale" -> source[c].approved /\ ~Canonical(c)
                    [] issue = "relation_missing" -> ~Registered(c)
                    [] issue = "source_state_mismatch" -> Late
<1>1. SourceIssues(c) = {issue \in Names : Of(issue)}
  BY DEF SourceIssues
<1> HIDE DEF Late
<1>2. /\ Of("revision_mismatch") <=> source[c] # None /\ ~Canonical(c)
      /\ Of("approval_stale") <=> source[c] # None /\ source[c].approved /\ ~Canonical(c)
      /\ Of("relation_missing") <=> source[c] # None /\ ~Registered(c)
      /\ Of("source_state_mismatch") <=> source[c] # None /\ Late
  OBVIOUS
<1> HIDE DEF Of
<1>3. /\ SourceIssues(c) # {} <=> \E issue \in Names : Of(issue)
      /\ Of("revision_mismatch") => "revision_mismatch" \in SourceIssues(c)
  BY <1>1
<1> QED
  BY <1>2, <1>3 DEF Late

\* What `mko check` finds wrong with an Asset that is in a stable state or
\* superseded is exactly what `mko source repair-state` mends, wherever commands
\* have stopped - unless its Source has been edited by hand: that one is reported
\* for its revision, and repair-state refuses it.
THEOREM ReportsAreRepairable ==
    ASSUME "remove" \notin Edits PROVE Spec => []ReportsRepairable
<1>1. ASSUME Inv, Agree, NEW c \in Content, In(c, Stable \cup {"superseded"}), lock[c] = None
      PROVE  IF Canonical(c) THEN Issues(c) # {} <=> Repairable(c)
             ELSE "revision_mismatch" \in Issues(c) /\ ~Repairable(c)
  <2>1. /\ Registered(c) /\ asset[c] \in Asset /\ Shape(asset[c]) /\ SourceOK(c)
        /\ asset[c].supersedes # None => Registered(asset[c].supersedes)
    BY <1>1 DEF Inv, TypeOK, RecordOK, Registered, In, Agree
  <2>2. LockIssues(c) = {}
    BY <1>1 DEF LockIssues
  <2>3. CASE ~Canonical(c)
    <3>1. RepairTo(c) = None /\ None # "stale" /\ source[c] # None
      BY <2>3, NoneAssumption DEF RepairTo, Canonical
    <3> QED
      BY <2>3, <3>1, IssuesOfASource DEF Issues, Repairable
  <2>4. CASE Canonical(c) /\ asset[c].status = "superseded"
    <3>1. AssetIssues(c) = {}
      BY <2>1, <2>4, IssuesOfAnAsset DEF In
    <3>2. SourceIssues(c) # {} <=> Pending(c) \/ Approved(c)
      BY <2>1, <2>4, IssuesOfASource DEF In, Pending, Approved, AssetStatus, Stable
    <3>3. source[c] # None => source[c].status \in {"review_pending", "approved", "stale"}
      BY <1>1 DEF Inv, TypeOK, Source
    <3>4. RepairTo(c) = "stale" <=> Pending(c) \/ Approved(c)
      BY <2>1, <2>4, <3>3, NoneAssumption DEF RepairTo, In, Pending, Approved
    <3>5. RepairTo(c) \in {"stale", None}
      BY <2>4 DEF RepairTo, In
    <3> QED
      BY <2>2, <2>4, <3>1, <3>2, <3>4, <3>5 DEF Issues, Repairable
  <2>5. CASE Canonical(c) /\ asset[c].status # "superseded"
    <3> DEFINE late == \/ asset[c].status = "extracted" /\ Pending(c)
                       \/ asset[c].status = "review_pending" /\ Approved(c)
    <3>1. /\ asset[c].status \in Stable /\ asset[c].step = asset[c].status
      BY <1>1, <2>1, <2>5 DEF In, Shape
    <3>2. /\ source[c] = None => asset[c].step \in {"registered", "extracted"}
          /\ source[c] # None =>
                 \/ Pending(c) /\ asset[c].step \in {"extracted", "review_pending"}
                 \/ Approved(c) /\ asset[c].step \in {"review_pending", "processed"}
          /\ ~(Pending(c) /\ Approved(c))
      BY <2>1, <3>1 DEF SourceOK, In, AssetStatus, Stable, Pending, Approved
    <3>3. SourceIssues(c) # {} <=> late
      BY <2>1, <2>5, <3>1, <3>2, IssuesOfASource DEF In, Pending, Approved, AssetStatus, Stable
    <3>4. AssetIssues(c) # {} => late
      BY <2>1, <2>5, <3>1, <3>2, IssuesOfAnAsset DEF In, Stable, Pending, Approved
    <3>5. RepairTo(c) # None <=> late
      BY <2>1, <2>5, <3>1, <3>2, NoneAssumption
      DEF RepairTo, In, AssetStatus, Stable, Pending, Approved
    <3>6. late => /\ RepairTo(c) \in {"review_pending", "processed"}
                  /\ <<asset[c].status, RepairTo(c)>> \in
                         {<<"extracted", "review_pending">>, <<"review_pending", "processed">>}
      BY <2>1, <2>5, <3>1, <3>2 DEF RepairTo, In, Pending, Approved
    <3>7. late => CanMove(asset[c], RepairTo(c))
      BY <3>1, <3>6 DEF CanMove, Allowed, Recovers, Recoverable, Stable
    <3>8. RepairTo(c) # "stale"
      BY <2>5, <3>5, <3>6, NoneAssumption DEF RepairTo, In
    <3> QED
      BY <2>2, <2>5, <3>3, <3>4, <3>5, <3>7, <3>8 DEF Issues, Repairable
  <2> QED
    BY <2>3, <2>4, <2>5
<1>2. Inv /\ Agree => ReportsRepairable
  BY <1>1 DEF ReportsRepairable
<1> QED
  BY <1>2, AgreeHolds, PTL

-----------------------------------------------------------------------------
(* As long as no content comes back: what an interrupted acceptance leaves.   *)
(* B orders the contents by when the file has them.                           *)

Orders(B) ==
    /\ Saves \subseteq B
    /\ \A x \in Content \cup {None} : <<x, x>> \notin B
    /\ \A x, y, z \in Content \cup {None} :
           <<x, y>> \in B /\ <<y, z>> \in B => <<x, z>> \in B

Past(B, c) == <<c, disk>> \in B
Once(B, c) == disk = c \/ Past(B, c)

\* A registered content has been in the file; one with a successor no longer is,
\* and nobody has found it unchanged.
Trace(B) ==
    /\ \A c \in Content : Registered(c) => Once(B, c)
    /\ \A s, c \in Content :
           Registered(s) /\ asset[s].supersedes = c =>
               Past(B, c) /\ In(c, {"changed", "superseded"})
    /\ \A p \in Proc :
           /\ pc[p] = "captured" => Once(B, job[p].asset)
           /\ pc[p] = "seen" => \A s \in Content : Registered(s) => asset[s].supersedes # job[p].asset
           /\ pc[p] = "successor" => Past(B, job[p].asset) /\ Once(B, job[p].next)

\* Steps that leave records and file alone, and find out nothing of the file.
LEMMA QuietTrace ==
    ASSUME NEW B, Inv, Trace(B), NEW p \in Proc, Apart(p),
           asset' = asset, disk' = disk, pc'[p] \notin {"captured", "seen", "successor"}
    PROVE  Trace(B)'
<1>1. ASSUME NEW q \in Proc
      PROVE  /\ pc'[q] = "captured" => Once(B, job[q].asset)'
             /\ pc'[q] = "seen" => \A s \in Content : Registered(s)' => asset'[s].supersedes # job'[q].asset
             /\ pc'[q] = "successor" => Past(B, job[q].asset)' /\ Once(B, job[q].next)'
  <2>1. CASE q = p
    BY <2>1
  <2>2. CASE q # p
    BY <2>2 DEF Trace, Apart, Once, Past, Registered
  <2> QED
    BY <2>1, <2>2
<1> QED
  BY <1>1 DEF Trace, Once, Past, Registered, In

\* Steps that end a command with a new state of its Asset: where it has a
\* successor, only from changed to superseded.
LEMMA MovedTrace ==
    ASSUME NEW B, Inv, Trace(B), NEW p \in Proc, Apart(p), disk' = disk,
           NEW c \in Content, Registered(c),
           NEW r \in Asset, r.supersedes = asset[c].supersedes,
           asset' = [asset EXCEPT ![c] = r],
           \/ r.status = "superseded"
           \/ \A s \in Content : Registered(s) => asset[s].supersedes # c,
           pc'[p] \notin {"captured", "seen", "successor"}
    PROVE  Trace(B)'
<1>1. asset'[c] = r /\ r # None /\ \A d \in Content \ {c} : asset'[d] = asset[d]
  BY NoneAssumption DEF Inv, TypeOK
<1>2. \A d \in Content : /\ Registered(d)' <=> Registered(d)
                          /\ Registered(d) => asset'[d].supersedes = asset[d].supersedes
  <2>1. Registered(c)' /\ Registered(c) /\ asset'[c].supersedes = asset[c].supersedes
    BY <1>1 DEF Registered
  <2>2. ASSUME NEW d \in Content \ {c} PROVE asset'[d] = asset[d]
    BY <1>1
  <2> QED
    BY <2>1, <2>2 DEF Registered
<1>3. \A d \in Content : Registered(d)' => Once(B, d)'
  BY <1>2 DEF Trace, Once, Past, Registered
<1>4. ASSUME NEW s \in Content, NEW d \in Content, Registered(s)', asset'[s].supersedes = d
      PROVE  Past(B, d)' /\ In(d, {"changed", "superseded"})'
  <2>1. Registered(s) /\ asset[s].supersedes = d
    BY <1>2, <1>4 DEF Registered
  <2>2. Past(B, d) /\ In(d, {"changed", "superseded"})
    BY <2>1 DEF Trace
  <2> QED
    BY <1>1, <2>1, <2>2 DEF Past, In, Registered
<1>5. ASSUME NEW q \in Proc
      PROVE  /\ pc'[q] = "captured" => Once(B, job[q].asset)'
             /\ pc'[q] = "seen" => \A s \in Content : Registered(s)' => asset'[s].supersedes # job'[q].asset
             /\ pc'[q] = "successor" => Past(B, job[q].asset)' /\ Once(B, job[q].next)'
  <2>1. CASE q = p
    BY <2>1
  <2>2. CASE q # p
    <3>1. pc'[q] = pc[q] /\ job'[q] = job[q]
      BY <2>2 DEF Apart
    <3> QED
      BY <1>2, <3>1 DEF Trace, Once, Past, Registered
  <2> QED
    BY <2>1, <2>2
<1> QED
  BY <1>3, <1>4, <1>5 DEF Trace

\* Steps that begin to look at the file.
LEMMA LookTrace ==
    ASSUME NEW B, Inv, Trace(B), NEW p \in Proc, Apart(p), asset' = asset, disk' = disk,
           pc'[p] = "captured" => Once(B, job[p].asset)',
           pc'[p] = "seen" => \A s \in Content : Registered(s) => asset[s].supersedes # job'[p].asset,
           pc'[p] = "successor" => Past(B, job[p].asset)' /\ Once(B, job[p].next)'
    PROVE  Trace(B)'
<1>1. ASSUME NEW q \in Proc
      PROVE  /\ pc'[q] = "captured" => Once(B, job[q].asset)'
             /\ pc'[q] = "seen" => \A s \in Content : Registered(s)' => asset'[s].supersedes # job'[q].asset
             /\ pc'[q] = "successor" => Past(B, job[q].asset)' /\ Once(B, job[q].next)'
  <2>1. CASE q = p
    BY <2>1 DEF Registered
  <2>2. CASE q # p
    BY <2>2 DEF Trace, Apart, Once, Past, Registered
  <2> QED
    BY <2>1, <2>2
<1> QED
  BY <1>1 DEF Trace, Once, Past, Registered, In

LEMMA StartTrace ==
    ASSUME NEW B, Orders(B), Inv, Trace(B), NEW p \in Proc, NEW c \in Content, Start(p, c)
    PROVE  Trace(B)'
<1>1. Apart(p) /\ asset' = asset /\ disk' = disk /\ TypeOK
  BY StartKeeps, StartsQuietly DEF Inv
<1>2. CASE Inspect(p, c)
  <2>1. /\ In(c, AssetStatus \ {"superseded"}) /\ CanMove(asset[c], Observed(c))
        /\ Observed(c) # asset[c].status /\ pc'[p] = "seen" /\ job'[p].asset = c
    BY <1>1, <1>2 DEF Inspect, Set, Goto, TypeOK, NoJob
  <2>2. ASSUME NEW s \in Content, Registered(s), asset[s].supersedes = c PROVE FALSE
    <3>1. <<c, disk>> \in B /\ asset[c].status = "changed"
      BY <2>1, <2>2 DEF Trace, Past, In
    <3>2. disk # c
      BY <1>1, <3>1 DEF Orders, TypeOK
    <3>3. Observed(c) = "missing"
      BY <2>1, <3>1, <3>2 DEF Observed
    <3> QED
      BY <2>1, <3>1, <3>3 DEF CanMove, Allowed, Stable, Recoverable, AssetStatus
  <2> QED
    BY <1>1, <2>1, <2>2, LookTrace
<1>3. CASE Accept(p, c)
  <2>1. /\ Registered(c) /\ disk # c /\ pc'[p] = "successor"
        /\ job'[p].asset = c /\ job'[p].next = disk
    BY <1>1, <1>3 DEF Accept, In, Set, Goto, TypeOK, NoJob
  <2>2. <<c, disk>> \in B
    BY <2>1 DEF Trace, Once, Past
  <2> QED
    BY <1>1, <2>1, <2>2, LookTrace DEF Past, Once
<1>4. CASE ~Inspect(p, c) /\ ~Accept(p, c)
  <2>1. \E s \in Pc \ {"captured", "seen", "successor"} : Goto(p, s)
    <3>1. ASSUME RepairState(p, c) PROVE Goto(p, "stale") \/ Goto(p, "mark")
      BY <3>1 DEF RepairState
    <3>2. ASSUME RepairLineage(p, c) PROVE Goto(p, "stale") \/ Goto(p, "supersede")
      BY <3>2 DEF RepairLineage
    <3>3. ASSUME WriteDraft(p, c) PROVE Goto(p, "mark") \/ Goto(p, "drafted")
      BY <3>3, Zenon DEF WriteDraft
    <3> QED
      BY <1>4, <3>1, <3>2, <3>3 DEF Start, Prepare, Approve, Pc
  <2>2. pc'[p] \notin {"captured", "seen", "successor"}
    BY <1>1, <2>1 DEF Goto, TypeOK
  <2> QED
    BY <1>1, <2>2, QuietTrace
<1> QED
  BY <1>2, <1>3, <1>4

LEMMA ContinueTrace ==
    ASSUME NEW B, Inv, Trace(B), NEW p \in Proc, Continue(p)
    PROVE  Trace(B)'
<1>0. PICK c \in Content : job[p].asset = c
  BY DEF Inv, Holds, Continue, Capture, Seen, Prepared, Drafted, Mark, Confirm, Published,
     Succeed, Supersede, ReadStale, MarkStale
<1>1. Apart(p) /\ TypeOK /\ disk' = disk /\ (pc[p] # "captured" => pc[p] \in Working)
  <2>1. disk' = disk /\ pc[p] # "idle"
    BY DEF Continue, Capture, Seen, Prepared, Drafted, Mark, Confirm, Published, Succeed,
       Supersede, ReadStale, MarkStale, files
  <2> QED
    BY <2>1, ProcessKeeps DEF Inv, TypeOK, Working, Pc
<1>2. pc[p] # "captured" => /\ Registered(c) /\ lock[c] = p /\ asset[c] \in Asset
                            /\ Shape(asset[c])
  BY <1>0, <1>1, AtWork
<1>3. In(c, Stable) => \A s \in Content : Registered(s) => asset[s].supersedes # c
  BY DEF Trace, In, Stable
<1>4. CASE Prepared(p) \/ Drafted(p) \/ Confirm(p) \/ ReadStale(p) \/ MarkStale(p)
  <2>1. asset' = asset
    BY <1>4 DEF Prepared, Drafted, Confirm, ReadStale, MarkStale, files
  <2>2. End(p) \/ Goto(p, "mark") \/ Goto(p, "approved") \/ Goto(p, "staling")
    BY <1>4 DEF Prepared, Drafted, Confirm, ReadStale, MarkStale, files
  <2>3. pc'[p] \notin {"captured", "seen", "successor"}
    BY <1>1, <2>2 DEF End, Goto, TypeOK
  <2> QED
    BY <1>1, <2>1, <2>3, QuietTrace
<1>5. CASE Seen(p)
  <2> DEFINE r == Moved(asset[c], job[p].to)
  <2>1. pc[p] = "seen" /\ pc'[p] = "idle" /\ asset' = [asset EXCEPT ![c] = r]
    BY <1>0, <1>5, EndApart DEF Seen
  <2>2. r \in Asset /\ r.supersedes = asset[c].supersedes
    BY <1>0, <1>2, <2>1, MovedAside, MovedBack DEF Inv, AsFound, In
  <2>3. \A s \in Content : Registered(s) => asset[s].supersedes # c
    BY <1>0, <2>1 DEF Trace
  <2> HIDE DEF r
  <2> QED
    BY <1>1, <1>2, <2>1, <2>2, <2>3, MovedTrace
<1>6. CASE Mark(p) \/ Published(p)
  <2>1. Mark(p) => In(c, Stable) /\ pc[p] # "captured"
    BY <1>0 DEF Mark, Inv, AsFound
  <2>2. In(c, Stable) /\ pc[p] # "captured" /\ pc'[p] = "idle"
    BY <1>0, <1>6, <2>1, EndApart DEF Mark, Published, In, Stable
  <2>3. PICK r \in Asset : r.supersedes = asset[c].supersedes /\ asset' = [asset EXCEPT ![c] = r]
    <3>1. CASE Published(p)
      <4>1. "processed" \in Stable
        BY DEF Stable
      <4>2. /\ Moved(asset[c], "processed") \in Asset
            /\ Moved(asset[c], "processed").supersedes = asset[c].supersedes
        BY <1>2, <2>2, <4>1, MovedOn DEF In
      <4> QED
        BY <1>0, <3>1, <4>2 DEF Published
    <3>2. CASE Mark(p) /\ CanMove(asset[c], job[p].to)
      <4>1. pc[p] = "mark" /\ job[p].to \in Stable
        BY <3>2 DEF Mark, Inv, AsFound
      <4>2. /\ Moved(asset[c], job[p].to) \in Asset
            /\ Moved(asset[c], job[p].to).supersedes = asset[c].supersedes
        BY <1>2, <2>2, <4>1, MovedOn DEF In
      <4> QED
        BY <1>0, <3>2, <4>2 DEF Mark
    <3>3. CASE Mark(p) /\ ~CanMove(asset[c], job[p].to)
      BY <1>0, <1>1, <1>2, <2>2, <3>3 DEF Mark, TypeOK
    <3> QED
      BY <1>6, <3>1, <3>2, <3>3
  <2> QED
    BY <1>1, <1>2, <1>3, <2>2, <2>3, MovedTrace
<1>7. CASE Supersede(p)
  <2> DEFINE r == Moved(asset[c], "superseded")
  <2>1. /\ pc[p] = "supersede" /\ pc' = [pc EXCEPT ![p] = "stale"]
        /\ asset' = [asset EXCEPT ![c] = r]
    BY <1>0, <1>7 DEF Supersede, Goto
  <2>2. r \in Asset /\ r.supersedes = asset[c].supersedes /\ r.status = "superseded"
    BY <1>0, <1>2, <2>1, MovedOut DEF Inv, AsFound, In
  <2>3. pc'[p] = "stale"
    BY <1>1, <2>1 DEF TypeOK
  <2> HIDE DEF r
  <2> QED
    BY <1>1, <1>2, <2>1, <2>2, <2>3, MovedTrace
<1>8. CASE Capture(p)
  <2>1. /\ pc[p] = "captured" /\ pc'[p] = "idle"
        /\ asset' = [asset EXCEPT ![c] = IF Registered(c) THEN @ ELSE Fresh(c, None)]
    BY <1>0, <1>8, EndApart DEF Capture
  <2>2. CASE Registered(c)
    BY <1>1, <2>1, <2>2, QuietTrace DEF TypeOK
  <2>3. CASE ~Registered(c)
    <3>1. /\ asset'[c].supersedes = None
          /\ \A d \in Content \ {c} : asset'[d] = asset[d]
          /\ \A d \in Content : In(d, {"changed", "superseded"}) => d # c
      BY <1>1, <2>1, <2>3 DEF TypeOK, Fresh, In
    <3>2. \A d \in Content : Registered(d)' => Once(B, d)'
      BY <1>0, <1>1, <2>1, <3>1 DEF Trace, Once, Past, Registered
    <3>3. \A s, d \in Content :
             Registered(s)' /\ asset'[s].supersedes = d =>
                 Past(B, d)' /\ In(d, {"changed", "superseded"})'
      BY <1>1, <3>1, ConstantsAssumption DEF Trace, Past, Registered, In
    <3>4. ASSUME NEW q \in Proc
          PROVE  /\ pc'[q] = "captured" => Once(B, job[q].asset)'
                 /\ pc'[q] = "seen" => \A s \in Content : Registered(s)' => asset'[s].supersedes # job'[q].asset
                 /\ pc'[q] = "successor" => Past(B, job[q].asset)' /\ Once(B, job[q].next)'
      <4>1. CASE q = p
        BY <2>1, <4>1
      <4>2. CASE q # p
        <5>1. pc'[q] = pc[q] /\ job'[q] = job[q] /\ (pc[q] = "seen" => job[q].asset \in Content)
          BY <1>1, <4>2 DEF Apart, Inv, Holds
        <5> QED
          BY <1>1, <3>1, <5>1, ConstantsAssumption DEF Trace, Once, Past, Registered
      <4> QED
        BY <4>1, <4>2
    <3> QED
      BY <3>2, <3>3, <3>4 DEF Trace
  <2> QED
    BY <2>2, <2>3
<1>9. CASE Succeed(p)
  <2>0. PICK n \in Content \ {c} : job[p].next = n
    BY <1>0, <1>9 DEF Succeed, Inv, AsFound
  <2>1. /\ pc[p] = "successor" /\ pc' = [pc EXCEPT ![p] = "supersede"]
        /\ asset' = [asset EXCEPT ![n] = IF Registered(n) THEN @ ELSE Fresh(n, c)]
    BY <1>0, <1>9, <2>0 DEF Succeed, Goto
  <2>2. pc'[p] = "supersede" /\ In(c, {"changed"}) /\ Past(B, c) /\ Once(B, n)
    BY <1>0, <1>1, <2>0, <2>1 DEF TypeOK, Trace, Inv, AsFound
  <2>3. CASE Registered(n)
    BY <1>1, <2>1, <2>2, <2>3, QuietTrace DEF TypeOK
  <2>4. CASE ~Registered(n)
    <3>1. /\ asset'[n].supersedes = c
          /\ \A d \in Content \ {n} : asset'[d] = asset[d]
          /\ \A d \in Content : In(d, {"changed", "superseded"}) => d # n
      BY <1>1, <2>1, <2>4 DEF TypeOK, Fresh, In
    <3>2. \A d \in Content : Registered(d)' => Once(B, d)'
      BY <1>1, <2>2, <3>1 DEF Trace, Once, Past, Registered
    <3>3. \A s, d \in Content :
             Registered(s)' /\ asset'[s].supersedes = d =>
                 Past(B, d)' /\ In(d, {"changed", "superseded"})'
      BY <1>1, <2>2, <3>1 DEF Trace, Past, Registered, In
    <3>4. ASSUME NEW q \in Proc
          PROVE  /\ pc'[q] = "captured" => Once(B, job[q].asset)'
                 /\ pc'[q] = "seen" => \A s \in Content : Registered(s)' => asset'[s].supersedes # job'[q].asset
                 /\ pc'[q] = "successor" => Past(B, job[q].asset)' /\ Once(B, job[q].next)'
      <4>1. CASE q = p
        BY <2>2, <4>1
      <4>2. CASE q # p
        <5>1. pc'[q] = pc[q] /\ job'[q] = job[q]
          BY <1>1, <4>2 DEF Apart
        <5>2. pc[q] = "seen" => job[q].asset # c
          BY <1>0, <1>2, <2>1, <4>2, NotAnothers DEF Working, Pc
        <5> QED
          BY <1>1, <3>1, <5>1, <5>2 DEF Trace, Once, Past, Registered
      <4> QED
        BY <4>1, <4>2
    <3> QED
      BY <3>2, <3>3, <3>4 DEF Trace
  <2> QED
    BY <2>3, <2>4
<1> QED
  BY <1>4, <1>5, <1>6, <1>7, <1>8, <1>9 DEF Continue

\* The file moves on: what was in it, or before it, is before what it holds now.
LEMMA SaveTrace ==
    ASSUME NEW B, Orders(B), Inv, Trace(B), Save
    PROVE  Trace(B)'
<1>1. PICK s \in Saves : disk = s[1] /\ disk' = s[2]
  BY DEF Save
<1>2. /\ UNCHANGED <<asset, pc, job>> /\ <<disk, disk'>> \in B
      /\ disk \in Content \cup {None} /\ disk' \in Content \cup {None}
  <2>1. s = <<disk, disk'>> /\ disk \in Content \cup {None} /\ disk' \in Content \cup {None}
    BY <1>1, ConstantsAssumption
  <2> QED
    BY <1>1, <2>1 DEF Save, files, Orders
<1>3. ASSUME NEW c \in Content, Once(B, c) PROVE Past(B, c)'
  BY <1>2, <1>3 DEF Orders, Once, Past
<1>4. ASSUME NEW p \in Proc
      PROVE  /\ pc[p] = "captured" => job[p].asset \in Content
             /\ pc[p] = "successor" => job[p].asset \in Content /\ job[p].next \in Content
  BY DEF Inv, Holds, AsFound
<1>5. \A c \in Content : Registered(c)' => Once(B, c)'
  BY <1>2, <1>3 DEF Trace, Registered, Once
<1>6. \A s2, c \in Content :
         Registered(s2)' /\ asset'[s2].supersedes = c =>
             Past(B, c)' /\ In(c, {"changed", "superseded"})'
  BY <1>2, <1>3 DEF Trace, Registered, In, Once
<1>7. ASSUME NEW p \in Proc
      PROVE  /\ pc'[p] = "captured" => Once(B, job[p].asset)'
             /\ pc'[p] = "seen" => \A s2 \in Content : Registered(s2)' => asset'[s2].supersedes # job'[p].asset
             /\ pc'[p] = "successor" => Past(B, job[p].asset)' /\ Once(B, job[p].next)'
  <2>1. CASE pc[p] = "captured"
    <3>1. PICK c \in Content : job[p].asset = c
      BY <1>4, <2>1
    <3>2. Once(B, c)
      BY <2>1, <3>1 DEF Trace
    <3> QED
      BY <1>2, <1>3, <2>1, <3>1, <3>2 DEF Once, Past
  <2>2. CASE pc[p] = "successor"
    <3>1. PICK c \in Content, n \in Content : job[p].asset = c /\ job[p].next = n
      BY <1>4, <2>2
    <3>2. Past(B, c) /\ Once(B, n)
      BY <2>2, <3>1 DEF Trace
    <3> QED
      BY <1>2, <1>3, <2>2, <3>1, <3>2 DEF Once, Past
  <2>3. CASE pc[p] \notin {"captured", "successor"}
    BY <1>2, <2>3 DEF Trace, Registered
  <2> QED
    BY <2>1, <2>2, <2>3
<1> QED
  BY <1>5, <1>6, <1>7 DEF Trace

LEMMA NextTrace ==
    ASSUME NEW B, Orders(B), Inv, Trace(B), [Next]_vars
    PROVE  Trace(B)'
<1>1. ASSUME NEW p \in Proc, BeginCapture(p) PROVE Trace(B)'
  <2>1. /\ Apart(p) /\ asset' = asset /\ disk' = disk
        /\ pc'[p] = "captured" /\ job'[p].asset = disk
    BY <1>1, BeginCaptureKeeps DEF BeginCapture, Set, Goto, files, Inv, TypeOK, NoJob
  <2> QED
    BY <2>1, LookTrace DEF Once
<1>2. ASSUME NEW p \in Proc, Stop(p) PROVE Trace(B)'
  <2>1. Apart(p) /\ asset' = asset /\ disk' = disk /\ pc'[p] = "idle"
    BY <1>2, StopKeeps, EndApart DEF Stop, files
  <2> QED
    BY <2>1, QuietTrace
<1>3. ASSUME NEW c \in Content, EditSource(c) PROVE Trace(B)'
  BY <1>3 DEF EditSource, Trace, Once, Past, Registered, In
<1>4. CASE UNCHANGED vars
  BY <1>4 DEF vars, files, Trace, Once, Past, Registered, In
<1> QED
  BY <1>1, <1>2, <1>3, <1>4, StartTrace, ContinueTrace, SaveTrace DEF Next

\* accept_changed_asset publishes the successor before it supersedes the record:
\* whoever stops in between, and whatever is inspected meanwhile, the old record
\* is changed, which `mko check` reports, or superseded - whatever the contents,
\* as long as none of them comes back into the file.
THEOREM AcceptanceIsReported ==
    ASSUME NEW B, Orders(B)
    PROVE  Spec => []InterruptionReported
<1>1. Init => Trace(B)
  BY DEF Init, Trace, Registered
<1>2. Inv /\ Trace(B) /\ [Next]_vars => Inv' /\ Trace(B)'
  BY NextKeepsInv, NextTrace
<1>3. Trace(B) => InterruptionReported
  BY DEF Trace, InterruptionReported, Successors
<1> QED
  BY <1>1, <1>2, <1>3, InitInv, PTL DEF Spec
=============================================================================

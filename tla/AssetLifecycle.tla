--------------------------- MODULE AssetLifecycle ---------------------------
(***************************************************************************)
(* mko-core/src/registry.rs, prepare.rs, source.rs and approve.rs: a PDF   *)
(* in the provider folder, the Asset records that name its contents by     *)
(* hash, and the Source drafted and approved for each Asset.               *)
(*                                                                         *)
(* Every command but capture runs under the lock of its Asset, one step    *)
(* here (LockFiles). It writes the files it changes one after another, and *)
(* between two of them it may be killed or fail: what it leaves is for the *)
(* next command, `mko source repair-state` or `mko asset repair-lineage`.  *)
(* A lock left behind is cleared by that next command.                     *)
(***************************************************************************)
EXTENDS AssetStates, FiniteSets

CONSTANTS Proc,     \* processes
          Content,  \* what the file may contain; an Asset is named by it
          Draft,    \* what a Source may say
          Saves,    \* changes of the file, pairs of contents; None: no file
          Edits,    \* what is done to Sources: "swap", "remove", "hand"
          None

ASSUME ConstantsAssumption ==
    /\ None \notin Content /\ None \notin Proc /\ None \notin Draft
    /\ Saves \subseteq (Content \cup {None}) \X (Content \cup {None})
    /\ Edits \subseteq {"swap", "remove", "hand"}

VARIABLES
    disk,     \* the file's content, or None
    asset,    \* asset[c]: assets/registry/<c>.md, or None
    bundle,   \* Assets with a prepared bundle
    source,   \* source[c]: the Source of Asset c, or None
    lock,     \* lock[c]: who holds the lock of Asset c
    pc, job   \* job[p]: what p works on and what it has read

files == <<asset, bundle, source>>
vars == <<disk, files, lock, pc, job>>

History == {<<>>} \cup [1..1 -> AssetStatus] \cup [1..2 -> AssetStatus]
Asset == [status : AssetStatus, history : History, step : Stable,
          supersedes : Content \cup {None}]
\* What a Source says (`rev`, the revision calculated from it), and the revision
\* it names: content_revision, and approved_revision once it is approved.
\* validate_review: "stale" keeps what the review said before.
Source == [status : {"review_pending", "approved", "stale"},
           approved : BOOLEAN, rev : Draft, stored : Draft]
Pc == {"idle", "captured", "seen", "prepared", "drafted", "mark",
       "confirm", "approved", "successor", "supersede", "stale", "staling"}
Job == [asset : Content \cup {None}, to : AssetStatus, rev : Draft \cup {None},
        next : Content \cup {None}, read : Source \cup {None}]
NoJob == [asset |-> None, to |-> "registered", rev |-> None,
          next |-> None, read |-> None]

ASSUME NoneAssumption == None \notin Asset \cup Source \cup AssetStatus \cup {"stale"}

TypeOK ==
    /\ disk \in Content \cup {None}
    /\ asset \in [Content -> Asset \cup {None}]
    /\ bundle \in SUBSET Content
    /\ source \in [Content -> Source \cup {None}]
    /\ lock \in [Content -> Proc \cup {None}]
    /\ pc \in [Proc -> Pc]
    /\ job \in [Proc -> Job]

Init ==
    /\ disk \in Content
    /\ asset = [c \in Content |-> None]
    /\ bundle = {}
    /\ source = [c \in Content |-> None]
    /\ lock = [c \in Content |-> None]
    /\ pc = [p \in Proc |-> "idle"]
    /\ job = [p \in Proc |-> NoJob]

-----------------------------------------------------------------------------

Registered(c) == asset[c] # None
In(c, S) == Registered(c) /\ asset[c].status \in S
Pending(c) == source[c] # None /\ source[c].status = "review_pending"
Approved(c) == source[c] # None /\ source[c].status = "approved"
\* validate_canonical_source: a Source is what the revision it names says. It is
\* not after an edit by hand, until another one restores the text.
Canonical(c) == source[c] # None => source[c].rev = source[c].stored
Successors(c) == {s \in Content : Registered(s) /\ asset[s].supersedes = c}

Fresh(c, old) == [status |-> "registered", history |-> <<>>,
                  step |-> "registered", supersedes |-> old]

Goto(p, s) == pc' = [pc EXCEPT ![p] = s]
Begin(p, c) ==
    /\ pc[p] = "idle"
    /\ lock[c] = None
    /\ lock' = [lock EXCEPT ![c] = p]
End(p) ==
    /\ Goto(p, "idle")
    /\ lock' = [c \in Content |-> IF lock[c] = p THEN None ELSE lock[c]]
    /\ job' = [job EXCEPT ![p] = NoJob]
Set(p, j) == job' = [job EXCEPT ![p] = j]

-----------------------------------------------------------------------------
(* capture_asset: no lock, the record is created if its name is free *)

BeginCapture(p) ==
    /\ pc[p] = "idle"
    /\ disk # None
    /\ Set(p, [NoJob EXCEPT !.asset = disk])
    /\ Goto(p, "captured")
    /\ UNCHANGED <<disk, files, lock>>

Capture(p) ==
    LET c == job[p].asset IN
    /\ pc[p] = "captured"
    /\ asset' = [asset EXCEPT ![c] = IF Registered(c) THEN @ ELSE Fresh(c, None)]
    /\ End(p)
    /\ UNCHANGED <<disk, bundle, source>>

-----------------------------------------------------------------------------
(* inspect_asset *)

\* What the file says of Asset c.
Observed(c) ==
    IF disk = None THEN "missing"
    ELSE IF disk # c THEN "changed"
    ELSE IF asset[c].history = <<>> THEN asset[c].status
    ELSE Top(asset[c].history)

\* Mutant of Inspect: a superseded Asset is looked at like any other.
InspectSuperseded(p, c) ==
    /\ Begin(p, c)
    /\ Registered(c)
    /\ Observed(c) # asset[c].status
    /\ Set(p, [NoJob EXCEPT !.asset = c, !.to = Observed(c)])
    /\ Goto(p, "seen")
    /\ UNCHANGED <<disk, files>>

\* The file is compared with the record; a superseded Asset is left alone.
Inspect(p, c) ==
    /\ Begin(p, c)
    /\ In(c, AssetStatus \ {"superseded"})
    /\ Observed(c) # asset[c].status
    /\ CanMove(asset[c], Observed(c))
    /\ Set(p, [NoJob EXCEPT !.asset = c, !.to = Observed(c)])
    /\ Goto(p, "seen")
    /\ UNCHANGED <<disk, files>>

\* write_asset with the record as read under the lock.
Seen(p) ==
    LET c == job[p].asset IN
    /\ pc[p] = "seen"
    /\ asset' = [asset EXCEPT ![c] = Moved(@, job[p].to)]
    /\ End(p)
    /\ UNCHANGED <<disk, bundle, source>>

-----------------------------------------------------------------------------
(* prepare_source, write_source_draft *)

Prepare(p, c) ==
    /\ Begin(p, c)
    /\ In(c, {"registered", "extracted"})
    /\ disk = c
    /\ Set(p, [NoJob EXCEPT !.asset = c])
    /\ Goto(p, "prepared")
    /\ UNCHANGED <<disk, files>>

\* The bundle is published before the record moves on.
Prepared(p) ==
    LET c == job[p].asset IN
    /\ pc[p] = "prepared"
    /\ bundle' = bundle \cup {c}
    /\ IF asset[c].status = "registered"
       THEN /\ Set(p, [job[p] EXCEPT !.to = "extracted"])
            /\ Goto(p, "mark")
            /\ UNCHANGED lock
       ELSE End(p)
    /\ UNCHANGED <<disk, asset, source>>

\* Mutant of WriteDraft: an approved Source is regenerated like a pending one.
WriteDraftOver(p, c) ==
    /\ Begin(p, c)
    /\ c \in bundle
    /\ In(c, {"extracted", "review_pending", "processed"})
    /\ \E d \in Draft : Set(p, [NoJob EXCEPT !.asset = c, !.rev = d])
    /\ Goto(p, "drafted")
    /\ UNCHANGED <<disk, files>>

\* Up to the write. A pending Source is replaced when its author says so; one
\* that says the same already is left, and only its Asset may have to follow.
WriteDraft(p, c) ==
    /\ Begin(p, c)
    /\ c \in bundle
    /\ In(c, {"extracted", "review_pending", "processed"})
    /\ source[c] = None \/ (Pending(c) /\ Canonical(c))
    /\ \E d \in Draft :
           IF source[c] # None /\ source[c].rev = d
           THEN /\ In(c, {"extracted"})
                /\ Set(p, [NoJob EXCEPT !.asset = c, !.to = "review_pending"])
                /\ Goto(p, "mark")
           ELSE /\ Set(p, [NoJob EXCEPT !.asset = c, !.rev = d])
                /\ Goto(p, "drafted")
    /\ UNCHANGED <<disk, files>>

\* Mutant of Drafted: the Asset is marked before its Source is there.
DraftedLater(p) ==
    LET c == job[p].asset IN
    /\ pc[p] = "drafted"
    /\ asset' = [asset EXCEPT ![c] =
           IF CanMove(@, "review_pending") THEN Moved(@, "review_pending") ELSE @]
    /\ source' = source
    /\ End(p)
    /\ UNCHANGED <<disk, bundle>>

\* The Source first; then transition_asset_after_source, only from "extracted".
Drafted(p) ==
    LET c == job[p].asset IN
    /\ pc[p] = "drafted"
    /\ source' = [source EXCEPT ![c] =
           [status |-> "review_pending", approved |-> FALSE,
            rev |-> job[p].rev, stored |-> job[p].rev]]
    /\ IF asset[c].status = "extracted"
       THEN /\ Set(p, [job[p] EXCEPT !.to = "review_pending"])
            /\ Goto(p, "mark")
            /\ UNCHANGED lock
       ELSE End(p)
    /\ UNCHANGED <<disk, asset, bundle>>

\* mark_asset_extracted, mark_asset_review_pending, mark_asset_processed.
Mark(p) ==
    LET c == job[p].asset IN
    /\ pc[p] = "mark"
    /\ asset' = [asset EXCEPT ![c] =
           IF CanMove(@, job[p].to) THEN Moved(@, job[p].to) ELSE @]
    /\ End(p)
    /\ UNCHANGED <<disk, bundle, source>>

\* Mutant of RepairTo: an approved Source is not repaired.
RepairToPending(c) ==
    IF source[c] = None \/ ~Canonical(c) THEN None
    ELSE IF In(c, {"superseded"}) /\ source[c].status # "stale" THEN "stale"
    ELSE IF In(c, {"extracted"}) /\ Pending(c) THEN "review_pending"
    ELSE None

\* What repair_source_state makes of Asset c or of its Source: the Asset follows
\* its Source, the Source of a superseded Asset is stale. None: it refuses, as
\* it does a Source that is not canonical, or finds nothing to do.
RepairTo(c) ==
    IF source[c] = None \/ ~Canonical(c) THEN None
    ELSE IF In(c, {"superseded"}) /\ source[c].status # "stale" THEN "stale"
    ELSE IF In(c, {"extracted", "processed"}) /\ Pending(c) THEN "review_pending"
    ELSE IF In(c, {"extracted", "review_pending"}) /\ Approved(c) THEN "processed"
    ELSE None

\* repair_source_state, up to the write.
RepairState(p, c) ==
    /\ Begin(p, c)
    /\ RepairTo(c) # None
    /\ IF RepairTo(c) = "stale"
       THEN Set(p, [NoJob EXCEPT !.asset = c]) /\ Goto(p, "stale")
       ELSE /\ Set(p, [NoJob EXCEPT !.asset = c, !.to = RepairTo(c)])
            /\ Goto(p, "mark")
    /\ UNCHANGED <<disk, files>>

-----------------------------------------------------------------------------
(* approve_source *)

\* The Source is shown and the owner confirms it, under the lock.
Approve(p, c) ==
    /\ Begin(p, c)
    /\ In(c, {"review_pending"})
    /\ Pending(c) /\ Canonical(c)
    /\ Set(p, [NoJob EXCEPT !.asset = c, !.rev = source[c].rev])
    /\ Goto(p, "confirm")
    /\ UNCHANGED <<disk, files>>

\* Mutant of Confirm: the Source on disk is approved, whatever it says by now.
ConfirmUnseen(p) ==
    LET c == job[p].asset IN
    /\ pc[p] = "confirm"
    /\ Pending(c)
    /\ source' = [source EXCEPT ![c].status = "approved", ![c].approved = TRUE,
                                ![c].stored = source[c].rev]
    /\ Set(p, [job[p] EXCEPT !.to = "processed"])
    /\ Goto(p, "approved")
    /\ UNCHANGED <<disk, asset, bundle, lock>>

\* The Source is compared with what was shown and exchanged.
Confirm(p) ==
    LET c == job[p].asset IN
    /\ pc[p] = "confirm"
    /\ Pending(c) /\ Canonical(c) /\ source[c].rev = job[p].rev
    /\ source' = [source EXCEPT ![c].status = "approved", ![c].approved = TRUE]
    /\ Set(p, [job[p] EXCEPT !.to = "processed"])
    /\ Goto(p, "approved")
    /\ UNCHANGED <<disk, asset, bundle, lock>>

\* It is read once more, and then the Asset, as it was read, is exchanged.
Published(p) ==
    LET c == job[p].asset IN
    /\ pc[p] = "approved"
    /\ Approved(c) /\ Canonical(c) /\ source[c].rev = job[p].rev
    /\ In(c, {"review_pending"})
    /\ asset' = [asset EXCEPT ![c] = Moved(@, "processed")]
    /\ End(p)
    /\ UNCHANGED <<disk, bundle, source>>

-----------------------------------------------------------------------------
(* accept_changed_asset, repair_lineage *)

Accept(p, c) ==
    /\ Begin(p, c)
    /\ In(c, {"changed"})
    /\ disk \notin {None, c}
    /\ Set(p, [NoJob EXCEPT !.asset = c, !.next = disk])
    /\ Goto(p, "successor")
    /\ UNCHANGED <<disk, files>>

\* write_new of the successor, validate_accepted_successor when it exists.
Succeed(p) ==
    LET c == job[p].asset  n == job[p].next IN
    /\ pc[p] = "successor"
    /\ Registered(n) => asset[n].supersedes = c
    /\ asset' = [asset EXCEPT ![n] = IF Registered(n) THEN @ ELSE Fresh(n, c)]
    /\ Goto(p, "supersede")
    /\ UNCHANGED <<disk, bundle, source, lock, job>>

Supersede(p) ==
    /\ pc[p] = "supersede"
    /\ asset' = [asset EXCEPT ![job[p].asset] = Moved(@, "superseded")]
    /\ Goto(p, "stale")
    /\ UNCHANGED <<disk, bundle, source, lock, job>>

\* mark_sources_stale_for_asset reads the Source, and fails if it is not
\* canonical.
ReadStale(p) ==
    LET c == job[p].asset IN
    /\ pc[p] = "stale"
    /\ Canonical(c)
    /\ IF source[c] = None \/ source[c].status = "stale"
       THEN End(p)
       ELSE /\ Set(p, [job[p] EXCEPT !.read = source[c]])
            /\ Goto(p, "staling")
            /\ UNCHANGED lock
    /\ UNCHANGED <<disk, files>>

\* Mutant of MarkStale: the review starts again with the state.
MarkStaleAnew(p) ==
    /\ pc[p] = "staling"
    /\ source' = [source EXCEPT ![job[p].asset] =
           [job[p].read EXCEPT !.status = "stale", !.approved = FALSE]]
    /\ End(p)
    /\ UNCHANGED <<disk, asset, bundle>>

\* It is written back as it was read, over what an edit made of it meanwhile.
MarkStale(p) ==
    /\ pc[p] = "staling"
    /\ source' = [source EXCEPT ![job[p].asset] =
           [job[p].read EXCEPT !.status = "stale"]]
    /\ End(p)
    /\ UNCHANGED <<disk, asset, bundle>>

\* Mutant of RepairLineage: only for Assets already superseded.
RepairLineageLate(p, c) ==
    /\ Begin(p, c)
    /\ In(c, {"superseded"}) /\ Goto(p, "stale")
    /\ Set(p, [NoJob EXCEPT !.asset = c])
    /\ UNCHANGED <<disk, files>>

\* repair_lineage: from where accept_changed_asset may have been interrupted.
RepairLineage(p, c) ==
    /\ Begin(p, c)
    /\ \/ In(c, {"superseded"}) /\ Goto(p, "stale")
       \/ In(c, {"changed"}) /\ Successors(c) # {} /\ Goto(p, "supersede")
    /\ Set(p, [NoJob EXCEPT !.asset = c])
    /\ UNCHANGED <<disk, files>>

-----------------------------------------------------------------------------

\* A command fails, the owner does not confirm, or it is killed and the lock
\* it leaves is cleared.
Stop(p) ==
    /\ pc[p] # "idle"
    /\ End(p)
    /\ UNCHANGED <<disk, files>>

\* The owner, the synchronisation client: the file changes.
Save ==
    /\ \E s \in Saves : disk = s[1] /\ disk' = s[2]
    /\ UNCHANGED <<files, lock, pc, job>>

\* git checkout: another pending Source, or none at all; an editor: another text
\* under the same front matter.
EditSource(c) ==
    /\ \/ /\ "swap" \in Edits
          /\ Pending(c)
          /\ \E d \in Draft :
                 source' = [source EXCEPT ![c].rev = d, ![c].stored = d]
       \/ /\ "hand" \in Edits
          /\ source[c] # None
          /\ \E d \in Draft : source' = [source EXCEPT ![c].rev = d]
       \/ /\ "remove" \in Edits
          /\ source[c] # None
          /\ source' = [source EXCEPT ![c] = None]
    /\ UNCHANGED <<disk, asset, bundle, lock, pc, job>>

Continue(p) ==
    \/ Capture(p) \/ Seen(p) \/ Prepared(p) \/ Drafted(p) \/ Mark(p)
    \/ Confirm(p) \/ Published(p)
    \/ Succeed(p) \/ Supersede(p) \/ ReadStale(p) \/ MarkStale(p)

Start(p, c) ==
    \/ Inspect(p, c) \/ Prepare(p, c) \/ WriteDraft(p, c) \/ RepairState(p, c)
    \/ Approve(p, c) \/ Accept(p, c) \/ RepairLineage(p, c)

Next ==
    \/ \E p \in Proc : BeginCapture(p) \/ Continue(p) \/ Stop(p)
    \/ \E p \in Proc, c \in Content : Start(p, c)
    \/ Save
    \/ \E c \in Content : EditSource(c)

Spec == Init /\ [][Next]_vars

\* What `mko check` reports of an Asset is repaired by some process again and
\* again until one repair of it is neither stopped nor failing: it gets to its
\* write, and past the reading before it.
Repair(c) == \E p \in Proc : RepairState(p, c) \/ RepairLineage(p, c)
Read(c) == \E p \in Proc : job[p].asset = c /\ ReadStale(p)
Finish(c) ==
    \E p \in Proc : job[p].asset = c /\ (Mark(p) \/ Supersede(p) \/ MarkStale(p))

FairSpec ==
    /\ Spec
    /\ \A p \in Proc : WF_vars(Continue(p))
    /\ \A c \in Content : SF_vars(Repair(c)) /\ SF_vars(Read(c)) /\ SF_vars(Finish(c))

-----------------------------------------------------------------------------
(* Properties *)

\* Every record a command leaves is one the validator of state.rs accepts.
RecordsValid == \A c \in Content : Registered(c) => Valid(asset[c])

\* A Source and its Asset are written one after the other and commands stop in
\* between: they are never further apart than the one step repair-state makes,
\* also behind a checkpoint.
OneStepApart ==
    \A c \in Content :
        /\ Pending(c) /\ In(c, AssetStatus \ {"superseded"}) =>
               Base(asset[c]) \in {"extracted", "review_pending"}
        /\ Approved(c) /\ In(c, AssetStatus \ {"superseded"}) =>
               Base(asset[c]) \in {"review_pending", "processed"}
        /\ source[c] = None /\ Registered(c) =>
               Base(asset[c]) \in {"registered", "extracted"}

\* A Source becomes approved only as the text the owner was shown, under the
\* revision of that text, whatever git and editors do to the file meanwhile.
ApprovedNow ==
    \A c \in Content :
        ~Approved(c) /\ Approved(c)' =>
            \E p \in Proc : /\ pc[p] = "confirm" /\ job[p].asset = c
                            /\ job[p].rev = source'[c].rev
                            /\ job[p].rev = source'[c].stored
ApprovedAsShown == [][ApprovedNow]_vars

\* Nothing takes an approval back or has it name another text, and no command
\* has an approved Source say anything but what it says or what was approved:
\* only an edit by hand does, and it leaves the approval of the text there was.
ApprovalKept ==
    \A c \in Content :
        source[c] # None /\ source[c].approved =>
            /\ source'[c] # None
            /\ source'[c].approved /\ source'[c].stored = source[c].stored
            /\ \/ source'[c].rev \in {source[c].rev, source[c].stored}
               \/ EditSource(c)
ApprovalStands == [][ApprovalKept]_vars

\* An interrupted acceptance is reported until it is repaired: an Asset with a
\* successor is superseded, or still changed, which lineage_repair_needed lists -
\* as long as the original content does not come back.
InterruptionReported ==
    \A c \in Content : Successors(c) # {} => In(c, {"changed", "superseded"})

\* An approval whose command stopped half-way reaches its Asset, unless an
\* inspection finds the file changed or gone, or git takes the Source away, first.
ApprovalsArrive ==
    \A c \in Content :
        Approved(c) /\ In(c, {"review_pending"}) ~>
            \/ In(c, {"processed", "changed", "missing", "superseded"})
            \/ source[c] = None

\* A published successor supersedes the old Asset, and its Source goes stale.
SuccessionsFinish ==
    \A c \in Content :
        Successors(c) # {} ~>
            /\ In(c, {"superseded"})
            /\ source[c] # None => source[c].status = "stale"
=============================================================================

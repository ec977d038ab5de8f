----------------------------- MODULE Projection -----------------------------
(***************************************************************************)
(* mko-core/src/projection_v2.rs and dashboard_v2.rs: the generated views, *)
(* one per record in views/records/ and a few fixed definitions, and       *)
(* .mko/generated-manifest.yaml, which remembers for each path the digest  *)
(* of the bytes last generated there. The digest tells a stale view, which *)
(* may be replaced, from one its owner has edited, which is backed up.     *)
(*                                                                         *)
(* Every writer holds the repository mutation lock (LockFiles); the owner  *)
(* edits views at any moment. The exchange of one file is one step, as     *)
(* AtomicFile says of Publication; one that is cut short may leave the     *)
(* publication lock of the file behind, or the old content in a displaced  *)
(* entry only. A digest is the content it is of.                           *)
(***************************************************************************)
EXTENDS Naturals

CONSTANTS Proc,     \* processes
          Record,   \* records, each with its view
          Fixed,    \* fixed view definitions
          Version,  \* what the program generates
          Mine,     \* what the owner writes
          MaxCuts,  \* bound: exchanges that end in the middle
          Ops,      \* subset of {"publish", "dashboard", "repair", "upgrade", "edit", "create", "stop"}
          None, Claimed

ASSUME ConstantsAssumption ==
    /\ Record \cap Fixed = {}
    /\ Version \cap Mine = {}
    /\ {None, Claimed} \cap (Version \cup Mine) = {} /\ None # Claimed
    /\ None \notin Proc
    /\ MaxCuts \in Nat
    /\ Ops \subseteq {"publish", "dashboard", "repair", "upgrade", "edit", "create", "stop"}

View == Record \cup Fixed
Bytes == Version \cup Mine \cup {None}

\* What is published under a lock of its own: the manifest, a view, and the
\* recovery of a view from one content to another.
Listing == <<>>
Place == {Listing} \cup {<<v>> : v \in View}
             \cup (Record \X (Mine \cup Version) \X Version)

VARIABLES
    want,      \* want[v]: what the canonical records call for now
    file,      \* file[v]: the view as it is
    manifest,  \* manifest[v]: digest, Claimed (an entry without one) or None
    saved,     \* backups: <<view, bytes>>
    ready,     \* complete recoveries: <<view, bytes, replacement>>
    aside,     \* the owner's texts in displaced entries: <<view, bytes>>
    lost,      \* records listed only by a manifest in a displaced entry
    locked,    \* where a dead publisher has left its publication lock
    cuts,      \* exchanges that ended in the middle so far
    holder,    \* who holds the repository mutation lock
    pc, job

recoveries == <<saved, ready>>
displaced == <<aside, lost>>
killed == <<locked, cuts>>
disk == <<file, manifest, recoveries, displaced>>
vars == <<want, disk, killed, holder, pc, job>>

Pc == {"idle", "claim", "look", "create", "replace", "record", "backup", "recover"}
NoJob == [todo |-> {}, view |-> None, seen |-> None, plan |-> [v \in Fixed |-> None]]
Job == [todo : SUBSET View, view : View \cup {None}, seen : Bytes,
        plan : [Fixed -> Bytes]]

TypeOK ==
    /\ want \in [View -> Version \cup {None}]
    /\ file \in [View -> Bytes]
    /\ manifest \in [View -> Version \cup {None, Claimed}]
    /\ saved \in SUBSET (Record \X Mine \cup Record \X Version)
    /\ ready \in SUBSET (Record \X (Mine \cup Version) \X Version)
    /\ aside \in SUBSET (View \X Mine)
    /\ lost \in SUBSET Record
    /\ locked \in SUBSET Place
    /\ cuts \in 0..MaxCuts
    /\ holder \in Proc \cup {None}
    /\ pc \in [Proc -> Pc]
    /\ job \in [Proc -> Job]

Init ==
    /\ \E v \in Version : want = [x \in View |-> IF x \in Fixed THEN v ELSE None]
    /\ file = [v \in View |-> None]
    /\ manifest = [v \in View |-> None]
    /\ saved = {} /\ ready = {}
    /\ aside = {} /\ lost = {} /\ locked = {} /\ cuts = 0
    /\ holder = None
    /\ pc = [p \in Proc |-> "idle"]
    /\ job = [p \in Proc |-> NoJob]

-----------------------------------------------------------------------------

Goto(p, s) == pc' = [pc EXCEPT ![p] = s]
Begin(p) == pc[p] = "idle" /\ holder = None /\ holder' = p
End(p) ==
    /\ Goto(p, "idle")
    /\ holder' = None
    /\ job' = [job EXCEPT ![p] = NoJob]
Then(p, s) == Goto(p, s) /\ UNCHANGED <<holder, job>>
Fails(p) == End(p) /\ UNCHANGED disk

\* What may be replaced without asking: nothing, what is wanted anyway, and
\* what the manifest says was generated.
Safe(v) == file[v] \in {None, want[v], manifest[v]}

\* publish_record_and_projection, publish_review: the canonical write, then
\* the view of that record.
Publish(p, r) ==
    /\ "publish" \in Ops
    /\ Begin(p)
    /\ \E w \in Version : want' = [want EXCEPT ![r] = w]
    /\ job' = [job EXCEPT ![p] = [NoJob EXCEPT !.todo = {r}]]
    /\ Goto(p, "claim")
    /\ UNCHANGED <<disk, killed>>

\* Mutant of Dashboard: only the views the manifest has a digest of.
DashboardRecorded(p) ==
    LET known == {v \in View : v \in Fixed \/ manifest[v] \in Version} IN
    /\ "dashboard" \in Ops
    /\ Begin(p)
    /\ \A v \in Fixed : Safe(v)
    /\ \/ /\ \A v \in known : Safe(v)
          /\ job' = [job EXCEPT ![p] =
                [NoJob EXCEPT !.todo = known, !.plan = [v \in Fixed |-> file[v]]]]
          /\ Goto(p, "claim")
       \/ \E v \in known :
             /\ ~Safe(v)
             /\ job' = [job EXCEPT ![p] = [NoJob EXCEPT !.view = v, !.seen = file[v]]]
             /\ Goto(p, "backup")
    /\ UNCHANGED <<want, disk, killed>>

\* repair_dashboard_v2 looks at everything first: one edited definition and it
\* refuses, one edited view and it prepares the recovery of that view.
Dashboard(p) ==
    LET known == {v \in View : want[v] # None} IN
    /\ "dashboard" \in Ops
    /\ Begin(p)
    /\ \A v \in Fixed : Safe(v)
    /\ \/ /\ \A v \in known : Safe(v)
          /\ job' = [job EXCEPT ![p] =
                [NoJob EXCEPT !.todo = known, !.plan = [v \in Fixed |-> file[v]]]]
          /\ Goto(p, "claim")
       \/ \E v \in known :
             /\ ~Safe(v)
             /\ job' = [job EXCEPT ![p] = [NoJob EXCEPT !.view = v, !.seen = file[v]]]
             /\ Goto(p, "backup")
    /\ UNCHANGED <<want, disk, killed>>

\* Definitions come before records.
Following(p) == LET d == job[p].todo \cap Fixed IN IF d # {} THEN d ELSE job[p].todo

-----------------------------------------------------------------------------
(* What each publication does to the files *)

Unclaimed(v) == v \in Record /\ manifest[v] = None

\* claim_projection_path: the manifest owns the path before there is a file.
ClaimEntry(v) ==
    /\ manifest' = [manifest EXCEPT ![v] = Claimed]
    /\ UNCHANGED <<file, recoveries, displaced>>

NewView(p) ==
    LET v == job[p].view IN
    /\ file[v] \in {None, want[v]}
    /\ file' = [file EXCEPT ![v] = want[v]]
    /\ UNCHANGED <<manifest, recoveries, displaced>>

\* Mutant of SwapView: the view is replaced without looking again.
SwapBlindly(p) ==
    /\ file' = [file EXCEPT ![job[p].view] = want[job[p].view]]
    /\ UNCHANGED <<manifest, recoveries, displaced>>

\* replace_exact
SwapView(p) ==
    LET v == job[p].view IN
    /\ file[v] = job[p].seen
    /\ file' = [file EXCEPT ![v] = want[v]]
    /\ UNCHANGED <<manifest, recoveries, displaced>>

\* Mutant of Digest: the digest of what was read.
DigestSeen(p) == IF job[p].seen = None THEN want[job[p].view] ELSE job[p].seen

\* The digest of what was written.
Digest(p) == want[job[p].view]

\* write_manifest, set_generated_dashboard_digest_locked_v2: after the file.
NoteDigest(p) ==
    /\ manifest' = [manifest EXCEPT ![job[p].view] = Digest(p)]
    /\ UNCHANGED <<file, recoveries, displaced>>

\* prepare_recovery: the backup first,
KeepText(p) ==
    /\ saved' = saved \cup {<<job[p].view, job[p].seen>>}
    /\ UNCHANGED <<file, manifest, ready, displaced>>

\* then what it would be replaced with and the difference.
Recovery(p) == <<job[p].view, job[p].seen, want[job[p].view]>>
KeepRest(p) ==
    /\ ready' = ready \cup {Recovery(p)}
    /\ UNCHANGED <<file, manifest, saved, displaced>>

\* A compare-exchange that was cut short: what the name held is out.
ViewOut(v) ==
    /\ file' = [file EXCEPT ![v] = None]
    /\ aside' = aside \cup ({<<v, file[v]>>} \cap (View \X Mine))
    /\ UNCHANGED <<manifest, recoveries, lost>>

ListingOut ==
    /\ manifest' = [v \in View |-> None]
    /\ lost' = lost \cup {r \in Record : manifest[r] # None}
    /\ UNCHANGED <<file, recoveries, aside>>

-----------------------------------------------------------------------------
(* The steps of a command; a publication lock in the way ends it *)

\* Mutant of Claim: the entry is left to the digest's write.
ClaimLater(p) ==
    /\ pc[p] = "claim"
    /\ \E v \in Following(p) : job' = [job EXCEPT ![p].view = v]
    /\ Goto(p, "look")
    /\ UNCHANGED <<want, disk, killed, holder>>

Claim(p) ==
    /\ pc[p] = "claim"
    /\ \E v \in Following(p) :
          \/ /\ \/ Unclaimed(v) /\ Listing \notin locked /\ ClaimEntry(v)
                \/ ~Unclaimed(v) /\ UNCHANGED disk
             /\ job' = [job EXCEPT ![p].view = v]
             /\ Goto(p, "look")
             /\ UNCHANGED holder
          \/ Unclaimed(v) /\ Listing \in locked /\ Fails(p)
    /\ UNCHANGED <<want, killed>>

\* write_projection_locked decides; a definition was read with the plan.
Look(p) ==
    LET v == job[p].view
        seen == IF v \in Fixed THEN job[p].plan[v] ELSE file[v]
    IN
    /\ pc[p] = "look"
    /\ job' = [job EXCEPT ![p].seen = seen]
    /\ Goto(p, IF seen = None THEN "create"
               ELSE IF seen = want[v] THEN "record"
               ELSE IF seen = manifest[v] THEN "replace" ELSE "backup")
    /\ UNCHANGED <<want, disk, killed, holder>>

Create(p) ==
    LET v == job[p].view IN
    /\ pc[p] = "create"
    /\ \/ <<v>> \notin locked /\ NewView(p) /\ Then(p, "record")
       \/ (<<v>> \in locked \/ file[v] \notin {None, want[v]}) /\ Fails(p)
    /\ UNCHANGED <<want, killed>>

Replace(p) ==
    LET v == job[p].view IN
    /\ pc[p] = "replace"
    /\ \/ <<v>> \notin locked /\ SwapView(p) /\ Then(p, "record")
       \/ (<<v>> \in locked \/ file[v] # job[p].seen) /\ Fails(p)
    /\ UNCHANGED <<want, killed>>

\* A digest that is there already is not written again.
Noted(p) == manifest[job[p].view] = Digest(p)
Note(p) ==
    LET v == job[p].view IN
    /\ pc[p] = "record"
    /\ \/ /\ Noted(p) \/ Listing \notin locked
          /\ NoteDigest(p)
          /\ IF job[p].todo \subseteq {v} THEN End(p)
             ELSE /\ job' = [job EXCEPT ![p].todo = @ \ {v}]
                  /\ Goto(p, "claim")
                  /\ UNCHANGED holder
       \/ ~Noted(p) /\ Listing \in locked /\ Fails(p)
    /\ UNCHANGED <<want, killed>>

Backup(p) ==
    /\ pc[p] = "backup"
    /\ \/ Recovery(p) \notin locked /\ KeepText(p) /\ Then(p, "recover")
       \/ Recovery(p) \in locked /\ Fails(p)
    /\ UNCHANGED <<want, killed>>

\* The command ends with where the recovery is.
Recover(p) ==
    /\ pc[p] = "recover"
    /\ \/ Recovery(p) \notin locked /\ KeepRest(p) /\ End(p)
       \/ Recovery(p) \in locked /\ Fails(p)
    /\ UNCHANGED <<want, killed>>

\* repair_projection_v2, which no command calls yet: the edited view is the one
\* the owner agreed to lose, and its recovery is complete and towards what is
\* wanted now.
Repair(p, r) ==
    /\ "repair" \in Ops
    /\ Begin(p)
    /\ manifest[r] # None
    /\ file[r] # None
    /\ <<r, file[r], want[r]>> \in ready
    /\ job' = [job EXCEPT ![p] =
           [NoJob EXCEPT !.todo = {r}, !.view = r, !.seen = file[r]]]
    /\ Goto(p, "replace")
    /\ UNCHANGED <<want, disk, killed>>

-----------------------------------------------------------------------------

\* An exchange that ends in the middle: its effect is there or not, and the
\* lock beside the file is left when the process is killed.
Halfway(place, Effect) ==
    /\ place \notin locked
    /\ locked' \in {locked, locked \cup {place}}
    /\ cuts < MaxCuts /\ cuts' = cuts + 1
    /\ Effect \/ UNCHANGED disk

CutShort(p) ==
    LET v == job[p].view IN
    \/ /\ pc[p] = "claim"
       /\ \E x \in Following(p) :
             Unclaimed(x) /\ Halfway(Listing, ClaimEntry(x) \/ ListingOut)
    \/ pc[p] = "create" /\ Halfway(<<v>>, NewView(p))
    \/ pc[p] = "replace" /\ Halfway(<<v>>, SwapView(p) \/ ViewOut(v))
    \/ pc[p] = "record" /\ ~Noted(p) /\ Halfway(Listing, NoteDigest(p) \/ ListingOut)
    \/ pc[p] = "backup" /\ Halfway(Recovery(p), KeepText(p))
    \/ pc[p] = "recover" /\ Halfway(Recovery(p), KeepRest(p))

\* A step fails, or the process is killed and its repository lock recovered.
Stop(p) ==
    /\ "stop" \in Ops
    /\ pc[p] # "idle"
    /\ End(p)
    /\ UNCHANGED <<disk, killed>> \/ CutShort(p)
    /\ UNCHANGED want

\* The owner edits or deletes a view, or puts a file of his own where it belongs.
Edit(v) ==
    /\ IF file[v] = None THEN "create" \in Ops ELSE "edit" \in Ops
    /\ \E m \in (Mine \cup {None}) \ {file[v]} : file' = [file EXCEPT ![v] = m]
    /\ UNCHANGED <<want, manifest, recoveries, displaced, killed, holder, pc, job>>

\* "keep or relocate the edit before retrying", "Move the edit to a user-owned
\* note": what the dashboard refuses to replace, once it has said so.
Relocate(v) ==
    /\ ~Safe(v)
    /\ v \in Record => <<v, file[v], want[v]>> \in ready
    /\ file' = [file EXCEPT ![v] = None]
    /\ UNCHANGED <<want, manifest, recoveries, displaced, killed, holder, pc, job>>

\* "inspect and remove it manually": the publication lock of a dead process.
Unlock(place) ==
    /\ place \in locked
    /\ locked' = locked \ {place}
    /\ UNCHANGED <<cuts, want, disk, holder, pc, job>>

\* Another release of mko comes with other definitions.
Upgrade ==
    /\ "upgrade" \in Ops
    /\ holder = None
    /\ \E w \in Version :
          want' = [v \in View |-> IF v \in Fixed THEN w ELSE want[v]]
    /\ UNCHANGED <<disk, killed, holder, pc, job>>

Step(p) ==
    \/ Claim(p) \/ Look(p) \/ Create(p) \/ Replace(p) \/ Note(p)
    \/ Backup(p) \/ Recover(p)

Next ==
    \/ \E p \in Proc : Dashboard(p) \/ Step(p) \/ Stop(p)
    \/ \E p \in Proc, r \in Record : Publish(p, r) \/ Repair(p, r)
    \/ \E v \in View : Edit(v) \/ Relocate(v)
    \/ \E place \in locked : Unlock(place)
    \/ Upgrade

Spec == Init /\ [][Next]_vars

\* Commands run to their end, and the owner runs the dashboard again and again
\* and does what its messages ask: he removes the locks of dead processes and
\* moves his texts out of the way.
FairSpec ==
    /\ Spec
    /\ \A p \in Proc : WF_vars(Step(p))
    /\ SF_vars(\E p \in Proc : Dashboard(p))
    /\ \A v \in View : WF_vars(Relocate(v))
    /\ WF_vars(\E place \in locked : Unlock(place))

-----------------------------------------------------------------------------
(* Properties *)

\* What the owner wrote into a view is replaced by the program only when a
\* backup of exactly that text is there, however edits fall between the steps;
\* cut short, a replacement may leave it in a displaced entry.
OwnersTextSafe ==
    [][\A v \in View :
          file[v] \in Mine /\ file'[v] # file[v] /\ pc' # pc =>
              <<v, file[v]>> \in saved \cup aside']_vars

\* A view the program wrote for a record is owned by the manifest from before
\* it exists, wherever a command stops; or by a manifest that an exchange cut
\* short has left in a displaced entry.
OwnedBeforeWritten ==
    \A r \in Record : file[r] \in Version => manifest[r] # None \/ r \in lost

\* Between commands, every view as the program wrote it is known as such: it is
\* current, or stale and replaced without asking.
StaleIsKnown ==
    holder = None =>
        \A v \in View : file[v] \in Version => file[v] \in {want[v], manifest[v]}

\* From some time on nothing is published or edited but for what the owner
\* moves out of the way, and no command stops early.
Quiet ==
    /\ <>[][want' = want]_vars
    /\ <>[][file' # file => pc' # pc \/ \E v \in View : Relocate(v)]_vars
    /\ <>[][\A p \in Proc : Stop(p) => Step(p)]_vars

\* Then every definition and every view of a record comes up to date, whatever
\* edits, other releases, killed commands and their locks left behind.
ViewsCatchUp ==
    Quiet => <>[](\A v \in View : want[v] # None => file[v] = want[v])
=============================================================================

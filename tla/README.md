# Verification of My Knowledge OS

TLA+ models of the Rust core in `src/rust/mko-core` and of the protocols of its
command line in `src/rust/mko-cli`, their TLC runs and the theorems about them
that TLAPS checks. Paths below are relative to `src/rust/mko-core/src/`.

My Knowledge OS is a command line program (`mko`) over a Git repository of
Markdown records. There is no server that writes and no database: every command
is a process of its own, any number of them may run at once on the same
directory, any of them may be killed, and the owner, an editor, a
synchronisation client or `git merge` may change the same files. What keeps this
correct is small and sharp: lock files, atomic publication of single files,
content-addressed records, decisions that are revalidated under a lock, and
repairs for what an interrupted command leaves half done. That is what the
models are about.

## The system

| Part | State | Operations | Talks to | Hard because of |
|---|---|---|---|---|
| `lock.rs` | `.mko/runtime/locks/`: per lock a file, a `.takeover` guard, quarantines | acquire, Drop, `clear_stale_repository_lock`, `--clear-stale-lock` | every writer | three kinds of names changed one by one, by any process, at any moment; kills; deadlines |
| `atomic.rs` | a destination, its publication lock and quarantine, displaced entries | `write_new`, `write_replace`, `write_replace_checked`, compare-exchange | every writer | programs that take no lock change the destination |
| `records_v2.rs`, `revision_v2.rs`, `review_v2.rs` | `sources/`, `knowledge/` revisions and `current.yaml`, `reviews/` | drafts, cards, decisions, feedback, resolutions | projection, lock, atomic; git merges | decisions taken on what was displayed earlier; merges of independent decisions |
| `records_v2.rs`, `config_v2.rs`, `perspective_v2.rs`: grounding | what a draft cites, the policy it is under | validate, file, choose perspectives | prepared text | boundaries of spans and ranges; a policy that changes after the fact |
| `state.rs`, `registry.rs`, `source.rs`, `approve.rs`, `prepare.rs`, `canonical_source.rs`, `check.rs` | Asset registry, Source documents, files in the provider folder | capture, inspect, prepare, draft, approve, accept a change, repairs, check | lock (one per Asset), atomic | two documents that must agree, written one after the other; files that change meanwhile |
| `projection_v2.rs`, `dashboard_v2.rs` | `views/`, `.mko/generated-manifest.yaml`, `recovery/` | refresh, repair, dashboard | records, reviews; the owner's editor | generated bytes and the owner's bytes in the same files |
| `asset_v2.rs`, `snapshot_v2.rs`, `extraction_v2.rs`, `local_file_v2.rs`, `prepared_v2.rs` | registry records, content-addressed stores, sessions of 24 hours | register, prepare, resolve, clean up, draft from | lock, atomic | texts named before and after they are stored; kills between; expiry |
| `review_session_v2.rs` | sessions: open, consumed | open, apply | reviews | single use across kills; a bound |
| `queue_v2.rs` | none | derive from records, reviews and views | everything, without a lock | a scan that spans many writes |
| `resurface_history_v2.rs` and the ranking in `queue_v2.rs` | what was opened, bounded | rank, open, record | records | a bounded memory; revisions that come back |
| logs (`quick_note_v2.rs`, `judgment_v2.rs`, `recall_log_v2.rs`, `attempt_v2.rs`, `question_v2.rs`) | one file per entry, one file of lines | append, read back | lock, atomic | entries published again; torn lines |
| `add.rs`, `provider_scan.rs`, `inbox.rs`, `catalog.rs`, `status.rs`, `home.rs` | the provider folder, a temporary directory | import, scan, report, batch | Assets | a folder that changes under the scan |
| `knowledge.rs` (first version) | notes and their revisions | write, list, approve | Assets, atomic | no lock; the owner edits between card and approval |
| `setup*.rs`, `scaffold_v2.rs`, `profile.rs` | plans, scaffold, Inbox, profile | setup, plan, apply | everything on the machine | a plan approved about a world that moves on; partial failure |
| `migrate_v2.rs` | the contract in the config, the retired view | migrate | git, projection | finishing what another migration began |
| `context.rs`, `doctor.rs`, `config*.rs` | none | resolve, examine | everything | two codes that answer one question |
| parsing, paths, argument parsing, `ui.rs`, Windows access control | none over time | | | |

What makes each part correct:

- **Locks**: one holder; the holder's file stays in place; recovery never takes
  anything from a live process; what a dead one left can be recovered.
- **Publication**: no content that somebody relies on is lost, whatever races
  with it; a call takes effect in one step or not at all; what is replaced is
  what the owner approved to replace.
- **Reviews**: a decision applies to exactly what was shown; one head per
  revision, or an explicit conflict; nothing merges into a silently preferred
  decision; the pointer always names a revision that exists; a view tells the
  truth, and so does the queue that is derived from all of them.
- **Grounding**: what is shown as the document's cites what is in it.
- **Assets**: an approved Source is what the owner was shown and stays as it
  was; a Source and its Asset are at most one repairable step apart; check
  advises exactly the repairs that apply.
- **Views**: the owner's text is never replaced without a backup; the program's
  own stale views are recognised; views catch up.
- **Material**: no session and no draft names a text that is not stored.
- **Capabilities**: a session decides once, a plan changes what it was approved
  for.
- **Reports**: health and completeness are claimed only when they are so.

## Modules

| Module | Models | Checked in |
|---|---|---|
| `ExclusiveLock` | what a lock promises: held by one, free, or stranded by a crash | refined by `LockFiles` |
| `LockFiles` | `lock.rs`, file by file | `MCLockFiles`, `MCRecovery`, `LockFilesProofs` |
| `AtomicFile` | what a publication promises: a file that each call changes in one step, or refuses to | refined by `Publication` |
| `Publication` | `atomic.rs`, file by file | `MCPublication`, `PublicationProofs` |
| `ReviewGraph` | records, drafts, reviews, resolutions and views in clones that git merges | `MCReviewGraph`, `Reviews`, `ReviewGraphProofs` |
| `Queue` | the scan of a clone of `ReviewGraph` and its verdicts | `Reviews`, `ReviewGraphProofs` |
| `Reviews` | one clone, clones that git merges, a clone whose queue is scanned, side by side | `MCReviews`, `ReviewsProofs` |
| `AssetStates` | the transition table, the moves and the validator of `state.rs` as operators | `AssetLifecycle` |
| `AssetLifecycle` | all commands of the Asset workflow | `MCAssetLifecycle`, `Folder`, `AssetLifecycleProofs` |
| `Check` | what `mko check` says of a state of `AssetLifecycle` | `Folder`, `AssetLifecycleProofs` |
| `Projection` | generated views, their manifest, recoveries and the dashboard | `MCProjection`, `MCRecovery`, `ProjectionProofs` |
| `Ingestion` | registration, stores, prepared sessions, drafts | `Folder`, `FolderProofs` |
| `Folder` | `AssetLifecycle` with `Check`, and `Ingestion`, side by side | `MCFolder`, `FolderProofs` |
| `Grounding` | citations, policies, layers | `Commands`, `CommandProofs` |
| `ReviewSessions` | sessions of a review | `Commands`, `CommandProofs` |
| `Resurfacing` | `mko find --again`: ranking, history, perspectives | `Commands`, `CommandProofs` |
| `Logs` | what is only added to | `Commands`, `CommandProofs` |
| `Imports` | `mko add <file>` of the first version | `Commands`, `CommandProofs` |
| `Inbox` | scans of the folder, status, home, batches of both versions | `Commands`, `BatchesStuck.cfg`, `CommandProofs` |
| `Doctor` | resolution, doctor and setup's checks on one machine | `Commands`, `CommandProofs` |
| `KnowledgeNotes` | notes of the first version | `Commands`, `CommandProofs` |
| `Setup` | setup at once, from a plan, and of the first version | `Commands`, `CommandProofs` |
| `Migration` | `mko migrate` | `Commands`, `CommandProofs` |
| `Commands` | the ten models from `Grounding` to `Migration`, side by side | `MCCommands`, `CommandProofs` |

A module on top takes what a module below establishes as one step: the
repository lock is a mutex wherever it is not the subject (`LockFiles` shows
that it is one, including what a crash does: `Stop`/`Crash` followed by the
recovery of the lock), and the exchange of one file is one step (`Publication`
implements `AtomicFile`), except where its intermediate files matter to the
module above:
`ReviewGraph` has the lock file that `write_new` creates in `reviews/`, and
`KnowledgeNotes` and `Migration` have the moment at which a compare-exchange has
moved the old file aside.

`Commands`, `Folder`, `Reviews` and `MCRecovery` put several models beside each
other. A variable (`focus`, `kind`) says at the start which model a behaviour is
of; nothing else of the others moves. The result is a union of their state
spaces and not a product: the models share neither state nor steps, since the
code they model meets only through the layers below. The first three are
modules of their own with all constants open, so that the properties their runs
check are theorems for every value of them; `MCCommands`, `MCFolder` and
`MCReviews` only choose values. Where a composition extends a component (`Folder`
extends `Check`, `Reviews` extends `Queue`), the component's variables are its
own and it states the component's properties by their names; what else it
holds has variables of other names.

### LockFiles

One lock (repository or Asset) and its guard: `pub` is the file under each
public name, `quar` the quarantines, `blank` the files whose record was never
written. A file is the token of the process that created it. Each process walks
through `acquire` (scan of quarantines, creation, rescan, on a stale lock the
guard and the removal), the guarded section, and `Drop` (rename to quarantine,
compare, unlink or link back). `clear` says that a call was allowed to recover.
`Faults` switches on missed deadlines ("slow"), failing writes ("io") and
records too young to be stale ("young"); `MayCrash` and `MayClear` name the
processes that die and that may recover; `Overlap` lets recoveries overlap;
`Inspects` makes recovery look first at the main lock, as the repository's does
(the Asset's does not). Atomic: the reading of one directory, the removal of one
quarantine. Left out: reuse of a process id (with it a stale file only looks
alive), and the second look at staleness in `remove_stale_entry` that only such
a reuse could make differ.

### Publication

One destination `dest`, its lock (`lock`), the quarantined lock (`lockq`), the
displaced entry of a process (`disp`) and displaced entries kept for good
(`kept`). Contents are the process that wrote them or an edit of another
program. `owed` records the contents that nobody has read and then replaced:
the promise (`NothingLost`) is that each is still in a file. What another
program wrote is not owed any more once a rename ran over it, which the
compare-exchange never does. Left out: temporary files, and quarantines with
names nobody's release produces.

`AtomicFile` is the file as its callers mean it: `file` with one whole content,
`out` with what a compare-exchange has taken out and not yet settled, `beside`
with what was set aside for the owner to find, and the `answer` of each call. A
call is asked (`Ask`), has its effect (`Publish`) or is refused for a reason
that is true at that instant (`Refuse`), and ends (`End`); a compare-exchange
takes out (`TakeOut`), settles (`Settle`) or gives back (`Return`). It may also
say that the file changed when it could not read what it had taken out
(`atomic.rs:344` treats a difference and an error alike): of a refusal whose
content is out, "changed" says no more than that it was not recognised. Other
programs write and remove the file (`Put`, `Remove`). `ImplementsAtomicFile` maps
`file` to what the name holds or, when it holds nothing, what is displaced;
`out` to the displaced entries in use; `beside` to `kept`; and `answer` to what a
caller would be told if its call ended now. `Fits` says what a replaced file may
have been: by a compare-exchange, exactly what its caller expected; by a
creation or a checked replacement, also what another program put there after
the last look, which is the finding `publish_new_race`.

### ReviewGraph and Queue

Per clone: `current`, revisions, reviews, views, the litter a killed publisher
leaves in `reviews/`, resolutions and the holder of the repository lock. Events
are immutable and content-addressed, so their contents (`event`) are global and
a clone has a set of them. A process shows a card without the lock, decides at
its leisure (`card`), takes the lock and revalidates (`EnterReview`), publishes
in two steps (`LockFile`, `Rename`) and refreshes the view (`View`); drafts
write the revision, the pointer and the view; resolutions likewise. `Merge` is
`git merge` of two clones (union of events; pointer and view from either side),
`EditView` the owner's editor, `Crash`/`Recover` a kill and
`recover --clear-stale-lock`.

`Queue` adds a reader without a lock: the records of `sources/`, then those of
`knowledge/`, then the reviews, then the views of each collection. A command
that lists, counts, searches or shows a card draws its conclusion from what this
one scan `seen`; `quiet` remembers whether anybody wrote meanwhile.

### AssetStates, AssetLifecycle and Check

`AssetStates` translates `transition_allowed`, `transition_asset` and
`validate_asset_state` as operators. `AssetLifecycle` has Assets named by the
content they were captured with, one file at one locator, the Source drafts of
each Asset and the command of each process with what it has read so far. Each
write of a document is a step, so that `Stop` (an error, or a kill followed by
the recovery of the Asset's lock) falls between any two; `ReadStale` and
`MarkStale` read and write a Source at different moments, since what is written
back is what was read. A Source has what it says (`rev`, the revision calculated
from its text) and the revision it names (`stored`): git brings both, an editor
changes the first alone ("hand" in `Edits`), and every command that validates a
Source refuses it until the two agree (`Canonical`). `Check` has no steps: it is
what `mko check` says of a state, and `ReportsRepairable` compares it with the
guard of `mko source repair-state`, which is written from another file. Of a
Source edited by hand both must say no: check reports its revision, the repair
refuses.

### Projection

`want` is what the canonical records call for, `file` what is in `views/`,
`manifest` the digest recorded for each path, `saved` and `ready` the backups
and the complete recoveries. A digest is the content it is of. A command claims
a path, looks at the view, creates or replaces it, and notes its digest; an
edited view is backed up and the command ends. The dashboard first looks at
everything.

Each of these writes is a publication of one file, which takes a lock beside
that file. A process killed in one leaves this lock (`locked`), the effect there
or not, or the old content in a displaced entry only (`aside` for the owner's
texts, `lost` for what a manifest listed): `Halfway` and `CutShort`. Every later
publication of that file fails until the owner has removed the lock (`Unlock`,
"inspect and remove it manually"). What he does about a text of his in the way
is `Relocate` ("keep or relocate the edit before retrying"), once the dashboard
refused it. `repair_projection_v2` is an operation of the core that no command of
this release calls: `Repair` is there for the safety properties, and no fairness
is assumed of it.

### Ingestion

A PDF stays in the folder and may change; text and local files are copied into
stores named by their content. Registration, extraction, the session and the
draft are written one after the other, under a repository lock that is taken
anew, with a kill possible after each. `clock` is time, sessions live `Ttl` and
a cleanup looks at a bounded number of entries and removes a bounded number.
`MayDamage` names files that something else overwrites; `Damaged` and `Orphaned`
are what check would report.

### Grounding

A prepared text is a function from block names to blocks; a citation names a
block, and narrows it to bytes or to cells. `WriteKnowledge` and `WriteSource`
file what `validate_evidence_refs` and the rules of kinds and bases accept,
`Confirm` applies the perspectives the owner chose to the same response, under
the policy they imply, `EditDefault` is the owner's edit of the config. `Names`
says independently of the validator what a citation names.

### ReviewSessions, Resurfacing, Logs

`ReviewSessions` has the files of sessions, their expiry and bound, and a
decision that is published before the session is consumed. `Resurfacing` ranks
notes by what was opened at the revision they have now; a revision that comes
back brings its openings and decisions with it; a kill may fall between opening
and recording; choosing perspectives publishes a new revision of what was shown.
In `Logs` a line of the recall log is two pieces of text that a kill separates,
and the next line then continues the torn one; notes, judgments, attempts and
questions are files named by their text or event.

### Imports, Inbox, Doctor

`Imports` copies a file into the folder: a temporary, a free name (its own, or
one with its hash), a link, and the capture of what is there, under a lock the
operating system drops. A capture opens what is at the name and compares it
(`ReadSelected`), and records the Asset later (`Capture`); in between the name may
change or vanish. `Inbox` lists, opens and reads the folder entry by entry; `scan`
is what was seen, `batch` what a batch did with it. The repository is read after
the folder: `Listings` is which current Assets were known, whose Sources were not
read and which are locked, `Outcomes` whether a limit was reached and which errors
the readers collected. An error is "counted" when home counts it as blocked (a
record that is parsed and not canonical, `inbox.rs:266`), "uncounted" otherwise (a
document that cannot be parsed, a name that disagrees with its record, a Source
without an Asset, two Sources of one). `LocksUnseen` is a scan of locks that came
to no end. `Doctor` has no
steps besides choosing a machine and examining it: the machine (knowledge bases,
Inboxes, profiles, the variable, the directory) is the input of three codes that
must agree. `Machines` is any set of them; the profiles are in the order of their
names.

### KnowledgeNotes, Setup, Migration

`KnowledgeNotes`: a card shows a note, an approval moves the file aside,
compares, links the approved text, or restores. `Setup`: each file it creates is
a step, and the profile is compared (`CompareProfile`) before it is replaced
(`ReplaceProfile`); a plan holds what the world looked like (`Observed`) and is applied when
it looks the same; the setup of the first version takes part with its own
locks. `Migration`: the look at git without a lock; the stamp as a
compare-exchange; the retirement of the old view, file and manifest entry; the
repair of the dashboard; `head` is what is committed, and the owner edits,
commits and checks out.

## Runs

Passing runs. "v" in the next table marks runs that are expected to find a
violation.

| Run | Question | Properties |
|---|---|---|
| `lock_faults` | two processes that may both recover, one recovery at a time, every fault and kill: is there one holder, does its file stay, do the files implement `ExclusiveLock`? | `TypeOK` `MutualExclusion` `WorkProtected` `LiveFilesStay` `ImplementsExclusiveLock` |
| `files` | two publishers with all four operations on one file, against a program that writes and removes it at any moment, with kills and every fault: is content lost, and is a publication one step to who looks at the file? | `TypeOK` `NothingLost` `ImplementsAtomicFile` |
| `reviews` | one clone with two processes, drafts, decisions, sessions, resolutions, edited views, failing view writes and kills; two clones merged at any moment; one writer whose queue is scanned meanwhile | `TypesOK` `OneHead` `StillAsShown` `ReferencesResolve` `DraftsBuildOn` `ViewsTellTruth` `ClonesAndQueue` |
| `recovery` | views after edits, deletions, a release and kills anywhere, in the middle of a publication too; Asset locks of a dead process: is the owner's text backed up before it is replaced, and does everything come right in the end? | `TypeOK` `OwnedBeforeWritten` `OwnersTextSafe` `ViewsRestored` `LocksRecovered` |
| `asset_live` | repairs are repeated until one is not interrupted, while git may take Sources away: do approvals and successions arrive? | `InterruptionReported` `ApprovalsArrive` `SuccessionsFinish` |
| `folder` | every Asset command while the file changes, vanishes and returns git swaps pending texts and an editor changes Sources by hand: are the records valid, the reports repairable, the approvals as shown? Material is registered, prepared and drafted from while processes are killed and sessions expire: is every text a draft names stored? | `TypesOK` `RecordsValid` `OneStepApart` `ReportsRepairable` `EvidenceResolves` `ApprovalStands` `ApprovedAsShown` |
| `commands` | sessions are decided twice and out of order; migrations fail anywhere; notes and profiles are edited between card and approval; imports into, scans of and batches from a folder that changes; logs are torn; notes are shown again; doctor on every small machine; answers cite each boundary | `TypesOK` `WrittenStays` `LongestUnseenFirst` `ReportsAreTrue` `GroundedInText` `DecidesOnce` `MigrationCompletes` `ReplacedAsApproved` `AddedAsRead` `OnlyPerspectives` |

| Run (v) | Shows |
|---|---|
| `lock_asset_overlap` | two Asset recoveries that overlap end with two holders |
| `publish_new_race` | `write_new` renames over a file that appeared after its look |
| `review_crash_live` | a publisher killed in `reviews/` makes the reviews unreadable for good |
| `projection_stopped` | a killed refresh leaves a view of the program's own that is later taken for the owner's |
| `batches_stuck` | a batch that is full of known or unreadable files is never followed by another |

What some of the properties mean, beyond their names:

- `NothingLost` is about content: each text that somebody may rely on is in some
  file, at its name or in a displaced entry, at every moment.
- `OneHead` is of the processes of one clone. `ClonesAndQueue` says of clones
  that merge that a revision is in conflict or its decisions form one chain,
  each taken in knowledge of the one before (`DecisionsChained`), and that
  references resolve there as well; and of a scan that a record found confirmed
  is so at the moment its view is looked at, unless a command is just then
  between its record and its view (`FreshVerdict`), and that one nobody disturbs
  sends the owner to diagnose only a conflict, counts exactly what waits, and
  offers what can be decided (`QuietVerdict`).
- `OneStepApart` and `ReportsRepairable` together say that an interruption is
  visible, that the advice applies, and that it is enough.
- `EvidenceResolves`: each text a live session or a draft names can be found,
  whoever was killed; and it can be read, unless check reports damage or a
  snapshot is damaged, where check does not look.
- `LongestUnseenFirst` holds as long as no more revisions were opened than the
  history remembers; beyond it the code forgets, which is its design.
- `WrittenStays` counts the searches a torn line may cost: one for each process
  killed while it appended.
- `ReplacedAsApproved` and `AddedAsRead` say what a program that shares no lock
  with the owner's editor can say. What a plan approved is compared under the
  profile's lock and no command changes the profile from there to the rename; an
  Asset is recorded at a name that had its content when it was opened there.
- `ReportsAreTrue` has status and home recommend the same, and names the cases in
  which status says more: something was not looked at or is not shown, a document
  could not be read that home does not count, two Assets claim a file that is
  gone. Never does home see trouble where status sees none.
- `MigrationCompletes`: a tree refused as dirty before the stamp is so by the
  owner's own changes, and a success leaves nothing of the old vocabulary,
  whoever began.

## Bounds

Two processes suffice for most shapes that matter: a holder and a remover that
acts on what it saw; `lock_asset_overlap` has the third one that arrives
between. A process in `LockFiles` has three nonces, one for each file it may own
at once and one for the file it re-creates (two in `recovery`, where only one
process recovers). The calls of `files` are not retried (`MaxTries = 0`): a retry
is the acquisition from its start, which the next call does as well; the proofs
are for every number of retries. `Files.cfg` has a view that forgets what a call
was about once it will not look at the destination again: its next call sets
that anew.

`MCReviews` bounds histories with `ShortHistory`: events, resolutions and
(twice) revision files sum to at most 6, or 5 with two clones. Within it TLC
explores up to three reviews of one revision, which make every conflict and
supersession shape the code distinguishes, as well as fewer reviews of more
revisions. In `Projection` every command holds the repository lock from its
first step to its last, so one process has the same behaviours as several; the
concurrency is the owner's editor. There is one publication cut short in a
behaviour of `recovery` (`MaxCuts`), anywhere, and what is generated goes from one
version to a next one and no further (`Forward`): what the code compares is
whether a view is of the wanted version, of the recorded one, or neither. Two
contents, two drafts and two records give
every relation (same, other, earlier) that the code's guards distinguish.

In `folder`: Sources edited by hand as well as swapped by git (`asset_live` has
git take Sources away instead, and no editor); one PDF, one text and one image with a session that expires while
others are prepared, and a cleanup whose bounds of removals and of looking are
both reached. In `commands`: three sessions where two may be open; two texts of
a note; two plans where one may be open; two migrations; an import of two
contents; two files where a batch takes one, with every set of documents that
cannot be read; a log of six pieces with three
searches and one kill; two notes, two openings remembered, four calls; every
machine with two knowledge bases, two Inboxes and at most one thing wrong around
them; and for grounding two texts for one image, with a table whose rows differ
in length and a text with a character of two bytes, and every citation within
one of each boundary.

Symmetry is used only in runs without liveness, over sets whose members the
model never orders; two clones are exchanged with their processes. Deadlock is
not checked where everybody may be dead or blocked for good (the locks,
publication), where a bound ends a behaviour or every process may be dead
(`commands`, `folder`), in `recovery` and `batches_stuck`, where nothing
may be left to recover or to add, and in `asset_live`, where the file may vanish
before it was ever captured.

## Fairness

Liveness is stated for commands that are not suspended for ever (`WF` on the
steps of a process that runs) and for an owner who repeats what a message asks
for: recovery (`LockFiles`), repairs of each Asset (`AssetLifecycle`), the dashboard
(`Projection`). `FairSpec` of `AssetLifecycle` has strong fairness on the start, the
reading and the write of a repair: one of the attempts is not stopped.
Repetition is strong fairness because another command may hold the lock each
time the owner tries. The program has no scheduler of its own, so nothing
stronger is assumed.

`ViewsRestored` assumes that edits, releases and stopped commands cease, that the
repository lock of a dead process is recovered, and that the owner does what the
messages of the dashboard ask for: he removes the publication locks of dead
processes (`Unlock`) and moves his own texts out of the way (`Relocate`). No command
repairs a view for him, so nothing is assumed of `Repair`.

`LocksRecovered` excepts a record that could not be written, which needs a look by
hand, and is stated for Asset locks. `BatchesAdvance` is an action property and
needs no fairness.

## Proofs

Liveness, `ENABLED` and what recursive definitions compute by induction over
data are left to TLC; no module that is proved about declares a RECURSIVE
operator.

Where a run checks a composition, the theorems about its models come first and
the property of the composition follows from them: in a behaviour with one
`focus` each step is one of that model, or leaves its variables as they are.

`LockFilesProofs` (for all processes, nonces, crashes and faults; assumption
`~Overlap`, since TLC refutes exclusion without it): `TypeCorrect`, `Exclusive`,
`WorkIsProtected`, `RecoverySparesTheLiving`, `FilesAreALock`. `MutualExclusion` is
not inductive: that a lock has one holder follows from each holder's file being
the one under the public name, and that from what a remover knows about the file
it is about to take. The invariant `Inv` says that tokens are unique and belong to
their processes (`OwnTokens`), which file each process in each phase owns
(`Published`), that there is one recovery at a time (`Serial`), and what a
remover has captured (`Capture`).

`FilesAreALock` is the refinement of `ExclusiveLock`, step by step: a lock is held
by who passed `Recheck`, stranded while a file of it, in place or in quarantine,
is no live process's own, and free otherwise. The proof therefore follows the
files (`Care`): a call that ended owns none (`Resting`), only a recovery takes
what it did not create (`Clearing`), and the quarantine a live process would use
holds that process's file or nothing (`Named`). Only `Recheck` makes a holder, and
nothing is stranded where it passes; where nobody may recover, what is stranded
stays so.

`PublicationProofs` (for all processes, edits, crashes, retries and faults; no
assumption beyond those on the constants): `PublicationTypes`,
`PublisherExclusive`, `ContentsSurvive`, `PublicationIsOneStep`. The invariant adds
to exclusion that a lock file names its owner (`LockIsOwn`), what a displaced
entry holds (`Displaced`), that a spent entry is owed to nobody (`Spent`), and
that since the last look only other programs changed the destination
(`Unchanged`).

`PublicationIsOneStep` is the refinement of `AtomicFile`, a lemma per kind of step of
`Publication`. Most steps map to a stutter: the lock, the quarantine and the
retries are invisible. What makes it work is that at most one process has the
content out (`Nobody`), and that while the name is vacant only another program
puts something there, which the exchange did not expect (`Away`); `HeldIs` and
`OutIs` then say what the mapped variables are in each state without
the CHOOSE of the mapping, and each visible step is an action of `AtomicFile` by
what `Unchanged`, `Spent` and `Displaced` say of it.

`ReviewGraphProofs` (for all clones, processes, records, revisions and ids). The
invariant `Inv` says who holds the repository lock, what a process has in hand
(`InHand`) and that an id is used once (`IdsOnce`); on top of it:

- for every act, merges included: `TypeCorrect`; `ReferencesAlwaysResolve`
  (`Sound`: what a process is about to publish names what is there, and a merge
  brings both ends of an edge); `DecisionsFormChains`. The last needs that no set
  of events goes round in a circle (`Unrounded`): an event supersedes one that was
  published before, and of a set of events the new one is superseded by none.
  This takes the place of an induction along the chain.
- without merges (`"merge" \notin Acts`): `DecisionsNeverBothCount`, `CardStays`,
  `DraftsBuildOnWhatWasRead`, `ViewsNeverLie`. After `git merge` two heads are a
  conflict that the owner resolves, and a pointer may be the other clone's, so
  there is nothing to prove of these. The invariant (`Still`, `Reads`) says that
  from the check under the lock to the refresh of the view, head and pointer are
  those on the card and then those of the decision.
- of a scan of the queue, whatever writers do between its steps:
  `ConfirmedIsFresh` (`FreshVerdict`) and, of scans nobody disturbs,
  `QuietScansAreRight` (`QuietVerdict`). Both assume that writers write the views
  they owe (`Attended`: no view write fails, nobody is killed, git merges
  nothing); otherwise a view stays behind which may show a state that comes back,
  until the next scan reports it. The second also assumes that the owner edits no
  view, since an edited view is diagnosed. The invariant says that every view
  shows its record or is owed by a process that holds the lock (`AllViewed`),
  that what was decided on is filed (`Filed`), what the scan makes of a record
  before its view (`Follows`), and that a quiet scan has what is canonical
  (`Faithful`).

`ReviewsProofs` carries these to what the run `reviews` checks. `OneCloneGoesOn`
is that the composition implements `ReviewGraph` (`KindSpec => Spec`), so that
what is proved of one clone holds of it. The clones that git merge and the
scanned one are instances of `ReviewGraph` and `Queue` with variables of their
own; the theorems about them are those of `ReviewGraphProofs`, instantiated (`T`,
`S`), and it is proved operator by operator that the two instances say the same.
`ReviewTypes` and `ClonesAndQueueHold` follow, the latter for scanned clones whose
writers write the views they owe and that nobody merges into or edits, as above.

`AssetLifecycleProofs` (for all processes, contents and drafts, however the file
changes). `Inv` has the shape of records, who holds which Asset's lock, and that
what a command found at its start still is so (`AsFound`).

- `TypeCorrect`, `RecordsAreValid`, `ApprovalIsOfTheShown`: no further hypothesis.
- `NeverFurtherApart`, `ApprovalIsKept`, `ReportsAreRepairable`: as long as git
  removes no Source document (`"remove" \notin Edits`; swapping a pending text and
  editing any Source by hand are allowed). A hand edit leaves `stored` alone, so
  an approval still names the text that was approved; `ReportsAreRepairable` says
  of a Source edited by hand that check reports it and repair-state refuses. A removed Source is one of the known limits below, where there is
  nothing that repairs the Asset. The invariant `Agree` relates each Asset to its
  Source, and each mark to be made to the write that called for it.
- `AcceptanceIsReported`: for contents that can be ordered by when the file has
  them (`Orders(B)`: nothing comes back), with git removing what it likes. When
  the original content comes back an interrupted acceptance is no longer
  reported, which is a known limit as well. `Trace` says that a registered
  content was in the file, and that one with a successor no longer is.

`ProjectionProofs` (for all records, definitions, versions and texts):
`ProjectionTypes`, `ViewsAreOwned`, `OwnersTextKept`. That a replaced text was
backed up is not inductive: the invariant adds that one command runs at a time
(`Serial`), which views a command may be at (`JobSound`), that a definition it
has still to write was safe when it was read (`PlanSafe`), and that recoveries
and replacements of the owner's text have their backup (`Backed`). An exchange cut
short is the one exception, and a definite one: the text is then in a displaced
entry (`aside`), the views a manifest listed are in `lost`.

`FolderProofs` (for all contents, processes, bounds, kills and damage;
`IngestionAssumption`): `IngestionTypes`, `EvidenceAlwaysResolves`, and of the
composition `FolderTypes` and `FolderEvidence`. Stores only grow, so it is enough to
say from which step on each call may rely on the text it is about (`Findable`).
That an original has its Asset follows from the order of its two writes
(`FromFiles`), and that an Asset of text is in the store of texts from who
registers one (`Texts`). The module extends `AssetLifecycleProofs`, whose
invariant says of the other model what it says alone.

`CommandProofs` (for all processes, sessions, texts, plans, contents, files and
kills; the assumption of each module) has the ten models of `Commands`, each with
its own invariant:

- `SessionsDecideOnce`: a session that decided and is not consumed shows a head
  that the decision itself moved on (`Spent`), so it cannot decide again.
- `MigrationsComplete`: before the stamp the manifest is the committed one, and
  what was retired only git brings back, never while a migration runs
  (`Rollback`, `Migrator`).
- `NotesReviewedAsShown`: what an approval publishes is the text of its card, from
  the card to the link (`Publishes`).
- `ProfileReplacedAsApproved`: an edit after the plan was shown is of something no
  plan says (`Fresh`), so a plan that passes its recheck is compared with the
  profile that was approved (`Installer`); the lock keeps other commands from it
  until it is replaced.
- `ImportsAddAsRead`: one import is at work in the folder, and its copy is whole
  before it is linked (`Importer`). A capture in hand is of a name that was compared
  when it was opened, and its record names that.
- `ReportsOfTheFolderAreTrue`: what a scan saw of a folder that changes under it
  (`ScanSound`), what any catalog made of it consists of, whatever documents could
  not be read (`CatalogParts`), and that a batch that dropped nothing accounts for every file of
  its scan (`BatchSound`, `Accounted`). Home counts the whole catalog and what is counted of its errors, and status
  the most urgent of what it shows; they agree because a catalog is finite
  (`CatalogFinite`), so that its first items exist (`LeastOf`, from the
  well-foundedness of finite subsets) and an item is left out only when the bound
  is reached. The attempt corrected the property: with three files or more, of
  which two Assets claim one that is gone and are both found elsewhere by their
  content, status says repair and home counts nothing (Known limits). The run has
  two files.
- `WrittenStaysWritten`: the pieces of a line follow each other (`Lines`), and lines
  that are torn and nobody's work number no more than the processes killed while
  they appended (`Torn`, `Abandoned`). What is
  read back is an end of the log (`TailIsAnEnd`), so that what it has lost was
  torn (`LossIsTorn`).
- `LongestUnseenComesFirst`: while there is room, the history holds the last
  opening of each revision (`Remembered`), and what a process read of it is still
  there when it writes (`Reader`, since it holds the lock).
- `PerspectivesAloneReplaced`: what is written when perspectives are chosen is the
  revision that was checked under the lock, with other perspectives.
- `DoctorSaysWhatCommandsDo`: for every machine; it takes no induction but that
  doctor's way to the Inbox and resolution's end in the same one
  (`ResolvedIsExamined`), for the default profile first and any number of others.
- `CitationsResolve`, for all prepared texts, answers and policies
  (`GroundingAssumption`: block names are unique and answers have the shape the
  parser admits). `GroundedInText` is inductive; the work is in the lemmas.
  `SpanNames` and `RangeNames` show that what the validator accepts as narrowing
  a citation names at least one byte or cell and only those there are, also in a
  table with ragged rows; `KnowledgeCites` and `SourceCites` that the rules of
  kinds and bases leave nothing uncited in the layer of grounded evidence.
- The type invariants of all ten (`SessionsTypes` to `DoctorTypes`). Those of
  `Resurfacing` and `Doctor` say more than types: one decision of a revision, one
  entry of it in a history within its bound; every issue has its place in the
  order of `primary_issue`.
- Of the composition, what the run `commands` checks: `CommandTypes`,
  `CommandsDecideOnce`, `CommandsMigrate`, `CommandsReplaceAsApproved`,
  `CommandsAddAsRead`, `CommandReportsAreTrue`, `CommandsKeepWhatIsWritten`,
  `CommandsListByOpening`, `CommandsReplacePerspectives`, `CommandsCite`. The invariant
  `CommandsInv` is that of the model at work; `StepOfOne` says that a step is one of
  that model or none.

A list in an order, as `Logs` and `Resurfacing` have, is one that is chosen among
the lists of a finite set in that order. That there is one (`CanBeSorted`) follows
from the well-foundedness of finite subsets, in the place of an induction over
a sorting function, which the provers could not do.

The assumptions on constants only keep apart what the code keeps apart by type:
a missing value is no value (`NoneAssumption` and the like), a bound is a number,
a PDF is no image. TLC evaluates each of them, those of the instantiated modules
by the ASSUMEs of `Commands`, `Folder` and `Reviews`.

Only model-checked: every liveness property (`LocksRecovered`, `ViewsRestored`,
`ApprovalsArrive`, `SuccessionsFinish`), which is out of the provers' reach, and
the properties of the runs that are expected to fail, which are false. Every
other property of a passing run is stated by a theorem. Those of `recovery`
and `asset_live` are proved of `Projection` and `AssetLifecycle`, of which the
runs check behaviours with fairness, in `recovery` with locks beside them.

## Findings

Runs that are expected to fail, each a disagreement between the code and its
own documents, comments or tests; PROJECT.json quotes them.

- `lock_asset_overlap`: `remove_stale_entry` and the guarded removal act on a
  name after they judged an earlier file under it; two Asset recoveries that
  overlap may end with two holders of the same lock.
- `publish_new_race`: `write_new` renames over a file that appeared after its look.
- `review_crash_live`: a publisher killed in `write_new` makes `reviews/`
  unreadable.
- `projection_stopped`: a killed refresh leaves a view of the program's own that
  is later taken for the owner's.
- `batches_stuck`: `apply_inbox_catalog_v2` takes the first files by name, those
  it registered earlier among them, so that a rerun repeats the same page.

## Known limits

Dead ends and surprises that the models contain, or that were met while the code
was translated, and that no run is about.

Locks and stores:

- Overlapping recoveries of the repository lock move the live guard of one of
  them; a kill while the repository lock is dropped leaves a guard or a
  quarantine that `clear_stale_repository_lock` never looks at, since it first
  asks for a stale main lock (`Inspects = TRUE`). A process id that the system
  reuses keeps a stale lock alive (`lock.rs:1445`).
- A compare-exchange that cannot read what it has taken out puts it back and says
  that it changed (`atomic.rs:344`), although it may be what was expected.
- A process killed inside a publication leaves the lock beside the file
  (`atomic.rs:584`, `1066`), and every later publication of that file fails until
  the owner removes it by hand. Killed inside a compare-exchange it leaves the old
  content in a displaced entry only; if that was the manifest, the views it listed
  are nobody's.
- `mko check` does not inspect snapshots. A record whose original was never
  written is neither repaired nor reported (`local_file_v2.rs:372`).
- Cleanup of prepared sessions looks through a bounded number of entries
  (`prepared_v2.rs:1288`): behind that many live ones an expired one stays.
- 256 review sessions may be open (`review_session_v2.rs:291`), and one that
  expires unused is never removed.

Records and what is derived from them:

- A record directory without its pointer, as a kill or a running draft leaves
  it, makes the scan of the queue fail (`queue_v2.rs:1059`); one stray file in
  `notes/`, `judgments/` or among review cards makes searches fail as well.
- A new draft by an agent resets the perspectives and the policy
  (`records_v2.rs:366`).
- A Source's summary is shown as the document's own and never as analysis
  (`queue_v2.rs:199`), although an agent wrote it and it cites nothing.
- A page of the user interface is built from several scans without a lock
  (`ui.rs:517`); each is one of `Queue` or `Inbox`.

Assets:

- An acceptance that was interrupted after its successor was written is no
  longer reported once the original content is back and was inspected.
- A draft written for a processed Asset whose Source was removed cannot be
  repaired by `repair-state`; check advises it also for a changed or missing
  Asset with an approved Source, where it refuses.
- Of a pending or approved Source that was edited by hand, check may advise
  `repair-state` besides reporting the revision, and `repair-state` refuses it
  (`existing_source_invalid`, `source.rs:375`) until the text is restored.
- `mark_sources_stale_for_asset` writes back what it read (`source.rs:276`), over
  an edit made in between.
- `transition_asset` lets a superseded Asset fail and `validate_asset_state`
  rejects the record; no command marks an Asset failed today.
- A missing Asset whose file reappears changed, a changed Asset whose file is
  deleted, and an acceptance towards content that already has another lineage
  have no command that leads out.
- A commit that stages only the superseded record passes check.

Folder, machine, migration:

- Home of the first version recommends nothing when a scan was incomplete or two
  Assets claim one unseen file, while status says repair or retry. With a document
  error that home does not count (`relation_missing`, `source_invalid`,
  `registry_conflict`, `duplicate_conflict`, a document that cannot be parsed)
  status is unhealthy and says repair, while home says add, review or none: it
  counts only records that parse and are not canonical (`inbox.rs:266`). Home of v2
  asks for a registration that a full batch never reaches.
- Doctor says "configure" for contract 0.3.0, where `mko migrate` is the remedy,
  and for a missing profile where the variable and an explicit repository
  resolve; it is stricter than resolution about a linked Inbox.
- The profile is compared and then replaced by a rename (`profile.rs:167`, `191`):
  what an editor saves between the two is overwritten. The lock keeps only other
  commands away.
- A file that is imported may be changed, replaced or removed between its last
  reading, through the open file, and the record of its Asset (`registry.rs:462`,
  `469`): the Asset then names a place where its content no longer is, until the
  next inspection.
- A scaffold killed before its marker is refused on the next run
  (`scaffold_v2.rs:64`); a plan cut off while it was written stops every later
  plan until it is removed (`setup_plan_v2.rs:964`).
- An edited view definition stops the dashboard before it looks at any record
  (`dashboard_v2.rs:267`), until the owner has moved it away.
- The retirement removes `views/review-queue.base` whosever it is, also when a
  migration is resumed and the tree may be dirty. `git checkout .` after a failed
  migration leaves untracked files, so that the gate refuses the next one. A kill
  inside the exchange of the config leaves no `knowledge-os.yaml`.

## Not modelled

- **Parsing, serialisation, validation of single documents, paths.** No state
  over time; a unit test decides them better. A malformed document appears in the
  models as an error, a damaged file or a command that stops.
- **Access to the operating system, PDF extraction, limits on bytes.** They
  appear as the faults of the models (a failing write, a missed deadline, a file
  that cannot be read).
- **Rendering and search for words.** Cards, views and lists are the facts they
  show; no property is about their wording.
- **Command line dispatch and arguments.** The commands that are protocols of
  their own (batches, confirmations, the order in which core operations are
  called) are in the models of those operations.
- **The read-only user interface and Windows access control.** The one writes
  nothing, the other is calls that restrict files to their owner.

## Plan

Done, in this order: `LockFiles` with `ExclusiveLock`, `Publication`,
`ReviewGraph`, `AssetStates`/`AssetLifecycle`, `Projection`; then the
machine-local capabilities (`ReviewSessions`, `Setup`, `Ingestion`), what reports
(`Queue`, `Check`, `Inbox`, `Doctor`), the first version (`Imports`,
`KnowledgeNotes`), `Migration`, and the algorithms (`Grounding`, `Resurfacing`,
`Logs`).

Proved, in this order: `LockFiles` implements `ExclusiveLock`; the safety of
`ReviewGraph`, `Queue`, `AssetLifecycle`, `Check` and `Ingestion`; types and
properties of `ReviewSessions`, `Migration`, `KnowledgeNotes`, `Setup`, `Imports`,
`Inbox`, `Logs`, `Resurfacing`, `Doctor` and `Grounding`; `Publication` implements
`AtomicFile`; the compositions `Commands`, `Folder` and `Reviews`.

What could follow, the most valuable first:

1. `ReviewGraph` with merges: that in a clone no other clone was merged into since
   a card was shown, the properties stated without merges hold.
2. `Queue`: `ConfirmedIsFresh` for views that could not be written, up to the scan
   that reports them.
3. `AssetLifecycle`: `ReportsAreRepairable` when git removes Sources, for the
   Assets whose Source it never took.

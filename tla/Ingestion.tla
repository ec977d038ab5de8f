------------------------------ MODULE Ingestion ------------------------------
(***************************************************************************)
(* mko-core/src/asset_v2.rs, snapshot_v2.rs, local_file_v2.rs,             *)
(* extraction_v2.rs and prepared_v2.rs: how material enters the knowledge  *)
(* base and is prepared for drafting.                                      *)
(*                                                                         *)
(* An Asset is named by the hash of its content. A PDF stays in the        *)
(* provider folder, where it may change at any moment; text and local      *)
(* files are copied into content-addressed stores. Preparing an Asset      *)
(* writes a session, plain text that lives 24 hours, which names the       *)
(* stored text it was built from; a draft may cite only such text.         *)
(*                                                                         *)
(* Everything that writes holds the repository mutation lock (LockFiles),  *)
(* one step here, as is the publication of one file (Publication). A       *)
(* process may be killed between any two steps: the lock it leaves is      *)
(* cleared, what it wrote stays. Two files of one locator, the size of a   *)
(* file and the confirmation a large download asks for are left out.       *)
(***************************************************************************)
EXTENDS Naturals, FiniteSets

CONSTANTS Proc,       \* processes
          Pdf,        \* what the file in the provider folder may contain
          Prose,      \* texts: pasted, a local file, or read off an image
          Image,      \* local files without text of their own
          Ttl,        \* how long a session lives
          MaxTime,    \* bound: the clock stops there
          Removals,   \* entries one cleanup removes
          Scan,       \* what one cleanup looks through, in entries of one size
          MayCrash,   \* processes that may be killed
          MayDamage,  \* <<place, content>> of files something else overwrites
          None

Material == Pdf \cup Prose \cup Image
Place == {"snapshots", "originals", "extractions"}
Origin == {"provider", "text", "file"}

\* What is assumed of the constants.
IngestionAssumption ==
    /\ None \notin Material \cup Proc \cup Origin
    /\ Pdf \cap (Prose \cup Image) = {} /\ Prose \cap Image = {}
    /\ Ttl \in Nat \ {0} /\ MaxTime \in Nat /\ Removals \in Nat \ {0} /\ Scan \in Nat
    /\ MayCrash \subseteq Proc /\ MayDamage \subseteq Place \X Material

\* What a session is of: the Asset, and the stored text the bundle names, its
\* extraction digest. The pages of a PDF are stored nowhere.
Bundle == (Pdf \X {None}) \cup {<<t, t>> : t \in Prose} \cup (Image \X Prose)
Locked == {"text", "registry", "original", "extraction", "cleanup", "stage",
           "link", "unstage", "publish"}
Pc == {"idle", "found", "extracted", "ready", "bundle"} \cup Locked

VARIABLES
    disk,       \* content of the provider file, or None
    registry,   \* registry[c]: where Asset c comes from, or None
    store,      \* store[place][c]: "none", "good" or "bad"
    sessions,   \* sessions[b]: when the session of bundle b expires, 0: none
    staged,     \* bundles with a temporary file beside the sessions
    cited,      \* stored texts that published revisions cite
    now,        \* the clock
    holder,     \* who holds the repository mutation lock
    pc,
    job         \* job[p]: what p works on

Job == [bundle : Bundle \cup {None}, asset : Material \cup {None},
        origin : Origin \cup {None}, expires : Nat]
NoJob == [bundle |-> None, asset |-> None, origin |-> None, expires |-> 0]

evidence == <<registry, store>>
runtime == <<sessions, staged>>
vars == <<disk, evidence, runtime, cited, now, holder, pc, job>>

TypeOK ==
    /\ disk \in Pdf \cup {None}
    /\ registry \in [Material -> Origin \cup {None}]
    /\ store \in [Place -> [Material -> {"none", "good", "bad"}]]
    /\ sessions \in [Bundle -> 0 .. MaxTime + Ttl]
    /\ staged \in SUBSET Bundle
    /\ cited \in SUBSET Prose
    /\ now \in 0 .. MaxTime
    /\ holder \in Proc \cup {None}
    /\ pc \in [Proc -> Pc]
    /\ job \in [Proc -> Job]

Init ==
    /\ disk \in Pdf
    /\ registry = [c \in Material |-> None]
    /\ store = [s \in Place |-> [c \in Material |-> "none"]]
    /\ sessions = [b \in Bundle |-> 0]
    /\ staged = {} /\ cited = {}
    /\ now = 0
    /\ holder = None
    /\ pc = [p \in Proc |-> "idle"]
    /\ job = [p \in Proc |-> NoJob]

-----------------------------------------------------------------------------

At(p, s) == pc[p] = s
Goto(p, s) == pc' = [pc EXCEPT ![p] = s]
Set(p, j) == job' = [job EXCEPT ![p] = j]
Lock(p) == holder = None /\ holder' = p
End(p) ==
    /\ Goto(p, "idle")
    /\ Set(p, NoJob)
    /\ holder' = IF holder = p THEN None ELSE holder
Write(place, c) == store' = [store EXCEPT ![place][c] = "good"]

\* locate_extraction_text_v2: a text is in one of three stores; only whether a
\* file of that name is there.
Located(t) == \E s \in Place : store[s][t] # "none"

\* read_extraction_text_v2: the file in the first store that has one, and its
\* content must be what its name says.
Readable(t) ==
    LET Before == [extractions |-> {}, snapshots |-> {"extractions"},
                   originals |-> {"extractions", "snapshots"}]
    IN  \E s \in Place : store[s][t] = "good" /\ \A r \in Before[s] : store[r][t] = "none"

\* read_snapshot_text_v2, read_original_bytes_v2: the bytes hash to the name.
Intact(place, c) == store[place][c] = "good"

\* read_asset_v2, and validate_asset: the kind of Asset a command is for.
Known(c) == registry[c] # None
Registered(c, origin) == registry[c] = origin

\* Nothing has come between the file and what was read of it.
Unchanged(b) == b[1] \in Pdf => disk = b[1]

Live(b) == sessions[b] > now
Expired == {b \in Bundle : sessions[b] # 0 /\ sessions[b] <= now}

-----------------------------------------------------------------------------
(* Registration *)

\* register_pdf_asset_v2, up to the lock: the file is read and hashed.
FindPdf(p) ==
    /\ At(p, "idle") /\ disk # None
    /\ Set(p, [NoJob EXCEPT !.asset = disk, !.origin = "provider"])
    /\ Goto(p, "found")
    /\ UNCHANGED <<disk, evidence, runtime, cited, now, holder>>

\* revalidate_provider_snapshot
Revalidated(p) == disk = job[p].asset

\* It happens again under the lock.
RegisterPdf(p) ==
    /\ At(p, "found")
    /\ Lock(p)
    /\ Revalidated(p)
    /\ Goto(p, "registry")
    /\ UNCHANGED <<disk, evidence, runtime, cited, now, job>>

\* register_text_evidence_v2: a page, a paste, a conversation, a transcript.
RegisterText(p, c) ==
    /\ At(p, "idle") /\ c \in Prose
    /\ Lock(p)
    /\ Set(p, [NoJob EXCEPT !.asset = c, !.origin = "text"])
    /\ Goto(p, "text")
    /\ UNCHANGED <<disk, evidence, runtime, cited, now>>

\* write_snapshot_text: a damaged file is replaced.
StoreText(p) ==
    /\ At(p, "text")
    /\ Write("snapshots", job[p].asset)
    /\ Goto(p, "registry")
    /\ UNCHANGED <<disk, registry, runtime, cited, now, holder, job>>

\* register_local_file_asset_v2: the file is read before the lock.
RegisterFile(p, c) ==
    /\ At(p, "idle") /\ c \in Prose \cup Image
    /\ Lock(p)
    /\ Set(p, [NoJob EXCEPT !.asset = c, !.origin = "file"])
    /\ Goto(p, "registry")
    /\ UNCHANGED <<disk, evidence, runtime, cited, now>>

\* Mutant of WriteRegistry: a file is stored whoever registered its content.
WriteRegistryStores(p) ==
    LET c == job[p].asset IN
    /\ At(p, "registry")
    /\ IF registry[c] = None
       THEN registry' = [registry EXCEPT ![c] = job[p].origin]
       ELSE UNCHANGED registry
    /\ IF job[p].origin = "file"
       THEN Goto(p, "original") /\ UNCHANGED <<holder, job>>
       ELSE End(p)
    /\ UNCHANGED <<disk, store, runtime, cited, now>>

\* write_asset_registry_record_v2: the first binding stays. Only the original
\* of a record created now is stored after it.
WriteRegistry(p) ==
    LET c == job[p].asset IN
    /\ At(p, "registry")
    /\ IF registry[c] = None
       THEN registry' = [registry EXCEPT ![c] = job[p].origin]
       ELSE UNCHANGED registry
    /\ IF registry[c] = None /\ job[p].origin = "file"
       THEN Goto(p, "original") /\ UNCHANGED <<holder, job>>
       ELSE End(p)
    /\ UNCHANGED <<disk, store, runtime, cited, now>>

\* write_original_bytes
StoreOriginal(p) ==
    /\ At(p, "original")
    /\ Write("originals", job[p].asset)
    /\ End(p)
    /\ UNCHANGED <<disk, registry, runtime, cited, now>>

-----------------------------------------------------------------------------
(* Preparation *)

Prepare(p, b, s) ==
    /\ Set(p, [NoJob EXCEPT !.bundle = b])
    /\ Goto(p, s)
    /\ UNCHANGED <<disk, evidence, runtime, cited, now, holder>>

\* The file must hash to the Asset; a private copy of it, hashed again, is what
\* the extractor reads.
PreparePdf(p, c) ==
    /\ At(p, "idle")
    /\ Registered(c, "provider") /\ disk = c
    /\ Prepare(p, <<c, None>>, "extracted")

\* The extractor is done: the open file is hashed once more.
Extracted(p) ==
    /\ At(p, "extracted")
    /\ Unchanged(job[p].bundle)
    /\ Goto(p, "ready")
    /\ UNCHANGED <<disk, evidence, runtime, cited, now, holder, job>>

\* prepare_snapshot_inner: the stored text must hash to the Asset.
PrepareText(p, c) ==
    /\ At(p, "idle")
    /\ Registered(c, "text") /\ Intact("snapshots", c)
    /\ Prepare(p, <<c, c>>, "ready")

\* prepare_local_file_inner: a text is its own evidence; with an image comes
\* the text somebody read off it.
PrepareFile(p, b) ==
    /\ At(p, "idle")
    /\ Registered(b[1], "file") /\ Intact("originals", b[1])
    /\ Prepare(p, b, "ready")

\* Mutant of EnterPrepare: the supplied text is in the session, why store it.
EnterPrepareUnstored(p) ==
    /\ At(p, "ready")
    /\ Lock(p)
    /\ Goto(p, "cleanup")
    /\ UNCHANGED <<disk, evidence, runtime, cited, now, job>>

EnterPrepare(p) ==
    /\ At(p, "ready")
    /\ Lock(p)
    /\ Goto(p, IF job[p].bundle[1] \in Image THEN "extraction" ELSE "cleanup")
    /\ UNCHANGED <<disk, evidence, runtime, cited, now, job>>

\* write_extraction_text_v2, before any session names the text.
StoreExtraction(p) ==
    /\ At(p, "extraction")
    /\ Write("extractions", job[p].bundle[2])
    /\ Goto(p, "cleanup")
    /\ UNCHANGED <<disk, registry, runtime, cited, now, holder, job>>

\* cleanup_expired_sessions: it refuses a directory it cannot look through, all
\* of it expired or not. Temporary files are nobody's under the lock, and at most
\* Removals entries go in one call.
Cleaned ==
    LET Held == {b \in Bundle : sessions[b] # 0}
        Old == (Expired \X {"session"}) \cup (staged \X {"temporary"})
        Most == IF Cardinality(Old) < Removals THEN Cardinality(Old) ELSE Removals
    IN  /\ Cardinality(Held) + Cardinality(staged) <= Scan
        /\ \E gone \in SUBSET Old :
            /\ Cardinality(gone) = Most
            /\ sessions' = [b \in Bundle |->
                   IF <<b, "session">> \in gone THEN 0 ELSE sessions[b]]
            /\ staged' = {b \in staged : <<b, "temporary">> \notin gone}

Cleanup(p) ==
    /\ At(p, "cleanup")
    /\ Cleaned
    /\ Goto(p, "stage")
    /\ UNCHANGED <<disk, evidence, cited, now, holder, job>>

\* Mutant of Stage: the session lives one tick longer than it says.
StageLonger(p) ==
    /\ At(p, "stage")
    /\ staged' = staged \cup {job[p].bundle}
    /\ Set(p, [job[p] EXCEPT !.expires = now + Ttl + 1])
    /\ Goto(p, "link")
    /\ UNCHANGED <<disk, evidence, sessions, cited, now, holder>>

\* write_session_immutable: a live session of the bundle is the answer, as long
\* as it lives; an expired one is removed.
Stage(p) ==
    LET b == job[p].bundle IN
    /\ At(p, "stage")
    /\ Unchanged(b)
    /\ IF Live(b)
       THEN End(p) /\ UNCHANGED runtime
       ELSE /\ sessions' = [sessions EXCEPT ![b] = 0]
            /\ staged' = staged \cup {b}
            /\ Set(p, [job[p] EXCEPT !.expires = now + Ttl])
            /\ Goto(p, "link")
            /\ UNCHANGED holder
    /\ UNCHANGED <<disk, evidence, cited, now>>

Link(p) ==
    /\ At(p, "link")
    /\ sessions' = [sessions EXCEPT ![job[p].bundle] = job[p].expires]
    /\ Goto(p, "unstage")
    /\ UNCHANGED <<disk, evidence, staged, cited, now, holder, job>>

\* The temporary name goes, and the session is read back.
Unstage(p) ==
    /\ At(p, "unstage")
    /\ staged' = staged \ {job[p].bundle}
    /\ End(p)
    /\ UNCHANGED <<disk, evidence, sessions, cited, now>>

\* Any error on the way: what was staged is removed, unless that fails too, and
\* the lock is dropped.
FailPrepare(p) ==
    /\ pc[p] \in {"extracted", "ready", "extraction", "cleanup", "stage", "link", "unstage"}
    /\ staged' \in {staged, staged \ {job[p].bundle}}
    /\ pc[p] \notin {"link", "unstage"} => staged' = staged
    /\ End(p)
    /\ UNCHANGED <<disk, evidence, sessions, cited, now>>

\* open_existing_prepared_session_directory: there is something to look at.
HasSessions == \E b \in Bundle : sessions[b] # 0 \/ b \in staged

\* cleanup_prepared_sessions_v2, which queue, show and dashboard begin with.
CleanupCommand ==
    /\ HasSessions
    /\ holder = None
    /\ Cleaned
    /\ UNCHANGED <<disk, evidence, cited, now, holder, pc, job>>

-----------------------------------------------------------------------------
(* Drafting *)

\* read_prepared_content_v2: whoever drafts keeps what it read.
ReadBundle(p, b) ==
    /\ At(p, "idle") /\ Live(b) /\ Known(b[1])
    /\ Set(p, [NoJob EXCEPT !.bundle = b])
    /\ Goto(p, "bundle")
    /\ UNCHANGED <<disk, evidence, runtime, cited, now, holder>>

\* require_resolvable_extraction comes before the lock.
EnterDraft(p) ==
    /\ At(p, "bundle")
    /\ job[p].bundle[2] # None => Readable(job[p].bundle[2])
    /\ Lock(p)
    /\ Goto(p, "publish")
    /\ UNCHANGED <<disk, evidence, runtime, cited, now, job>>

PublishDraft(p) ==
    /\ At(p, "publish")
    /\ cited' = cited \cup ({job[p].bundle[2]} \ {None})
    /\ End(p)
    /\ UNCHANGED <<disk, evidence, runtime, now>>

-----------------------------------------------------------------------------

\* A registration or a draft fails.
Fail(p) ==
    /\ pc[p] \in {"found", "text", "registry", "original", "bundle", "publish"}
    /\ End(p)
    /\ UNCHANGED <<disk, evidence, runtime, cited, now>>

\* p is killed, and its lock cleared before anything else needs it.
Crash(p) ==
    /\ p \in MayCrash
    /\ ~At(p, "idle")
    /\ End(p)
    /\ UNCHANGED <<disk, evidence, runtime, cited, now>>

ChangeFile ==
    /\ disk' \in (Pdf \cup {None}) \ {disk}
    /\ UNCHANGED <<evidence, runtime, cited, now, holder, pc, job>>

Tick ==
    /\ now < MaxTime
    /\ now' = now + 1
    /\ UNCHANGED <<disk, evidence, runtime, cited, holder, pc, job>>

\* A stored file no longer has the content its name says.
Damage(s, c) ==
    /\ <<s, c>> \in MayDamage
    /\ store[s][c] = "good"
    /\ store' = [store EXCEPT ![s][c] = "bad"]
    /\ UNCHANGED <<disk, registry, runtime, cited, now, holder, pc, job>>

Continue(p) ==
    \/ RegisterPdf(p) \/ StoreText(p) \/ WriteRegistry(p) \/ StoreOriginal(p)
    \/ Extracted(p) \/ EnterPrepare(p) \/ StoreExtraction(p) \/ Cleanup(p)
    \/ Stage(p) \/ Link(p) \/ Unstage(p)
    \/ EnterDraft(p) \/ PublishDraft(p)

Next ==
    \/ \E p \in Proc : FindPdf(p) \/ Continue(p) \/ FailPrepare(p) \/ Fail(p) \/ Crash(p)
    \/ \E p \in Proc, c \in Material :
           RegisterText(p, c) \/ RegisterFile(p, c) \/ PreparePdf(p, c) \/ PrepareText(p, c)
    \/ \E p \in Proc, b \in Bundle : PrepareFile(p, b) \/ ReadBundle(p, b)
    \/ CleanupCommand \/ ChangeFile \/ Tick
    \/ \E s \in Place, c \in Material : Damage(s, c)

Spec == Init /\ [][Next]_vars

-----------------------------------------------------------------------------
(* What the command check says of the stores *)

\* inspect_extractions, and inspect_originals up to the hash; the snapshots are
\* not looked at.
Damaged == {f \in {"originals", "extractions"} \X Material : store[f[1]][f[2]] = "bad"}

\* inspect_originals: an original without an Asset that a file was registered as.
\* A text may be read off an image and never cited: no extraction is an orphan.
Orphaned == {c \in Material : Intact("originals", c) /\ ~Registered(c, "file")}

-----------------------------------------------------------------------------
(* Properties *)

Named == {t \in Prose : t \in cited \/ \E b \in Bundle : sessions[b] # 0 /\ b[2] = t}

\* persist_prepared_session_v2: no session names a text the knowledge base
\* cannot find, whenever the process that wrote it died, and so no draft does.
\* It can also be read, unless check reports a damaged file or a snapshot is
\* damaged, where check does not look. register_local_file_asset_v2: nor does
\* check ever find an original that nothing refers to.
EvidenceResolves ==
    /\ \A t \in Named : Located(t)
    /\ Damaged = {} => \A t \in Named : Readable(t) \/ store["snapshots"][t] = "bad"
    /\ Orphaned = {}
=============================================================================

--------------------------------- MODULE Inbox ---------------------------------
(***************************************************************************)
(* mko-core/src/provider_scan.rs, inbox.rs, catalog.rs, status.rs, home.rs,*)
(* the batches of add.rs (first version) and of asset_v2.rs: what the      *)
(* program says of the provider folder and of the Assets captured from it, *)
(* and `mko add --inbox`.                                                  *)
(*                                                                         *)
(* A scan lists the folder, opens every PDF, and then reads the open files *)
(* one after the other; the folder changes meanwhile. The registry, the    *)
(* Sources and the Asset locks are read after it, one step here; a hand    *)
(* edit, git or a limit may keep any of their documents from being read. A *)
(* batch captures files one by one and reads each again.                   *)
(***************************************************************************)
EXTENDS Naturals, FiniteSets, FiniteSetsExt

CONSTANTS Files,      \* the names in the folder, 1 .. Files, in locator order
          Content,    \* what a PDF may contain
          MaxItems,   \* max_batch_items
          Kept,       \* <<status, Source>>: what other commands leave of an Asset
          None

Name == 1 .. Files
\* A placeholder of the provider's client, or no PDF in spite of its name.
Unreadable == {"cold", "invalid"}
File == Content \cup Unreadable \cup {None}

Status == {"registered", "extracted", "review_pending", "processed",
           "changed", "missing", "failed", "superseded"}
Observation == {"absent", "review_pending", "approved", "invalid"}

\* Scans are refused a limit of no items.
InboxAssumption ==
    /\ Files \in Nat /\ MaxItems \in Nat \ {0} /\ IsFiniteSet(Content)
    /\ Content \cap (Unreadable \cup {"torn", None}) = {}
    /\ None \notin Unreadable \cup {"torn", "mismatch", "missing", "locked", "changed"}
    /\ None \notin [at : Name, status : Status]
    /\ Kept \subseteq Status \X Observation

VARIABLES
    generation, \* which version the knowledge base has
    folder,     \* folder[n]: what the file n is
    registry,   \* registry[c]: where Asset c was captured and its status, or None
    source,     \* source[c]: what the Source of Asset c is seen to be
    pc,
    scan,       \* the scan going on, or the last one
    batch       \* the batch: the files it has still to add, and what became of the others

vars == <<generation, folder, registry, source, pc, scan, batch>>
repository == <<registry, source>>

Record == [at : Name, status : Status]
NoScan == [opened |-> [n \in Name |-> None], seen |-> [n \in Name |-> None],
           listed |-> TRUE, whole |-> TRUE, safe |-> TRUE]
NoBatch == [todo |-> {}, done |-> {}, wrong |-> {}, dropped |-> 0, whole |-> TRUE]

TypeOK ==
    /\ generation \in {"v1", "v2"}
    /\ folder \in [Name -> File]
    /\ registry \in [Content -> Record \cup {None}]
    /\ source \in [Content -> Observation]
    /\ pc \in {"idle", "reading", "scanned", "adding", "added"}
    /\ scan \in [opened : [Name -> File], seen : [Name -> File \cup {"torn"}],
                 listed : BOOLEAN, whole : BOOLEAN, safe : BOOLEAN]
    /\ batch \in [todo : SUBSET Name, done : SUBSET Name, wrong : SUBSET Name, dropped : Nat,
                  whole : BOOLEAN]

Init ==
    /\ generation \in {"v1", "v2"}
    /\ folder \in [Name -> File]
    /\ registry = [c \in Content |-> None]
    /\ source = [c \in Content |-> "absent"]
    /\ pc = "idle"
    /\ scan = NoScan
    /\ batch = NoBatch

-----------------------------------------------------------------------------
(* The scan of the folder *)

\* walk_provider_metadata goes in the order of names up to a limit, and a
\* directory that has more entries than are left is not begun.
Walked(last) == [n \in Name |-> IF n <= last THEN folder[n] ELSE None]

Walk(last) ==
    LET opened == Walked(last) IN
    /\ pc = "idle"
    /\ scan' = [opened |-> opened, seen |-> [n \in Name |-> None],
                listed |-> last = Files, whole |-> last = Files, safe |-> last = Files]
    /\ batch' = NoBatch
    /\ pc' = "reading"
    /\ UNCHANGED <<generation, folder, repository>>

Left == {n \in Name : scan.opened[n] # None}

\* fingerprint_retained_pdf: the open file is hashed twice. It is what it was
\* when it was opened, or what was written into it since, or a mixture.
Readings(n) ==
    IF scan.opened[n] = "cold" THEN {"cold"}
    ELSE IF folder[n] = scan.opened[n] THEN {folder[n]}
    ELSE {scan.opened[n], "torn"} \cup ({folder[n]} \ {None, "cold"})

\* What a file that is no PDF, or changed, does to the scan: a batch of the
\* first version goes on after the former only.
Read ==
    LET n == Min(Left) IN
    /\ pc = "reading" /\ Left # {}
    /\ \E r \in Readings(n) :
           scan' = [scan EXCEPT !.opened[n] = None,
                                !.seen[n] = r,
                                !.whole = @ /\ r \notin {"invalid", "torn"},
                                !.safe = @ /\ r # "torn"]
    /\ UNCHANGED <<generation, folder, repository, pc, batch>>

\* The time is up before the next file.
TimeOut ==
    /\ pc = "reading" /\ Left # {}
    /\ scan' = [scan EXCEPT !.opened = NoScan.opened, !.listed = FALSE, !.whole = FALSE, !.safe = FALSE]
    /\ UNCHANGED <<generation, folder, repository, pc, batch>>

EndScan ==
    /\ pc = "reading" /\ Left = {}
    /\ pc' = "scanned"
    /\ UNCHANGED <<generation, folder, repository, scan, batch>>

-----------------------------------------------------------------------------
(* The catalog of the first version *)

Current == {c \in Content : registry[c] # None /\ registry[c].status # "superseded"}

\* current_assets_by_locator, of the Assets that were read: of several, any.
Claims(known, n) == {c \in known : registry[c].at = n}
Conflicts(known) == {n \in Name : Cardinality(Claims(known, n)) > 1}

\* What stands for file n: the Asset captured there, whatever is there now, or
\* the one with this content.
AssetsAt(known, n) ==
    IF Claims(known, n) # {} THEN Claims(known, n)
    ELSE {scan.seen[n]} \cap known

Visible == {n \in Name : scan.seen[n] \in Content \cup {"cold"}}

\* The Source that the status of an Asset calls for; one that was not read is
\* absent.
Agrees(c, unread) ==
    LET seen == IF c \in unread THEN "absent" ELSE source[c] IN
    CASE registry[c].status \in {"registered", "extracted"} -> seen = "absent"
      [] registry[c].status = "review_pending" -> seen = "review_pending"
      [] registry[c].status = "processed" -> seen = "approved"
      [] OTHER -> TRUE

\* What read_assets, read_sources and read_lock_asset_ids come to: the current
\* Assets that are known, those whose Source is not read, those that are locked.
Listings ==
    UNION {[known : {k}, unread : SUBSET k, locked : SUBSET k] : k \in SUBSET Current}

\* The errors, and whether no limit was reached. Behind an Asset that is not known
\* is a limit or an error, which is counted if its record could be parsed; the
\* errors of Sources, which are read for known Assets, are counted nowhere.
Outcomes(r) ==
    {o \in [errors : SUBSET {"counted", "uncounted"}, whole : BOOLEAN] :
        /\ o.whole /\ r.known # Current => o.errors # {}
        /\ o.whole /\ "uncounted" \notin o.errors =>
               r.unread = {} /\ \A c \in Current \ r.known : source[c] = "absent"}

\* Mutant of Blocker: the file is there.
BlockerAnyContent(c, n, r) ==
    LET Contested == Cardinality(Claims(r.known, n)) > 1
    IN  CASE Contested -> "mismatch"
          [] ~Contested /\ scan.seen[n] = "cold" -> "missing"
          [] ~Contested /\ scan.seen[n] # "cold" ->
                 IF c \in r.locked THEN "locked"
                 ELSE IF Agrees(c, r.unread) THEN None ELSE "mismatch"

\* The first thing that is wrong with Asset c and file n (blocker_for).
Blocker(c, n, r) ==
    LET Contested == Cardinality(Claims(r.known, n)) > 1
    IN  CASE Contested -> "mismatch"
          [] ~Contested /\ scan.seen[n] = "cold" -> "missing"
          [] ~Contested /\ scan.seen[n] # "cold" ->
                 IF c \in r.locked THEN "locked"
                 ELSE IF scan.seen[n] # c THEN "changed"
                 ELSE IF Agrees(c, r.unread) THEN None ELSE "mismatch"

\* classify: the state of an item and what to do about it.
Blocked(blocker) ==
    [state |-> "blocked",
     action |-> CASE blocker = "missing" -> "hydrate"
                  [] blocker = "locked" -> "retry"
                  [] OTHER -> "repair"]

ByStatus(status) ==
    CASE status = "registered" -> [state |-> "registered", action |-> "prepare"]
      [] status = "extracted" -> [state |-> "incomplete", action |-> "write_draft"]
      [] status = "review_pending" -> [state |-> "review_pending", action |-> "review"]
      [] status = "processed" -> [state |-> "processed", action |-> "none"]
      [] status = "missing" -> Blocked("missing")
      [] status = "failed" -> Blocked("locked")
      [] OTHER -> Blocked("changed")

Item(n, c, class) == [file |-> n, asset |-> c, state |-> class.state, action |-> class.action]

\* The items of the files: stands[n] is the Asset file n stands for.
FileItems(stands, r) ==
    {LET blocker == Blocker(stands[n], n, r) IN
     Item(n, stands[n], IF blocker # None THEN Blocked(blocker)
                        ELSE ByStatus(registry[stands[n]].status)) : n \in DOMAIN stands}
    \cup {Item(n, None, IF scan.seen[n] = "cold" THEN Blocked("missing")
                        ELSE [state |-> "new", action |-> "add"]) : n \in Visible \ DOMAIN stands}

\* The Assets no file stands for, once every file was seen.
AbsentItems(stands, r) ==
    LET Unseen == {c \in r.known : \A n \in DOMAIN stands : stands[n] # c}
    IN  IF scan.whole THEN {Item(registry[c].at, c, Blocked("missing")) : c \in Unseen} ELSE {}

\* What a scan says of the folder and the repository: of two Assets of one place
\* one is chosen.
Stands(known) ==
    LET Taken == {n \in Visible : AssetsAt(known, n) # {}}
    IN  {f \in [Taken -> known] : \A n \in Taken : f[n] \in AssetsAt(known, n)}
CatalogsOf(f, r) ==
    LET Items == FileItems(f, r) \cup AbsentItems(f, r)
        Contested == Conflicts(r.known)
    IN  {[items |-> Items, conflicts |-> Contested, errors |-> o.errors,
          whole |-> scan.whole /\ o.whole, safe |-> scan.safe /\ o.whole] : o \in Outcomes(r)}

\* When not every lock could be seen, any item may be locked.
LocksUnseen(catalog) ==
    [catalog EXCEPT !.items = {Item(i.file, i.asset, Blocked("locked")) : i \in @},
                    !.whole = FALSE, !.safe = FALSE]

Catalogs ==
    LET Seen == UNION {UNION {CatalogsOf(f, r) : f \in Stands(r.known)} : r \in Listings}
    IN  Seen \cup {LocksUnseen(catalog) : catalog \in Seen}

Priority(action) ==
    CASE action = "repair" -> 1 [] action = "hydrate" -> 2 [] action = "retry" -> 3
      [] action = "review" -> 4 [] action = "write_draft" -> 5 [] action = "prepare" -> 6
      [] action = "add" -> 7 [] OTHER -> 8

\* project_catalog_items: what needs most to be done, up to the limit.
Shown(catalog) ==
    LET Before(i, j) ==
            \/ Priority(i.action) < Priority(j.action)
            \/ Priority(i.action) = Priority(j.action) /\ i.file < j.file
    IN  {i \in catalog.items : Cardinality({j \in catalog.items : Before(j, i)}) < MaxItems}
Complete(catalog) == catalog.whole /\ Shown(catalog) = catalog.items

\* count_states: items, shown or not, and the records that are not canonical.
AnyBlocked(catalog) ==
    (\E i \in catalog.items : i.state = "blocked") \/ "counted" \in catalog.errors

\* Mutant of Healthy: an error is blocked anyway.
HealthyWithErrors(catalog) ==
    ~AnyBlocked(catalog) /\ catalog.conflicts = {} /\ Complete(catalog)

\* status_from_inbox
Erroneous(catalog) == catalog.errors # {} \/ catalog.conflicts # {}
Healthy(catalog) == ~AnyBlocked(catalog) /\ ~Erroneous(catalog) /\ Complete(catalog)

\* select_status_decision: the most urgent of what is wrong, or else of what is
\* to be done.
NextAction(catalog) ==
    LET Items == Shown(catalog)
        Wrong == {i.action : i \in {j \in Items : j.state = "blocked"}}
                    \cup (IF Erroneous(catalog) THEN {"repair"} ELSE {})
                    \cup (IF catalog.whole /\ Items = catalog.items THEN {} ELSE {"retry"})
        All == IF Wrong # {} THEN Wrong ELSE {i.action : i \in Items} \cup {"none"}
    IN  CHOOSE a \in All : \A b \in All : Priority(a) <= Priority(b)

-----------------------------------------------------------------------------
(* Batches *)

\* What a batch is about: what there is to do, and the files the scan could
\* not make anything of.
Seeds(catalog) ==
    {i \in catalog.items : i.action # "none"}
        \cup {Item(n, None, Blocked("changed")) : n \in {m \in Name : scan.seen[m] \in {"invalid", "torn"}}}

\* select_batch_seeds: what the batch can do comes before what it only shows.
Selected(catalog) ==
    LET All == Seeds(catalog)
        Able == {i \in All : i.action \in {"add", "prepare", "write_draft"}}
        Before(i, j) ==
            \/ i \in Able /\ j \notin Able
            \/ (i \in Able <=> j \in Able) /\ i.file < j.file
    IN  {i \in All : Cardinality({j \in All : Before(j, i)}) < MaxItems}

\* Mutant of BatchOf: what the batch does not add is not counted.
BatchUncounted(catalog) ==
    [NoBatch EXCEPT !.todo = {i.file : i \in {j \in Selected(catalog) : j.action = "add"}},
                    !.whole = catalog.whole /\ catalog.safe /\ ~Erroneous(catalog)]

\* apply_inbox_scan: in a scan that is not safe, what would be added only fails.
BatchOf(catalog) ==
    LET Chosen == Selected(catalog)
        Adds == {i.file : i \in {j \in Chosen : j.action = "add"}}
        Safe == catalog.safe /\ ~Erroneous(catalog)
    IN  [done |-> {},
         todo |-> IF Safe THEN Adds ELSE {},
         wrong |-> (IF Safe THEN {} ELSE Adds)
                       \cup {i.file : i \in {j \in Chosen : j.state = "blocked"}},
         dropped |-> Cardinality(Seeds(catalog)) - Cardinality(Chosen),
         whole |-> catalog.whole /\ Safe]

BeginBatch ==
    /\ pc = "scanned" /\ generation = "v1"
    /\ batch' \in {BatchOf(catalog) : catalog \in Catalogs}
    /\ pc' = "adding"
    /\ UNCHANGED <<generation, folder, repository, scan>>

\* apply_inbox_catalog_v2: every file that was seen, in the order of names.
Candidates == {n \in Name : scan.seen[n] # None}
Page == {n \in Candidates : Cardinality({m \in Candidates : m < n}) < MaxItems}

BeginPage ==
    /\ pc = "scanned" /\ generation = "v2"
    /\ batch' = [done |-> {},
                 todo |-> {n \in Page : scan.seen[n] \in Content},
                 wrong |-> {n \in Page : scan.seen[n] \notin Content},
                 dropped |-> Cardinality(Candidates \ Page), whole |-> scan.listed]
    /\ pc' = "adding"
    /\ UNCHANGED <<generation, folder, repository, scan>>

\* capture_discovered_item reads the file again and wants what the scan saw;
\* register_pdf_asset_v2 takes what is there. A batch of the first version also
\* fails without a verified backup, and either on an error.
AddNext ==
    LET n == Min(batch.todo)
        c == folder[n]
        Wanted == c \in Content /\ (generation = "v1" => c = scan.seen[n])
        Added == [registry EXCEPT ![c] = IF @ = None THEN [at |-> n, status |-> "registered"] ELSE @]
    IN
    /\ pc = "adding" /\ batch.todo # {}
    /\ \/ /\ Wanted
          /\ registry' = Added
          /\ batch' = [batch EXCEPT !.todo = @ \ {n}, !.done = @ \cup {n}]
       \/ /\ UNCHANGED registry
          /\ batch' = [batch EXCEPT !.todo = @ \ {n}, !.wrong = @ \cup {n}]
    /\ UNCHANGED <<generation, folder, source, pc, scan>>

EndBatch ==
    /\ pc = "adding" /\ batch.todo = {}
    /\ pc' = "added"
    /\ UNCHANGED <<generation, folder, repository, scan, batch>>

\* scan_complete of a batch: in the second version a file that could not be
\* used has an item of its own and does not count against it.
BatchComplete == batch.dropped = 0 /\ batch.whole

\* What was said is said.
Done ==
    /\ pc \in {"scanned", "added"}
    /\ pc' = "idle" /\ scan' = NoScan /\ batch' = NoBatch
    /\ UNCHANGED <<generation, folder, repository>>

-----------------------------------------------------------------------------
(* Home *)

\* HomeReport::next_action for the first version.
HomeLegacy(catalog) ==
    LET Some(states) == \E i \in catalog.items : i.state \in states
    IN  IF AnyBlocked(catalog) THEN "repair"
        ELSE IF Some({"review_pending"}) THEN "review"
        ELSE IF Some({"new", "registered", "incomplete"}) THEN "add"
        ELSE "none"

\* For the second, inspect_inbox_pdf_assets_v2: the files that are new, and the
\* trouble that was seen.
NewFiles == {n \in Name : scan.seen[n] \in Content /\ registry[scan.seen[n]] = None}
Trouble == ~scan.whole \/ \E n \in Name : scan.seen[n] = "cold"

\* An Asset without a record is work in progress. Reviews ask for nothing.
HomeV3 ==
    IF Trouble THEN "repair"
    ELSE IF NewFiles # {} \/ \E c \in Current : source[c] = "absent" THEN "add"
    ELSE "none"

-----------------------------------------------------------------------------

\* The owner or the provider's client changes the folder.
Meddle(n, f) ==
    /\ folder[n] # f
    /\ folder' = [folder EXCEPT ![n] = f]
    /\ UNCHANGED <<generation, repository, pc, scan, batch>>

\* Another command, or git, changes what is known of an Asset. No Asset of the
\* second version is superseded.
Elsewhere(c, n, k) ==
    /\ pc = "idle" /\ k \in Kept
    /\ generation = "v2" => k[1] # "superseded"
    /\ registry[c] # None => registry[c].at = n
    /\ registry' = [registry EXCEPT ![c] = [at |-> n, status |-> k[1]]]
    /\ source' = [source EXCEPT ![c] = k[2]]
    /\ repository' # repository
    /\ UNCHANGED <<generation, folder, pc, scan, batch>>

Next ==
    \/ \E last \in 0 .. Files : Walk(last)
    \/ Read \/ TimeOut \/ EndScan
    \/ BeginBatch \/ BeginPage \/ AddNext \/ EndBatch \/ Done
    \/ \E n \in Name, f \in File : Meddle(n, f)
    \/ \E c \in Content, n \in Name, k \in Kept : Elsewhere(c, n, k)

Spec == Init /\ [][Next]_vars

-----------------------------------------------------------------------------
(* Properties *)

\* What home calls the next action of status.
Class(action) ==
    CASE action \in {"repair", "hydrate", "retry"} -> "repair"
      [] action \in {"write_draft", "prepare", "add"} -> "add"
      [] OTHER -> action

\* A healthy status recommends what home does, which counts everything, although
\* it looks only at what it shows. Another may see trouble where home sees none,
\* never the other way round: when something was not looked at, or is not shown,
\* when a document could not be read and is not counted, or when the file is gone
\* that two Assets claim.
HomeAndStatusAgree(catalog) ==
    \/ Class(NextAction(catalog)) = HomeLegacy(catalog)
    \/ /\ Class(NextAction(catalog)) = "repair" /\ ~Healthy(catalog)
       /\ Complete(catalog) =>
              "uncounted" \in catalog.errors \/ ~(catalog.conflicts \subseteq Visible)

\* A status that says all is well says that the content of every Asset was read
\* in the folder, whatever was moved, renamed or captured twice, and home agrees
\* with it; and a batch that calls itself complete has captured every PDF of the
\* folder it could list, or has an item that says why not, without which home
\* sees no trouble, and no new files but those that changed as they were added.
ReportsAreTrue ==
    /\ pc = "scanned" /\ generation = "v1" =>
           \A catalog \in Catalogs :
               /\ HomeAndStatusAgree(catalog)
               /\ Healthy(catalog) => \A c \in Current : \E n \in Name : scan.seen[n] = c
    /\ pc = "added" /\ BatchComplete =>
           /\ \A n \in Name : scan.seen[n] # None =>
                  \/ n \in batch.wrong \cup batch.done
                  \/ scan.seen[n] \in Content /\ registry[scan.seen[n]] # None
           /\ generation = "v2" /\ batch.wrong = {} => ~Trouble /\ NewFiles \subseteq batch.done

\* What a batch leaves for the next run is begun by the next run: as long as
\* files of the folder wait for their registration, a batch takes one of them.
BatchesAdvance == [][BeginPage /\ NewFiles # {} => batch'.todo \cap NewFiles # {}]_vars
=============================================================================

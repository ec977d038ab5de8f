----------------------------- MODULE ReviewGraph -----------------------------
(***************************************************************************)
(* mko-core/src/records_v2.rs, revision_v2.rs and review_v2.rs: the        *)
(* records of one asset, their immutable revisions, the current pointer    *)
(* of each, and the review events that say what the owner decided.         *)
(*                                                                         *)
(* The owner looks at a card without any lock; the decision is validated   *)
(* against the repository again under the repository mutation lock and is  *)
(* then one new file in reviews/. Drafts write a revision file first and   *)
(* move the pointer after it. Each clone of the repository has its own     *)
(* lock; git carries files between clones and asks no lock.                *)
(*                                                                         *)
(* The locks are those of LockFiles and the pointer's compare-exchange is  *)
(* that of Publication, each one step here.                                *)
(***************************************************************************)
EXTENDS Naturals, FiniteSets

CONSTANTS Clone,     \* working copies of the repository
          Proc,      \* processes
          Home,      \* Home[p]: the clone p works in
          Record,    \* the records of the asset: its Source, its Knowledge
          Rev,       \* revisions a draft can produce
          Id,        \* review ids: a bound on the events ever published
          Acts,      \* what is done: a subset of Act
          MayCrash,  \* processes that may be killed
          None, Dead, Conflict, Edited

Act == {"draft", "approve", "session", "defer", "resolve", "dashboard",
        "merge", "edit", "fail", "recover"}

ASSUME ConstantsAssumption ==
    /\ Home \in [Proc -> Clone]
    /\ Acts \subseteq Act
    /\ MayCrash \subseteq Proc
    /\ Dead \notin Proc /\ None \notin Proc /\ None # Dead
    /\ None \notin Rev /\ None \notin Id /\ Conflict \notin Id
    /\ None # Conflict

Decision == {"approve", "changes", "defer"}

\* One target of an event: the revision on the card, the decision, and the
\* review it supersedes.
Target == [rev : Rev, decision : Decision, sup : Id \cup {None}]
State == {"unconfirmed", "revised", "deferred", "changes", "confirmed", "blocked"}
Heading == [rev : Rev, head : Id \cup {None, Conflict}, state : State]
Line == [rev : Rev, head : Id \cup {None, Conflict}, blocked : BOOLEAN]
Resolution == [review : Id, record : Record, from : Rev, to : Rev]
Pc == {"idle", "shown", "draft", "revision", "pointer", "lockfile",
       "rename", "view"}

ASSUME NoneAssumption == None \notin Decision \cup Target \cup Heading \cup Line
ASSUME EditedAssumption == Edited \notin Heading \cup {None}

VARIABLES
    current,   \* current[c][r]: revision current.yaml names
    bare,      \* bare[c]: records with a directory
    revs,      \* revs[c]: revision files, <<record, revision>>
    reviews,   \* reviews[c]: ids of the event files in reviews/
    litter,    \* litter[c]: lock files of publishers in reviews/
    resolved,  \* resolved[c]: resolution files
    views,     \* views[c][r]: what views/records/ shows
    holder,    \* holder[c]: holder of the repository mutation lock
    event,     \* event[e][r]: immutable content of event e
    pc,
    card,      \* card[p][r]: what p was shown
    plan,      \* plan[p][r]: what p decided
    task,      \* task[p]: the draft p writes, the resolution it publishes
    new        \* new[p]: the id of p's event

repoVars == <<current, bare, revs, reviews, litter, resolved, event>>
procVars == <<card, plan, task, new>>
vars == <<repoVars, procVars, views, holder, pc>>

NoTask == [kind |-> "none"]
Draft == [kind : {"draft"}, record : Record, rev : Rev,
          expected : Rev \cup {None},            \* what the author read
          read : Rev \cup {None},                \* what the lock holder read
          shows : Heading \cup {None}]           \* the view it computed then
Task == {NoTask} \cup Draft \cup [kind : {"resolve"}, resolution : Resolution]

TypeOK ==
    /\ current \in [Clone -> [Record -> Rev \cup {None}]]
    /\ bare \in [Clone -> SUBSET Record]
    /\ revs \in [Clone -> SUBSET (Record \X Rev)]
    /\ reviews \in [Clone -> SUBSET Id]
    /\ litter \in [Clone -> SUBSET Proc]
    /\ resolved \in [Clone -> SUBSET Resolution]
    /\ views \in [Clone -> [Record -> Heading \cup {None, Edited}]]
    /\ holder \in [Clone -> Proc \cup {None, Dead}]
    /\ event \in [Id -> [Record -> Target \cup {None}]]
    /\ pc \in [Proc -> Pc]
    /\ card \in [Proc -> [Record -> Line \cup {None}]]
    /\ plan \in [Proc -> [Record -> Decision \cup {None}]]
    /\ task \in [Proc -> Task]
    /\ new \in [Proc -> Id \cup {None}]

NoCard == [r \in Record |-> None]

Init ==
    /\ current = [c \in Clone |-> NoCard]
    /\ bare = [c \in Clone |-> {}]
    /\ revs = [c \in Clone |-> {}]
    /\ reviews = [c \in Clone |-> {}]
    /\ litter = [c \in Clone |-> {}]
    /\ resolved = [c \in Clone |-> {}]
    /\ views = [c \in Clone |-> NoCard]
    /\ holder = [c \in Clone |-> None]
    /\ event = [e \in Id |-> NoCard]
    /\ pc = [p \in Proc |-> "idle"]
    /\ card = [p \in Proc |-> NoCard]
    /\ plan = [p \in Proc |-> NoCard]
    /\ task = [p \in Proc |-> NoTask]
    /\ new = [p \in Proc |-> None]

-----------------------------------------------------------------------------
(* The graph a clone's review files form *)

\* Events of clone c that decide on revision v of record r.
On(c, r, v) == {e \in reviews[c] : event[e][r] # None /\ event[e][r].rev = v}

\* Mutant of Heads: the newest of several heads wins.
HeadsNewest(c, r, v) ==
    LET open == On(c, r, v) \ {event[e][r].sup : e \in On(c, r, v)}
    IN  IF open = {} THEN {} ELSE {CHOOSE e \in open : TRUE}

\* heads_for: those no other event of the same target supersedes.
Heads(c, r, v) ==
    LET on == On(c, r, v) IN on \ {event[e][r].sup : e \in on}

\* derive_state_from_graph: more than one head is a conflict, whatever they say.
HeadOf(c, r, v) ==
    LET heads == Heads(c, r, v) IN
    IF heads = {} THEN None
    ELSE IF \A e, f \in heads : e = f THEN CHOOSE e \in heads : TRUE ELSE Conflict

\* validate_review_edges and validate_resolution_edges: what an event supersedes
\* is an event of the same target, what is resolved asked for changes.
EdgesSound(c) ==
    /\ \A e \in reviews[c], r \in Record :
           event[e][r] # None /\ event[e][r].sup # None =>
               event[e][r].sup \in On(c, r, event[e][r].rev) \ {e}
    /\ \A n \in resolved[c] :
           /\ n.review \in On(c, n.record, n.from)
           /\ event[n.review][n.record].decision = "changes"

\* read_review_graph_from: besides, every entry of reviews/ is one of those.
Readable(c) == litter[c] = {} /\ EdgesSound(c)

Present(c) == {r \in Record : current[c][r] # None}

\* review_history_from_graph: the one review of an earlier revision of r, each.
Previous(c, r, v) ==
    {e \in reviews[c] : /\ event[e][r] # None /\ event[e][r].rev # v
                        /\ Heads(c, r, event[e][r].rev) = {e}}

Outcome(decision) ==
    CASE decision = "approve" -> "confirmed"
      [] decision = "changes" -> "changes"
      [] decision = "defer" -> "deferred"

\* target_state. The head is a review of this revision, whatever was decided on
\* earlier ones.
StateOf(c, r, v) ==
    LET head == HeadOf(c, r, v) IN
    IF head = Conflict THEN "blocked"
    ELSE IF head # None THEN Outcome(event[head][r].decision)
    ELSE IF Previous(c, r, v) = {} THEN "unconfirmed" ELSE "revised"

\* expected_projection_input: what a view of revision v of r shows.
Expected(c, r, v) == [rev |-> v, head |-> HeadOf(c, r, v), state |-> StateOf(c, r, v)]
Canonical(c, r) == Expected(c, r, current[c][r])

\* derive_groups: one record that cannot be read fails the whole scan.
Scannable(c) ==
    /\ Readable(c)
    /\ bare[c] \subseteq Present(c)
    /\ \A r \in bare[c] : <<r, current[c][r]>> \in revs[c]

Blocked(c, r) ==
    LET shows == Canonical(c, r) IN views[c][r] # shows \/ shows.head = Conflict
Confirmed(c, r) == current[c][r] # None /\ Canonical(c, r).state = "confirmed"

\* render_card: every record of the asset, its revision, head and state.
Card(c) ==
    [r \in Record |->
        IF r \notin Present(c) THEN None
        ELSE [rev |-> current[c][r], head |-> Canonical(c, r).head,
              blocked |-> Blocked(c, r)]]

-----------------------------------------------------------------------------
(* Reviews *)

At(p, s) == pc[p] = s
Goto(p, s) == pc' = [pc EXCEPT ![p] = s]
Planned(p) == {r \in Record : plan[p][r] # None}
Lock(p) ==
    /\ holder[Home[p]] = None
    /\ holder' = [holder EXCEPT ![Home[p]] = p]
Unlock(p) ==
    holder' = [c \in Clone |-> IF holder[c] = p THEN None ELSE holder[c]]
Forget(p) ==
    /\ card' = [card EXCEPT ![p] = NoCard]
    /\ plan' = [plan EXCEPT ![p] = NoCard]
    /\ task' = [task EXCEPT ![p] = NoTask]
    /\ new' = [new EXCEPT ![p] = None]

Offered == Decision \ (IF "defer" \in Acts THEN {} ELSE {"defer"})

\* What may be decided on the card of clone c: the whole card or one record at
\* the terminal, less what is approved; in a session any of its records.
Choice(c) ==
    (IF "approve" \notin Acts THEN {} ELSE
       UNION {{[r \in Record |-> IF r \in S /\ ~Confirmed(c, r) THEN d ELSE None] :
                  S \in {T \in {Present(c)} \cup {{r} : r \in Present(c)} :
                            \A r \in T : ~Blocked(c, r)}} : d \in Offered})
    \cup
    (IF "session" \notin Acts
        \/ \A r \in Present(c) : Confirmed(c, r) \/ Blocked(c, r) THEN {} ELSE
       {f \in [Record -> (Offered \ {"approve"}) \cup {None}] :
           \A r \in Record : f[r] # None => r \in Present(c)})

\* show_review_card_v2: without the lock. The event's id hashes what is
\* decided and when, so it is an id nobody else uses.
Show(p) ==
    /\ At(p, "idle")
    /\ Scannable(Home[p])
    /\ \E f \in Choice(Home[p]) \ {NoCard} : plan' = [plan EXCEPT ![p] = f]
    /\ \E e \in Id : /\ event[e] = NoCard
                     /\ \A q \in Proc : new[q] # e
                     /\ new' = [new EXCEPT ![p] = e]
    /\ card' = [card EXCEPT ![p] = Card(Home[p])]
    /\ Goto(p, "shown")
    /\ UNCHANGED <<repoVars, views, holder, task>>

\* The owner cancels, the lock is held, or what was shown or read is stale.
GiveUp(p) ==
    /\ pc[p] \in {"shown", "draft"}
    /\ Goto(p, "idle")
    /\ Forget(p)
    /\ UNCHANGED <<repoVars, views, holder>>

\* Mutant of EnterReview: publishes on the card as it was shown.
EnterReviewTrusting(p) ==
    /\ At(p, "shown")
    /\ Lock(p)
    /\ Scannable(Home[p])
    /\ Goto(p, "lockfile")
    /\ UNCHANGED <<repoVars, views, procVars>>

\* validate_confirmed_tty_approval_locked, or the checks of a session, then
\* validate_target_snapshots_at_commit and the check of the projections.
EnterReview(p) ==
    /\ At(p, "shown")
    /\ Lock(p)
    /\ Scannable(Home[p])
    /\ card[p] = Card(Home[p])
    /\ \A r \in Planned(p) : ~card[p][r].blocked
    /\ Goto(p, "lockfile")
    /\ UNCHANGED <<repoVars, views, procVars>>

\* Mutant of EnterResolve: any review can be resolved.
EnterResolveAny(p) ==
    LET c == Home[p] IN
    /\ "resolve" \in Acts
    /\ At(p, "idle")
    /\ Lock(p)
    /\ Readable(c)
    /\ \E n \in Resolution \ resolved[c] :
           /\ Heads(c, n.record, n.from) = {n.review}
           /\ n.to = current[c][n.record]
           /\ <<n.record, n.to>> \in revs[c]
           /\ task' = [task EXCEPT ![p] = [kind |-> "resolve", resolution |-> n]]
    /\ Goto(p, "lockfile")
    /\ UNCHANGED <<repoVars, views, card, plan, new>>

\* publish_review_resolution_v2, up to its write.
EnterResolve(p) ==
    LET c == Home[p] IN
    /\ "resolve" \in Acts
    /\ At(p, "idle")
    /\ Lock(p)
    /\ Readable(c)
    /\ \E n \in Resolution \ resolved[c] :
           /\ Heads(c, n.record, n.from) = {n.review}
           /\ event[n.review][n.record].decision = "changes"
           /\ n.to = current[c][n.record]
           /\ <<n.record, n.to>> \in revs[c]
           /\ task' = [task EXCEPT ![p] = [kind |-> "resolve", resolution |-> n]]
    /\ Goto(p, "lockfile")
    /\ UNCHANGED <<repoVars, views, card, plan, new>>

\* write_new first puts its lock file, no event, into reviews/.
LockFile(p) ==
    /\ At(p, "lockfile")
    /\ litter' = [litter EXCEPT ![Home[p]] = @ \cup {p}]
    /\ Goto(p, "rename")
    /\ UNCHANGED <<current, bare, revs, reviews, resolved, event,
                   views, holder, procVars>>

\* Mutant of Supersedes: the head of an earlier revision.
SupersedesAny(p, r) ==
    IF card[p][r].head # None \/ reviews[Home[p]] = {} THEN card[p][r].head
    ELSE CHOOSE e \in reviews[Home[p]] : TRUE

\* The head on the card is what the decision supersedes.
Supersedes(p, r) == card[p][r].head

\* The event, with every target, or the resolution appears at once.
Rename(p) ==
    LET c == Home[p] IN
    /\ At(p, "rename")
    /\ litter' = [litter EXCEPT ![c] = @ \ {p}]
    /\ \/ /\ task[p] = NoTask
          /\ event' = [event EXCEPT ![new[p]] =
                [r \in Record |->
                    IF plan[p][r] = None THEN None
                    ELSE [rev |-> card[p][r].rev, decision |-> plan[p][r],
                          sup |-> Supersedes(p, r)]]]
          /\ reviews' = [reviews EXCEPT ![c] = @ \cup {new[p]}]
          /\ Goto(p, "view")
          /\ UNCHANGED <<resolved, holder, procVars>>
       \/ /\ task[p].kind = "resolve"
          /\ resolved' = [resolved EXCEPT ![c] = @ \cup {task[p].resolution}]
          /\ Goto(p, "idle")
          /\ Unlock(p)
          /\ Forget(p)
          /\ UNCHANGED <<event, reviews>>
    /\ UNCHANGED <<current, bare, revs, views>>

-----------------------------------------------------------------------------
(* Drafts: write_source_record_v2, write_knowledge_record_v2 *)

\* The author reads the current revision and writes a new one, or a first one.
BeginDraft(p) ==
    /\ "draft" \in Acts
    /\ At(p, "idle")
    /\ \E r \in Record, v \in Rev :
           task' = [task EXCEPT ![p] =
               [kind |-> "draft", record |-> r, rev |-> v,
                expected |-> current[Home[p]][r], read |-> None, shows |-> None]]
    /\ Goto(p, "draft")
    /\ UNCHANGED <<repoVars, views, holder, card, plan, new>>

\* Mutant of EnterDraft: the expected revision is not asked for.
EnterDraftBlindly(p) ==
    LET c == Home[p]  r == task[p].record  v == task[p].rev IN
    /\ At(p, "draft")
    /\ Lock(p)
    /\ Readable(c)
    /\ task' = [task EXCEPT ![p].read = current[c][r], ![p].shows = Expected(c, r, v)]
    /\ IF current[c][r] = v THEN Goto(p, "view") ELSE Goto(p, "revision")
    /\ UNCHANGED <<repoVars, views, card, plan, new>>

\* Mutant of EnterDraft: drafts do not take the repository lock.
EnterDraftUnlocked(p) ==
    LET c == Home[p]  r == task[p].record  v == task[p].rev IN
    /\ At(p, "draft")
    /\ Readable(c)
    /\ task' = [task EXCEPT ![p].read = current[c][r], ![p].shows = Expected(c, r, v)]
    /\ current[c][r] = task[p].expected /\ current[c][r] # v
    /\ Goto(p, "revision")
    /\ UNCHANGED <<repoVars, views, holder, card, plan, new>>

\* expected_projection_input, then publish_record_locked up to its writes.
EnterDraft(p) ==
    LET c == Home[p]  r == task[p].record  v == task[p].rev IN
    /\ At(p, "draft")
    /\ Lock(p)
    /\ Readable(c)
    /\ task' = [task EXCEPT ![p].read = current[c][r], ![p].shows = Expected(c, r, v)]
    /\ \/ /\ current[c][r] = v
          /\ <<r, v>> \in revs[c]
          /\ Goto(p, "view")
       \/ /\ current[c][r] # v
          /\ current[c][r] = task[p].expected
          /\ Goto(p, "revision")
    /\ UNCHANGED <<repoVars, views, card, plan, new>>

\* Mutant of WriteRevision: the pointer first, the revision file afterwards.
WriteRevisionLater(p) ==
    LET c == Home[p] IN
    /\ At(p, "revision")
    /\ bare' = [bare EXCEPT ![c] = @ \cup {task[p].record}]
    /\ Goto(p, "pointer")
    /\ UNCHANGED <<current, revs, reviews, litter, resolved, event,
                   views, holder, procVars>>

\* The record's directories and publish_revision_v2.
WriteRevision(p) ==
    LET c == Home[p] IN
    /\ At(p, "revision")
    /\ bare' = [bare EXCEPT ![c] = @ \cup {task[p].record}]
    /\ revs' = [revs EXCEPT ![c] = @ \cup {<<task[p].record, task[p].rev>>}]
    /\ Goto(p, "pointer")
    /\ UNCHANGED <<current, reviews, litter, resolved, event,
                   views, holder, procVars>>

\* Mutant of WritePointer: the pointer carries the review state as well.
WritePointerHeaded(p) ==
    LET c == Home[p]  t == task[p] IN
    /\ At(p, "pointer")
    /\ current' = [current EXCEPT ![c][t.record] = t.shows]
    /\ Goto(p, "view")
    /\ UNCHANGED <<bare, revs, reviews, litter, resolved, event, views,
                   holder, procVars>>

\* create_current_pointer_v2 and compare_and_swap_current_pointer_v2.
WritePointer(p) ==
    LET c == Home[p]  t == task[p] IN
    /\ At(p, "pointer")
    /\ \/ /\ \/ current[c][t.record] = t.read
             \/ t.read = None /\ current[c][t.record] = t.rev
          /\ current' = [current EXCEPT ![c][t.record] = t.rev]
          /\ Goto(p, "view")
          /\ UNCHANGED <<holder, procVars>>
       \/ /\ current[c][t.record] # t.read
          /\ t.read = None => current[c][t.record] # t.rev
          /\ Goto(p, "idle")
          /\ Unlock(p)
          /\ Forget(p)
          /\ UNCHANGED current
    /\ UNCHANGED <<bare, revs, reviews, litter, resolved, event, views>>

-----------------------------------------------------------------------------
(* Views *)

\* Mutant of Shown: a draft's view always starts unreviewed.
ShownUnreviewed(p, r) ==
    IF task[p].kind = "draft"
    THEN IF r = task[p].record
         THEN [rev |-> task[p].rev, head |-> None, state |-> "unconfirmed"] ELSE None
    ELSE IF plan[p][r] # None
         THEN [rev |-> card[p][r].rev, head |-> new[p], state |-> Outcome(plan[p][r])]
         ELSE None

\* What p writes for record r, computed before its canonical write.
Shown(p, r) ==
    IF task[p].kind = "draft"
    THEN IF r = task[p].record THEN task[p].shows ELSE None
    ELSE IF plan[p][r] # None
         THEN [rev |-> card[p][r].rev, head |-> new[p], state |-> Outcome(plan[p][r])]
         ELSE None

\* write_projection_locked; Projection has its steps. A view its owner has
\* edited is left alone, and a failure leaves the canonical write standing.
View(p) ==
    LET c == Home[p] IN
    /\ At(p, "view")
    /\ \/ views' = [views EXCEPT ![c] =
              [r \in Record |->
                  IF Shown(p, r) = None \/ @[r] = Edited THEN @[r] ELSE Shown(p, r)]]
       \/ "fail" \in Acts /\ UNCHANGED views
    /\ Goto(p, "idle")
    /\ Unlock(p)
    /\ Forget(p)
    /\ UNCHANGED repoVars

\* repair_dashboard_v2: every view, or none when one was edited.
Dashboard(p) ==
    LET c == Home[p] IN
    /\ "dashboard" \in Acts
    /\ At(p, "idle")
    /\ holder[c] = None
    /\ Scannable(c)
    /\ \A r \in Present(c) : views[c][r] # Edited
    /\ views' = [views EXCEPT ![c] =
           [r \in Record |-> IF r \in Present(c) THEN Canonical(c, r) ELSE @[r]]]
    /\ UNCHANGED <<repoVars, procVars, holder, pc>>

-----------------------------------------------------------------------------
(* The owner's editor, git, crashes *)

EditView(c, r) ==
    /\ "edit" \in Acts
    /\ views[c][r] # None
    /\ \E w \in {Edited, None} : views' = [views EXCEPT ![c][r] = w]
    /\ UNCHANGED <<repoVars, procVars, holder, pc>>

\* git merge: files of both sides; where both have one, either side's.
Merge(c, d) ==
    /\ "merge" \in Acts
    /\ c # d
    /\ reviews' = [reviews EXCEPT ![c] = @ \cup reviews[d]]
    /\ litter' = [litter EXCEPT ![c] = @ \cup litter[d]]
    /\ resolved' = [resolved EXCEPT ![c] = @ \cup resolved[d]]
    /\ revs' = [revs EXCEPT ![c] = @ \cup revs[d]]
    /\ bare' = [bare EXCEPT ![c] = @ \cup bare[d]]
    /\ \E theirs \in SUBSET Record :
          /\ current' = [current EXCEPT ![c] =
                 [r \in Record |->
                     IF current[d][r] # None /\ (r \in theirs \/ @[r] = None)
                     THEN current[d][r] ELSE @[r]]]
          /\ views' = [views EXCEPT ![c] =
                 [r \in Record |->
                     IF views[d][r] # None /\ (r \in theirs \/ @[r] = None)
                     THEN views[d][r] ELSE @[r]]]
    /\ UNCHANGED <<event, procVars, holder, pc>>

Crash(p) ==
    /\ p \in MayCrash
    /\ pc[p] # "idle"
    /\ Goto(p, "idle")
    /\ holder' = [c \in Clone |-> IF holder[c] = p THEN Dead ELSE holder[c]]
    /\ Forget(p)
    /\ UNCHANGED <<repoVars, views>>

\* mko recover: the lock of a dead process is set aside.
Recover(c) ==
    /\ "recover" \in Acts
    /\ holder[c] = Dead
    /\ holder' = [holder EXCEPT ![c] = None]
    /\ UNCHANGED <<repoVars, procVars, views, pc>>

-----------------------------------------------------------------------------

Step(p) ==
    \/ Show(p) \/ GiveUp(p) \/ EnterReview(p) \/ EnterResolve(p)
    \/ LockFile(p) \/ Rename(p)
    \/ BeginDraft(p) \/ EnterDraft(p) \/ WriteRevision(p) \/ WritePointer(p)
    \/ View(p) \/ Dashboard(p)

Next ==
    \/ \E p \in Proc : Step(p) \/ Crash(p)
    \/ \E c \in Clone : Recover(c)
    \/ \E c \in Clone, r \in Record : EditView(c, r)
    \/ \E c, d \in Clone : Merge(c, d)

Spec == Init /\ [][Next]_vars

\* Commands run to their end, recovery is asked for, and somebody keeps
\* looking at the queue and writing drafts.
FairSpec ==
    /\ Spec
    /\ \A p \in Proc : WF_vars(Step(p))
    /\ \A c \in Clone : WF_vars(Recover(c))

-----------------------------------------------------------------------------
(* Properties *)

\* In a repository that only mko writes, a revision has one review head:
\* decisions taken on the same card by two processes never both count.
OneHead ==
    \A c \in Clone, r \in Record, v \in Rev :
        \A d, e \in Heads(c, r, v) : d = e

\* From the last validation of a card to the publication of the decision on
\* it, the pointers and the heads it was decided on stay what the owner saw.
StillAsShown ==
    \A p \in Proc :
        pc[p] \in {"lockfile", "rename"} /\ task[p] = NoTask =>
            \A r \in Planned(p) :
                /\ current[Home[p]][r] = card[p][r].rev
                /\ HeadOf(Home[p], r, card[p][r].rev) = card[p][r].head

\* Whatever git brings and wherever a draft dies, current.yaml names a
\* revision that is there.
PointerResolves ==
    \A c \in Clone : \A r \in Present(c) : <<r, current[c][r]>> \in revs[c]

\* Merging clones never leaves an event that supersedes an event of another
\* target or a missing one, nor a resolution of a review that is not there.
EdgesClosed == \A c \in Clone : EdgesSound(c)

\* No reference of a repository dangles, whatever git brings and wherever a
\* draft dies: neither a pointer's, nor an event's, nor a resolution's.
ReferencesResolve == PointerResolves /\ EdgesClosed

\* A revision has a state other than blocked only when its decisions form one
\* chain, each taken in knowledge of the one before: a decision taken in
\* another clone is never outvoted silently.
DecisionsChained ==
    \A c \in Clone, r \in Record, v \in Rev :
        HeadOf(c, r, v) \notin {None, Conflict} =>
            \A T \in SUBSET On(c, r, v) :
                (/\ HeadOf(c, r, v) \in T
                 /\ \A e \in T : event[e][r].sup \in T \cup {None})
                => T = On(c, r, v)

\* A current revision is replaced only by a draft whose author had read it.
BuildsOn ==
    \A c \in Clone : \A r \in Present(c) :
        current'[c][r] # current[c][r] =>
            \E p \in Proc : /\ pc[p] = "pointer" /\ Home[p] = c
                            /\ task[p].record = r
                            /\ task[p].expected = current[c][r]
DraftsBuildOn == [][BuildsOn]_vars

\* Whatever fails, is killed or is edited meanwhile, a command only ever writes
\* a view that shows the current revision, its current review head and state.
TellsTruth ==
    \A c \in Clone, r \in Record :
        views'[c][r] \notin {views[c][r], Edited, None} =>
            views'[c][r] = Canonical(c, r)'
ViewsTellTruth == [][TellsTruth]_vars

\* What a killed publisher leaves in reviews/ does not keep the reviews from
\* being read for ever.
ReviewsResume == \A c \in Clone : litter[c] # {} ~> Readable(c)
=============================================================================

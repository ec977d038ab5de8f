-------------------------------- MODULE Queue --------------------------------
(***************************************************************************)
(* mko-core/src/queue_v2.rs: what waits for the owner. Every command that  *)
(* lists, searches, counts or shows a card derives it anew from the        *)
(* repository, without a lock, while others write: the records of each     *)
(* collection first, the reviews after them, the views last. A record is   *)
(* confirmed only when its view shows the revision and the head just read. *)
(*                                                                         *)
(* The scan reads clone Of; the writers are those of ReviewGraph.          *)
(***************************************************************************)
EXTENDS ReviewGraph

CONSTANTS Of,    \* the clone scanned
          First  \* records of sources/, which are scanned first

ASSUME QueueAssumption == Of \in Clone /\ First \subseteq Record

VARIABLES
    at,     \* what the scan reads next
    seen,   \* seen[r]: the revision read, then with its head and state
    state,  \* state[r]: what the scan makes of r, its view considered
    quiet   \* no command has held the lock since the scan began

scanVars == <<at, seen, state, quiet>>
queueVars == <<vars, scanVars>>

Steps == {"idle", "sources", "knowledge", "reviews", "views", "more views", "listed"}

ScanOK ==
    /\ at \in Steps
    /\ seen \in [Record -> Heading \cup {None}]
    /\ state \in [Record -> State \cup {None}]
    /\ quiet \in BOOLEAN

InitQueue == Init /\ at = "idle" /\ seen = NoCard /\ state = NoCard /\ quiet = TRUE

-----------------------------------------------------------------------------

Scanned == {r \in Record : seen[r] # None}

\* aggregate_queue_state: the most pressing state of an asset's records.
Pressing == <<"blocked", "changes", "revised", "unconfirmed", "deferred">>
Aggregate ==
    LET found == {state[r] : r \in Scanned}
        ranks == {n \in 1..5 : Pressing[n] \in found}
    IN  IF ranks = {} THEN "deferred"
        ELSE Pressing[CHOOSE n \in ranks : \A k \in ranks : n <= k]

\* queue_from_groups: the asset waits unless all its records are confirmed.
Waits == \E r \in Scanned : state[r] # "confirmed"

\* queue_item: what the owner is told to do about it.
NextAction ==
    CASE Aggregate = "changes" -> "regenerate"
      [] Aggregate = "blocked" -> "diagnose"
      [] OTHER -> "display"

-----------------------------------------------------------------------------
(* What the commands make of a scan *)

\* confirmation_label_for_target: in searches and on the page.
Label(r) == IF state[r] = "confirmed" THEN "confirmed" ELSE "unconfirmed"
LabelledConfirmed == {r \in Scanned : Label(r) = "confirmed"}

\* search_records_by_perspective_v2: what matches the words, and the label asked
\* for, if any. Only Knowledge has perspectives.
Found(want, words, perspective) ==
    {[record |-> r, rev |-> seen[r].rev, label |-> Label(r)] :
        r \in {q \in Scanned \cap words :
                  /\ want \in {"any", Label(q)}
                  /\ perspective => q \notin First}}

\* summarize_home_queue_v2, of one asset.
Summary ==
    LET Is(states) == IF Waits /\ Aggregate \in states THEN 1 ELSE 0 IN
    [pending |-> Is({"unconfirmed", "deferred", "revised"}),
     changes |-> Is({"changes"}),
     blocked |-> Is({"blocked"}),
     confirmed |-> Cardinality(LabelledConfirmed \ First)]

\* card_target: what the owner is offered for r.
Effects(r) ==
    CASE state[r] = "blocked" -> {"diagnose"}
      [] state[r] = "confirmed" -> {}
      [] state[r] = "changes" -> {"regenerate", "defer", "confirm"}
      [] OTHER -> {"request changes", "defer", "confirm"}

\* render_card also shows the revision of r that was reviewed last before this
\* one, whichever it is, and fails when its file is not there.
Shows(r) ==
    \A e \in Previous(Of, r, seen[r].rev) : <<r, event[e][r].rev>> \in revs[Of]

-----------------------------------------------------------------------------

BeginScan ==
    /\ at \in {"idle", "listed"}
    /\ at' = "sources"
    /\ seen' = NoCard /\ state' = NoCard

\* scan_collection: pointer and revision of every record directory. One that
\* cannot be read fails the command.
Legible(collection) ==
    \A r \in collection \cap bare[Of] : <<r, current[Of][r]>> \in revs[Of]
ReadRecords(collection) ==
    /\ Legible(collection)
    /\ seen' = [r \in Record |->
           IF r \in collection \cap bare[Of]
           THEN [rev |-> current[Of][r], head |-> None, state |-> "unconfirmed"]
           ELSE seen[r]]
    /\ UNCHANGED state

ReadSources == at = "sources" /\ at' = "knowledge" /\ ReadRecords(First)
ReadKnowledge == at = "knowledge" /\ at' = "reviews" /\ ReadRecords(Record \ First)

\* list_topics_v2 stops here: it needs no review and no view.
ListTopics ==
    /\ at = "reviews" /\ at' = "idle"
    /\ seen' = NoCard
    /\ UNCHANGED state

\* derive_review_histories_v2: one read of reviews/ for all of them.
ReadReviews ==
    /\ at = "reviews"
    /\ Readable(Of)
    /\ seen' = [r \in Record |->
           IF r \in Scanned THEN Expected(Of, r, seen[r].rev) ELSE None]
    /\ state' = [r \in Record |-> IF r \in Scanned THEN seen'[r].state ELSE None]
    /\ at' = "views"

\* Mutant of Verdict: views are not compared.
VerdictUnseen(r) == state[r]

\* canonical_projection_input: a view that does not show what was read blocks the
\* record.
Verdict(r) == IF views[Of][r] # seen[r] THEN "blocked" ELSE state[r]

\* The view of each record in turn.
ReadViews(collection) ==
    /\ state' = [r \in Record |->
           IF r \in Scanned \cap collection THEN Verdict(r) ELSE state[r]]
    /\ UNCHANGED seen

ReadSourceViews == at = "views" /\ at' = "more views" /\ ReadViews(First)
ReadKnowledgeViews == at = "more views" /\ at' = "listed" /\ ReadViews(Record \ First)

\* A record has no pointer yet, or reviews/ holds the lock file of a publisher.
FailScan ==
    /\ \/ at = "sources" /\ ~Legible(First)
       \/ at = "knowledge" /\ ~Legible(Record \ First)
       \/ at = "reviews" /\ ~Readable(Of)
    /\ at' = "idle"
    /\ seen' = NoCard
    /\ UNCHANGED state

Scan ==
    \/ BeginScan \/ ReadSources \/ ReadKnowledge \/ ListTopics \/ ReadReviews
    \/ ReadSourceViews \/ ReadKnowledgeViews \/ FailScan

NextQueue ==
    \/ /\ Scan
       /\ quiet' = ((quiet \/ at' = "sources") /\ holder[Of] = None)
       /\ UNCHANGED vars
    \/ /\ Next
       /\ quiet' = (quiet /\ holder'[Of] = None)
       /\ UNCHANGED <<at, seen, state>>

QueueSpec == InitQueue /\ [][NextQueue]_queueVars

-----------------------------------------------------------------------------
(* Where every command writes the views it owes before it returns *)

Looking(collection) ==
    \/ at = "views" /\ at' = "more views" /\ collection = First
    \/ at = "more views" /\ at' = "listed" /\ collection = Record \ First

\* A record found confirmed is confirmed when its view is looked at, not only when
\* its pointer was, whatever was written in between: unless a command is just then
\* between its record and its view.
FreshVerdict ==
    \A collection \in {First, Record \ First} :
        Looking(collection) /\ holder[Of] = None =>
            \A match \in Found("confirmed", collection, FALSE)' :
                match.rev = current[Of][match.record] /\ Confirmed(Of, match.record)

\* When nobody is writing, the scan finds the view of every revision, head and
\* state, also of those that come back: the owner is sent to diagnose only a
\* conflict, the home screen has nothing for them only if everything is
\* confirmed, and their card can be shown and offers what can be decided.
QuietVerdict ==
    Looking(Record \ First) /\ quiet' =>
        /\ NextAction' = "diagnose" /\ Waits' =>
               \E r \in Record : HeadOf(Of, r, current[Of][r]) = Conflict
        /\ Summary'.pending + Summary'.changes + Summary'.blocked = 0 <=>
               \A r \in bare[Of] : Confirmed(Of, r)
        /\ \A r \in Scanned :
               /\ Shows(r)
               /\ "confirm" \in Effects(r)' <=> ~Blocked(Of, r) /\ ~Confirmed(Of, r)
=============================================================================

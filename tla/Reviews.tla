-------------------------------- MODULE Reviews --------------------------------
(***************************************************************************)
(* ReviewGraph, three times side by side: processes of one clone, which    *)
(* may be killed; clones that git merges; and writers of one clone whose   *)
(* queue is scanned meanwhile (Queue). The kind says which of them a       *)
(* behaviour is of. The variables of ReviewGraph are those of the one      *)
(* clone, the others those of the other kinds; what is not of the kind     *)
(* stays as it begins.                                                     *)
(***************************************************************************)
EXTENDS Queue

CONSTANTS Clones, HomeIn, Shared, MergeActs,                   \* clones that git merges
          Writers, Desk, Queued, QueuedFirst, WriteActs        \* writers of a scanned clone

ASSUME MergesAssumed ==
    Clones # {} /\ HomeIn \in [Proc -> Clones] /\ MergeActs \subseteq Act

ASSUME ScansAssumed ==
    /\ Desk \in [Writers -> Clone] /\ WriteActs \subseteq Act
    /\ Dead \notin Writers /\ None \notin Writers
    /\ QueuedFirst \subseteq Queued

VARIABLES kind,
          pointers, directories, files, decided, leftovers, answers, pages,
          locked, contents, step, cards, plans, tasks, ids

Two == INSTANCE ReviewGraph WITH
    Clone <- Clones, Home <- HomeIn, MayCrash <- {}, Record <- Shared, Acts <- MergeActs,
    current <- pointers, bare <- directories, revs <- files, reviews <- decided,
    litter <- leftovers, resolved <- answers, views <- pages, holder <- locked,
    event <- contents, pc <- step, card <- cards, plan <- plans, task <- tasks, new <- ids

Scanning == INSTANCE Queue WITH
    Proc <- Writers, Home <- Desk, MayCrash <- {},
    Record <- Queued, First <- QueuedFirst, Acts <- WriteActs,
    current <- pointers, bare <- directories, revs <- files, reviews <- decided,
    litter <- leftovers, resolved <- answers, views <- pages, holder <- locked,
    event <- contents, pc <- step, card <- cards, plan <- plans, task <- tasks, new <- ids

others == <<pointers, directories, files, decided, leftovers, answers, pages,
            locked, contents, step, cards, plans, tasks, ids>>
all == <<kind, queueVars, others>>

NoScan == at = None /\ seen = None /\ state = None /\ quiet = None
Nothing ==
    /\ pointers = None /\ directories = None /\ files = None /\ decided = None
    /\ leftovers = None /\ answers = None /\ pages = None /\ locked = None
    /\ contents = None /\ step = None /\ cards = None /\ plans = None
    /\ tasks = None /\ ids = None

InitKind ==
    /\ Init
    /\ \/ kind = "one clone" /\ Nothing /\ NoScan
       \/ kind = "two clones" /\ Two!Init /\ NoScan
       \/ kind = "queue" /\ Scanning!InitQueue
StepKind ==
    /\ UNCHANGED kind
    /\ \/ kind = "one clone" /\ Next /\ UNCHANGED <<others, scanVars>>
       \/ kind = "two clones" /\ Two!Next /\ UNCHANGED queueVars
       \/ kind = "queue" /\ Scanning!NextQueue /\ UNCHANGED vars
KindSpec == InitKind /\ [][StepKind]_all

-----------------------------------------------------------------------------

\* The types of every kind.
TypesOK ==
    /\ TypeOK
    /\ kind = "two clones" => Two!TypeOK
    /\ kind = "queue" => Scanning!TypeOK /\ Scanning!ScanOK

\* Whatever git merges, a decision taken in another clone is never outvoted
\* silently, and pointers and edges stay sound. Queue: what a scan finds confirmed
\* is, and one that nobody disturbs misses nothing, raises no false alarm and
\* offers what can be decided.
ClonesAndQueue ==
    /\ [](kind = "two clones" => Two!DecisionsChained /\ Two!ReferencesResolve)
    /\ [][kind = "queue" => Scanning!FreshVerdict /\ Scanning!QuietVerdict]_all
=============================================================================

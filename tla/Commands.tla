------------------------------- MODULE Commands --------------------------------
(***************************************************************************)
(* The models of single commands side by side: ReviewSessions, Migration,  *)
(* KnowledgeNotes, Setup, Imports, Inbox, Logs, Resurfacing, Doctor and    *)
(* Grounding. They share neither state nor steps, since the code meets     *)
(* only through the layers below: a behaviour is one of a single model,    *)
(* `focus`, and the variables that model does not have are None. Variables *)
(* of the same name in several models are one variable here.               *)
(***************************************************************************)
EXTENDS Naturals, FiniteSets, Sequences

CONSTANTS Proc, MayCrash, None,
          Session, MaxOpen, MaxHead,    \* ReviewSessions
          Text,                         \* KnowledgeNotes
          User, Runs, Plan, MaxPlans, Edit, MayStop,   \* Setup
          Content,                      \* Imports, Inbox
          Files, MaxItems, Kept,        \* Inbox
          Texts, MaxTail, MaxSearches, MaxWrites, MaxTime, MaxKills,  \* Logs
          Notes, Units, Labels, Offers, MaxEntries, MaxCalls,         \* Resurfacing
          Bases, Inboxes, Machines,     \* Doctor
          Bundles, Responses, Answers   \* Grounding

VARIABLES focus,
          holder, pc, job,                      \* of most
          head, session, stored, decided,       \* ReviewSessions
          tree,                                 \* Migration, with head
          note, copy, aside,                    \* KnowledgeNotes
          edits, world, plan,                   \* Setup, with stored
          folder, outside, registry, temporary, \* Imports
          generation, source, scan, batch,      \* Inbox, with folder and registry
          now, recall, notes, left, judgments,  \* Logs
          events, written, logged, kills, searches, writes,
          current, history, opened, calls,      \* Resurfacing, with now and decided
          machine, report,                      \* Doctor
          default, filed                        \* Grounding

R == INSTANCE ReviewSessions
M == INSTANCE Migration
K == INSTANCE KnowledgeNotes
U == INSTANCE Setup WITH Proc <- User, MayCrash <- MayStop
A == INSTANCE Imports
X == INSTANCE Inbox
L == INSTANCE Logs
V == INSTANCE Resurfacing
D == INSTANCE Doctor
G == INSTANCE Grounding

ASSUME SessionsAssumed == R!SessionsAssumption
ASSUME MigrationAssumed == M!MigrationAssumption
ASSUME NotesAssumed == K!NotesAssumption
ASSUME SetupAssumed == U!SetupAssumption
ASSUME ImportsAssumed == A!ImportsAssumption
ASSUME InboxAssumed == X!InboxAssumption
ASSUME LogsAssumed == L!LogsAssumption
ASSUME ResurfacingAssumed == V!ResurfacingAssumption
ASSUME DoctorAssumed == D!DoctorAssumption
ASSUME GroundingAssumed == G!GroundingAssumption

logVars == <<recall, notes, left, judgments, events, written, logged, kills, searches, writes>>
all == <<focus, holder, pc, job, head, session, stored, decided, tree, note, copy, aside,
         edits, world, plan, folder, outside, registry, temporary, generation, source, scan,
         batch, now, logVars, current, history, opened, calls, machine, report, default, filed>>

\* The models that have a holder of a lock, program counters, and jobs.
Locking == {"reviewing", "migration", "knowledge", "setup", "imports", "logs", "resurfacing"}
Stepping == Locking \cup {"inbox"}
Employing == Locking \ {"migration"}

InitAll ==
    /\ \/ focus = "reviewing" /\ R!Init
       \/ focus = "migration" /\ M!Init
       \/ focus = "knowledge" /\ K!Init
       \/ focus = "setup" /\ U!Init
       \/ focus = "imports" /\ A!Init
       \/ focus = "inbox" /\ X!Init
       \/ focus = "logs" /\ L!Init
       \/ focus = "resurfacing" /\ V!Init
       \/ focus = "doctor" /\ D!Init
       \/ focus = "grounding" /\ G!Init
    /\ focus \notin Locking => holder = None
    /\ focus \notin Stepping => pc = None
    /\ focus \notin Employing => job = None
    /\ focus \notin {"reviewing", "migration"} => head = None
    /\ focus \notin {"reviewing", "setup"} => stored = None
    /\ focus \notin {"reviewing", "resurfacing"} => decided = None
    /\ focus \notin {"imports", "inbox"} => folder = None /\ registry = None
    /\ focus \notin {"logs", "resurfacing"} => now = None
    /\ focus # "reviewing" => session = None
    /\ focus # "migration" => tree = None
    /\ focus # "knowledge" => note = None /\ copy = None /\ aside = None
    /\ focus # "setup" => edits = None /\ world = None /\ plan = None
    /\ focus # "imports" => outside = None /\ temporary = None
    /\ focus # "inbox" => generation = None /\ source = None /\ scan = None /\ batch = None
    /\ focus # "logs" =>
           /\ recall = None /\ notes = None /\ left = None /\ judgments = None
           /\ events = None /\ written = None /\ logged = None /\ kills = None
           /\ searches = None /\ writes = None
    /\ focus # "resurfacing" =>
           current = None /\ history = None /\ opened = None /\ calls = None
    /\ focus # "doctor" => machine = None /\ report = None
    /\ focus # "grounding" => default = None /\ filed = None

\* What the model at work does not have stays.
OthersStay ==
    /\ UNCHANGED focus
    /\ focus \notin Locking => UNCHANGED holder
    /\ focus \notin Stepping => UNCHANGED pc
    /\ focus \notin Employing => UNCHANGED job
    /\ focus \notin {"reviewing", "migration"} => UNCHANGED head
    /\ focus \notin {"reviewing", "setup"} => UNCHANGED stored
    /\ focus \notin {"reviewing", "resurfacing"} => UNCHANGED decided
    /\ focus \notin {"imports", "inbox"} => UNCHANGED <<folder, registry>>
    /\ focus \notin {"logs", "resurfacing"} => UNCHANGED now
    /\ focus # "reviewing" => UNCHANGED session
    /\ focus # "migration" => UNCHANGED tree
    /\ focus # "knowledge" => UNCHANGED <<note, copy, aside>>
    /\ focus # "setup" => UNCHANGED <<edits, world, plan>>
    /\ focus # "imports" => UNCHANGED <<outside, temporary>>
    /\ focus # "inbox" => UNCHANGED <<generation, source, scan, batch>>
    /\ focus # "logs" => UNCHANGED logVars
    /\ focus # "resurfacing" => UNCHANGED <<current, history, opened, calls>>
    /\ focus # "doctor" => UNCHANGED <<machine, report>>
    /\ focus # "grounding" => UNCHANGED <<default, filed>>

Step ==
    /\ \/ focus = "reviewing" /\ R!Next
       \/ focus = "migration" /\ M!Next
       \/ focus = "knowledge" /\ K!Next
       \/ focus = "setup" /\ U!Next
       \/ focus = "imports" /\ A!Next
       \/ focus = "inbox" /\ X!Next
       \/ focus = "logs" /\ L!Next
       \/ focus = "resurfacing" /\ V!Next
       \/ focus = "doctor" /\ D!Next
       \/ focus = "grounding" /\ G!Next
    /\ OthersStay

SideBySide == InitAll /\ [][Step]_all

-----------------------------------------------------------------------------

\* The types of every model.
TypesOK ==
    CASE focus = "reviewing" -> R!TypeOK
      [] focus = "migration" -> M!TypeOK
      [] focus = "knowledge" -> K!TypeOK
      [] focus = "setup" -> U!TypeOK
      [] focus = "imports" -> A!TypeOK
      [] focus = "inbox" -> X!TypeOK
      [] focus = "logs" -> L!TypeOK
      [] focus = "resurfacing" -> V!TypeOK
      [] focus = "doctor" -> D!TypeOK
      [] focus = "grounding" -> G!TypeOK

\* ReviewSessions: a session decides once, about the card it showed.
DecidesOnce == [][focus = "reviewing" => R!FirstDecision]_all

\* Migration: what it left behind never keeps it from being finished, and when
\* it says so it is.
MigrationCompletes == [][focus = "migration" => M!OwnersChanges /\ M!Success]_all

\* What a command puts in place of an older file is what the owner approved of,
\* seeing that file. KnowledgeNotes: what becomes reviewed is the revision of the
\* card. Setup: the profile is compared with the one the owner agreed to replace,
\* and changed by no other command before it is replaced.
ReplacedAsApproved ==
    [][/\ focus = "knowledge" => K!ApprovedAsShown
       /\ focus = "setup" => U!ReplacedAsApproved]_all

\* Imports: a copy never takes a name in use, an Asset is recorded where its content
\* was read.
AddedAsRead == [][focus = "imports" => A!PutDownAndCaptured]_all

\* Inbox: a report of health or completeness is true of the folder it read.
\* Doctor: its verdict is what resolution, and setup, say of the machine.
ReportsAreTrue ==
    /\ focus = "inbox" => X!ReportsAreTrue
    /\ focus = "doctor" => D!DoctorIsTrue

\* Logs: what a command said is written stays written.
WrittenStays == focus = "logs" => L!WrittenStays

\* Resurfacing: what has waited longest comes first, whatever was forgotten,
\* and choosing perspectives undoes nobody's draft.
LongestUnseenFirst == focus = "resurfacing" => V!LongestUnseenFirst
OnlyPerspectives == [][focus = "resurfacing" => V!OnlyPerspectives]_all

\* Grounding: what is shown as evidence cites the text it was made from.
GroundedInText == focus = "grounding" => G!GroundedInText
=============================================================================

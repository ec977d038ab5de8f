-------------------------------- MODULE Folder ---------------------------------
(***************************************************************************)
(* The two ways in which material of the provider folder enters a          *)
(* knowledge base, side by side: AssetLifecycle, the commands of v1, with  *)
(* what Check reports of it, and Ingestion, those of v2. They share        *)
(* neither state nor steps: a knowledge base has one version. A behaviour  *)
(* is one of a single model, `focus`; meanwhile AssetLifecycle, which      *)
(* Check extends, has no file and no records, and the variables of         *)
(* Ingestion are None.                                                     *)
(***************************************************************************)
EXTENDS Check

CONSTANTS Pdf, Prose, Image, Ttl, MaxTime, Removals, Scan, MayCrash, MayDamage

VARIABLES focus,
          upload, registry, store, sessions, staged, cited,  \* of Ingestion
          clock, keeper, step, work

I == INSTANCE Ingestion WITH
         disk <- upload, now <- clock, holder <- keeper, pc <- step, job <- work

ASSUME IngestionAssumed == I!IngestionAssumption

ingesting == <<upload, registry, store, sessions, staged, cited, clock, keeper, step, work>>
all == <<focus, vars, ingesting>>

\* No file and no records.
Nothing ==
    /\ disk = None /\ bundle = {}
    /\ asset = [c \in Content |-> None] /\ source = [c \in Content |-> None]
    /\ lock = [c \in Content |-> None]
    /\ pc = [p \in Proc |-> "idle"] /\ job = [p \in Proc |-> NoJob]

NoIngesting ==
    /\ upload = None /\ registry = None /\ store = None /\ sessions = None
    /\ staged = None /\ cited = None /\ clock = None
    /\ keeper = None /\ step = None /\ work = None

InitAll ==
    \/ focus = "assets" /\ Init /\ NoIngesting
    \/ focus = "ingestion" /\ I!Init /\ Nothing

StepAny ==
    /\ UNCHANGED focus
    /\ \/ focus = "assets" /\ Next /\ UNCHANGED ingesting
       \/ focus = "ingestion" /\ I!Next /\ UNCHANGED vars

SideBySide == InitAll /\ [][StepAny]_all

-----------------------------------------------------------------------------

\* The types of both models.
TypesOK ==
    /\ TypeOK
    /\ focus = "ingestion" => I!TypeOK

\* Ingestion: what a session or a draft names is in a store, and each original
\* has its Asset.
EvidenceResolves == focus = "ingestion" => I!EvidenceResolves
=============================================================================

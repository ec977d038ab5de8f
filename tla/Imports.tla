-------------------------------- MODULE Imports --------------------------------
(***************************************************************************)
(* mko-core/src/add.rs: `mko add <file>` in the first version. A PDF that  *)
(* is outside the provider folder is copied into it; then the file there   *)
(* is captured as an Asset.                                                *)
(*                                                                         *)
(* The folder belongs to the owner and to the provider's own client, which *)
(* create, change and delete files at any moment and hold no lock. Imports *)
(* exclude each other with a lock the operating system drops when its      *)
(* process dies; what such a process leaves in the reserved temporary      *)
(* directory goes with the next import. The record of an Asset is          *)
(* published under the lock of its name (Publication), in one step here;   *)
(* what becomes of a captured Asset is in AssetLifecycle.                  *)
(***************************************************************************)
EXTENDS Naturals, FiniteSets

CONSTANTS Proc,
          Content,    \* what a PDF may contain
          MayCrash,   \* processes that may be killed
          None

\* A file is imported under its own name, or under one that has the hash of its
\* content in it; of the longer hashes the code goes on to, none is modelled.
Name == {"own"} \cup Content

VARIABLES
    folder,     \* folder[n]: what the file n of the provider folder contains
    outside,    \* what the file outside contains, or None
    registry,   \* registry[c]: where Asset c was captured, or None
    temporary,  \* temporary[p]: the copy p makes, in the reserved directory
    holder,     \* who holds .mko-import-naming.lock
    pc,
    job         \* job[p]: what p works on

vars == <<folder, outside, registry, temporary, holder, pc, job>>

NoJob == [content |-> None, target |-> None, verified |-> FALSE]

\* What is assumed of the constants.
ImportsAssumption == None \notin Proc \cup Content \cup Name /\ "part" \notin Content

TypeOK ==
    /\ folder \in [Name -> Content \cup {None}]
    /\ outside \in Content \cup {None}
    /\ registry \in [Content -> Name \cup {None}]
    /\ temporary \in [Proc -> Content \cup {"part", None}]
    /\ holder \in Proc \cup {None}
    /\ pc \in [Proc -> {"idle", "waiting", "naming", "copying", "linking", "capture", "publishing"}]
    /\ job \in [Proc -> [content : Content \cup {None}, target : Name \cup {None},
                         verified : BOOLEAN]]

Init ==
    /\ folder \in {f \in [Name -> Content \cup {None}] : \A c \in Content : f[c] = None}
    /\ outside \in Content
    /\ registry = [c \in Content |-> None]
    /\ temporary = [p \in Proc |-> None]
    /\ holder = None
    /\ pc = [p \in Proc |-> "idle"]
    /\ job = [p \in Proc |-> NoJob]

At(p, s) == pc[p] = s
Goto(p, s) == pc' = [pc EXCEPT ![p] = s]
Work(p, c, n, v) == job' = [job EXCEPT ![p] = [content |-> c, target |-> n, verified |-> v]]

\* Every end of an import drops the lock and its own temporary directory.
End(p) ==
    /\ Goto(p, "idle")
    /\ job' = [job EXCEPT ![p] = NoJob]
    /\ holder' = IF holder = p THEN None ELSE holder
    /\ temporary' = [temporary EXCEPT ![p] = None]

-----------------------------------------------------------------------------
(* What add is to do *)

\* load_existing_asset and the scan: a captured Asset must be where it was
\* captured.
ReuseCaptured(p, c) ==
    /\ At(p, "idle")
    /\ registry[c] # None /\ folder[registry[c]] = c
    /\ c = outside \/ \E n \in Name : folder[n] = c
    /\ Work(p, c, registry[c], FALSE)
    /\ Goto(p, "capture")
    /\ UNCHANGED <<folder, outside, registry, temporary, holder>>

\* A file of the folder itself: it may be the only copy, so the owner must have
\* verified a backup.
TakeInside(p, n) ==
    /\ At(p, "idle")
    /\ folder[n] # None /\ registry[folder[n]] = None
    /\ Work(p, folder[n], n, FALSE)
    /\ Goto(p, "capture")
    /\ UNCHANGED <<folder, outside, registry, temporary, holder>>

\* The file outside has a copy in the folder already.
ReuseCopy(p, n) ==
    /\ At(p, "idle")
    /\ outside # None /\ registry[outside] = None /\ folder[n] = outside
    /\ Work(p, outside, n, FALSE)
    /\ Goto(p, "capture")
    /\ UNCHANGED <<folder, outside, registry, temporary, holder>>

\* It has none.
BeginImport(p, v) ==
    /\ At(p, "idle")
    /\ outside # None /\ registry[outside] = None
    /\ \A n \in Name : folder[n] # outside
    /\ Work(p, outside, None, v)
    /\ Goto(p, "waiting")
    /\ UNCHANGED <<folder, outside, registry, temporary, holder>>

-----------------------------------------------------------------------------
(* import_outside_pdf *)

\* What is found in the reserved directory goes, if its marker and its names say
\* that imports left it; a directory of anybody else is an error (Fail).
Reset == temporary' = [q \in Proc |-> None]

\* ImportLock::acquire, and the reserved directory is reset.
Acquire(p) ==
    /\ At(p, "waiting")
    /\ holder = None /\ holder' = p
    /\ Reset
    /\ Goto(p, "naming")
    /\ UNCHANGED <<folder, outside, registry, job>>

\* The content is under name n: the lock is dropped.
Placed(p, n) ==
    /\ Work(p, job[p].content, n, FALSE)
    /\ Goto(p, "capture")
    /\ holder' = None

\* available_destination_name, and the look at the destination: a file with the
\* content is the import, another content means the other name.
Choose(p) ==
    LET c == job[p].content
        Free(n) == folder[n] \in {None, c}
        Target == IF Free("own") THEN "own" ELSE c
    IN
    /\ At(p, "naming")
    /\ Free(Target)
    /\ IF folder[Target] = c
       THEN Placed(p, Target) /\ UNCHANGED temporary
       ELSE /\ Work(p, c, Target, job[p].verified)
            /\ temporary' = [temporary EXCEPT ![p] = "part"]
            /\ Goto(p, "copying")
            /\ UNCHANGED holder
    /\ UNCHANGED <<folder, outside, registry>>

\* copy_exact_snapshot; the open file and the copy must have the content still,
\* and without a verified backup the original must be in its place.
OriginalStands(p) == job[p].verified \/ outside = job[p].content

Copy(p) ==
    /\ At(p, "copying")
    /\ OriginalStands(p)
    /\ temporary' = [temporary EXCEPT ![p] = job[p].content]
    /\ Goto(p, "linking")
    /\ UNCHANGED <<folder, outside, registry, holder, job>>

\* Mutant of Link: a rename.
LinkOver(p) ==
    /\ At(p, "linking")
    /\ folder' = [folder EXCEPT ![job[p].target] = temporary[p]]
    /\ temporary' = [temporary EXCEPT ![p] = None]
    /\ Placed(p, job[p].target)
    /\ UNCHANGED <<outside, registry>>

\* A hard link to a name that is free; otherwise a file with this content will
\* do, and with another the choice begins again.
Link(p) ==
    LET c == job[p].content
        n == job[p].target
    IN
    /\ At(p, "linking")
    /\ folder' = IF folder[n] = None THEN [folder EXCEPT ![n] = temporary[p]] ELSE folder
    /\ temporary' = [temporary EXCEPT ![p] = None]
    /\ IF folder[n] \in {None, c}
       THEN Placed(p, n)
       ELSE Goto(p, "naming") /\ UNCHANGED <<holder, job>>
    /\ UNCHANGED <<outside, registry>>

-----------------------------------------------------------------------------

\* Mutant of ReadSelected: the file was read a moment ago.
ReadNothing(p) ==
    /\ At(p, "capture")
    /\ Goto(p, "publishing")
    /\ UNCHANGED <<folder, outside, registry, temporary, holder, job>>

\* capture_asset with the snapshot that was selected: what is at the name is
\* opened, and must have the content still. Reading it again before the record is
\* written goes to the open file, whatever has become of the name; a change of
\* that file is an error (Fail).
ReadSelected(p) ==
    /\ At(p, "capture")
    /\ folder[job[p].target] = job[p].content
    /\ Goto(p, "publishing")
    /\ UNCHANGED <<folder, outside, registry, temporary, holder, job>>

\* write_new: an Asset that is there already stays as it is.
Capture(p) ==
    /\ At(p, "publishing")
    /\ registry' = [registry EXCEPT ![job[p].content] = IF @ = None THEN job[p].target ELSE @]
    /\ End(p)
    /\ UNCHANGED <<folder, outside>>

\* An error anywhere, or the lock cannot be had in time.
Fail(p) ==
    /\ ~At(p, "idle")
    /\ End(p)
    /\ UNCHANGED <<folder, outside, registry>>

\* p is killed: its temporary file stays.
Crash(p) ==
    /\ p \in MayCrash
    /\ pc[p] \in {"copying", "linking"}
    /\ Goto(p, "idle")
    /\ job' = [job EXCEPT ![p] = NoJob]
    /\ holder' = None
    /\ UNCHANGED <<folder, outside, registry, temporary>>

\* The owner or the provider's client writes or deletes a file.
Meddle ==
    /\ \/ \E n \in Name, c \in Content \cup {None} :
              /\ folder' = [folder EXCEPT ![n] = c]
              /\ folder' # folder
              /\ UNCHANGED outside
       \/ /\ outside' \in (Content \cup {None}) \ {outside}
          /\ UNCHANGED folder
    /\ UNCHANGED <<registry, temporary, holder, pc, job>>

Next ==
    \/ \E p \in Proc, v \in BOOLEAN : BeginImport(p, v)
    \/ \E p \in Proc, c \in Content : ReuseCaptured(p, c)
    \/ \E p \in Proc, n \in Name : TakeInside(p, n) \/ ReuseCopy(p, n)
    \/ \E p \in Proc :
           \/ Acquire(p) \/ Choose(p) \/ Copy(p) \/ Link(p) \/ ReadSelected(p) \/ Capture(p)
           \/ Fail(p) \/ Crash(p)
    \/ Meddle

Spec == Init /\ [][Next]_vars

-----------------------------------------------------------------------------
(* Properties *)

\* Whoever else is at work in the folder: an import puts down the whole content
\* it was asked for, under a name nobody uses, and an Asset is recorded once, at
\* the name where its content was when that was opened to be captured. What is
\* there when the record is written, no lock could say.
PutDownAndCaptured ==
    /\ \A p \in Proc : At(p, "linking") /\ folder' # folder =>
           \/ pc'[p] = "linking"
           \/ \E n \in Name : /\ folder[n] = None
                              /\ folder' = [folder EXCEPT ![n] = job[p].content]
    /\ \A p \in Proc : At(p, "capture") /\ pc'[p] = "publishing" =>
           job'[p] = job[p] /\ folder[job[p].target] = job[p].content
    /\ \A c \in Content : registry'[c] # registry[c] =>
           /\ registry[c] = None
           /\ \E p \in Proc : /\ At(p, "publishing")
                              /\ job[p].content = c /\ job[p].target = registry'[c]
AddedAsRead == [][PutDownAndCaptured]_vars
=============================================================================

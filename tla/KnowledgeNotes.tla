---------------------------- MODULE KnowledgeNotes ----------------------------
(***************************************************************************)
(* mko-core/src/knowledge.rs: the Knowledge note of one Asset in the first *)
(* version.                                                                *)
(*                                                                         *)
(* Writing and approving a note take no repository lock. Both scan the     *)
(* notes, and publish with a compare-and-exchange that moves the old file  *)
(* aside first (Publication); only a note that seems not to exist is       *)
(* linked straight to its name. The owner edits notes with any editor. A   *)
(* process may be killed at any point.                                     *)
(*                                                                         *)
(* A revision is the digest of title, Asset, concepts and body: here, the  *)
(* text itself. The limits of a scan are left out; one that hits them is a *)
(* command that stops.                                                     *)
(***************************************************************************)
EXTENDS Naturals

CONSTANTS Proc,
          Text,       \* what a note may say
          MayCrash,   \* processes that may be killed
          None

VARIABLES
    note,       \* the file under the note's canonical name, or None
    copy,       \* whether the owner keeps a second file with the note's ID
    aside,      \* aside[p]: the file p moved aside, kept when p cannot restore it
    holder,     \* who holds the publication lock of the note
    pc,
    job         \* job[p]: what p works on

vars == <<note, copy, aside, holder, pc, job>>

\* KnowledgeRecord: what the note says, the revision it says it has, the
\* approval. The approval of an older revision stays beside "unreviewed".
Note == [text : Text, revision : Text, approved : Text \cup {None}, reviewed : BOOLEAN]
NoJob == [seen |-> None, new |-> None, shown |-> None]

\* What is assumed of the constants.
NotesAssumption == None \notin Proc \cup Text \cup Note

TypeOK ==
    /\ note \in Note \cup {None}
    /\ copy \in BOOLEAN
    /\ aside \in [Proc -> Note \cup {None}]
    /\ holder \in Proc \cup {None}
    /\ pc \in [Proc -> {"idle", "create", "shown", "replace", "exchange"}]
    /\ job \in [Proc -> [seen : Note \cup {None}, new : Note \cup {None},
                         shown : Text \cup {None}]]

Init ==
    /\ note = None /\ copy = FALSE
    /\ aside = [p \in Proc |-> None]
    /\ holder = None
    /\ pc = [p \in Proc |-> "idle"]
    /\ job = [p \in Proc |-> NoJob]

At(p, s) == pc[p] = s
Goto(p, s) == pc' = [pc EXCEPT ![p] = s]
Set(p, j) == job' = [job EXCEPT ![p] = j]
End(p) ==
    /\ Goto(p, "idle")
    /\ Set(p, NoJob)
    /\ holder' = IF holder = p THEN None ELSE holder

-----------------------------------------------------------------------------
(* Reading *)

\* calculate_knowledge_revision, compared with what the note says it has.
Current(n) == n.revision = n.text

\* validate_knowledge_record: reviewed is reviewed as it is; of an unreviewed
\* note nothing follows. The other issues need a note mko did not write.
Canonical(n) == n.reviewed => n.approved = n.text

\* find_knowledge: a scan of all the notes, and two of one ID are a conflict.
Found == IF copy /\ note # None THEN "conflict" ELSE "one"

Draft(t, old) ==
    [text |-> t, revision |-> t, approved |-> IF old = None THEN None ELSE old.approved,
     reviewed |-> FALSE]

-----------------------------------------------------------------------------
(* Writing *)

\* write_knowledge_note when it goes on: another text than the one that is
\* there needs --replace.
Write(p, t) ==
    /\ At(p, "idle")
    /\ Found = "one"
    /\ note # None => Canonical(note) /\ Current(note) /\ note.text # t
    /\ Set(p, [NoJob EXCEPT !.seen = note, !.new = Draft(t, note)])
    /\ Goto(p, IF note = None THEN "create" ELSE "replace")
    /\ UNCHANGED <<note, copy, aside, holder>>

\* write_new_knowledge_capability: a hard link. A file that is there already
\* is compared, and left alone (validate_existing_knowledge).
Create(p) ==
    /\ At(p, "create")
    /\ note' = IF note = None THEN job[p].new ELSE note
    /\ End(p)
    /\ UNCHANGED <<copy, aside>>

-----------------------------------------------------------------------------
(* Approving *)

\* list_unreviewed_knowledge and knowledge_review: the note as it is, with the
\* revision it says it has.
Show(p) ==
    /\ At(p, "idle")
    /\ note # None /\ ~note.reviewed
    /\ Set(p, [NoJob EXCEPT !.shown = note.revision])
    /\ Goto(p, "shown")
    /\ UNCHANGED <<note, copy, aside, holder>>

Approval(p, n) ==
    [NoJob EXCEPT !.seen = n, !.shown = job[p].shown,
                  !.new = [n EXCEPT !.reviewed = TRUE, !.approved = n.text]]

\* Mutant of Approve: the note is what its own revision says, and the one the
\* card showed is not asked for.
ApproveWhatIsThere(p) ==
    /\ At(p, "shown")
    /\ note # None /\ Found = "one"
    /\ Canonical(note) /\ Current(note)
    /\ Set(p, Approval(p, note))
    /\ Goto(p, "replace")
    /\ UNCHANGED <<note, copy, aside, holder>>

\* approve_knowledge: the note is found again, and must have the revision the
\* card showed.
Approve(p) ==
    /\ At(p, "shown")
    /\ note # None /\ Found = "one"
    /\ Canonical(note) /\ Current(note) /\ note.revision = job[p].shown
    /\ Set(p, Approval(p, note))
    /\ Goto(p, "replace")
    /\ UNCHANGED <<note, copy, aside, holder>>

-----------------------------------------------------------------------------
(* Exchange: write_replace_capability_compare_exchange_validated_at_commit *)

\* The old file is moved aside, whatever it is by now.
MoveAside(p) ==
    /\ At(p, "replace")
    /\ holder = None /\ holder' = p
    /\ note # None /\ aside[p] = None
    /\ aside' = [aside EXCEPT ![p] = note]
    /\ note' = None
    /\ Goto(p, "exchange")
    /\ UNCHANGED <<copy, job>>

\* It is what was read, byte for byte and by its revision
\* (validate_expected_knowledge_snapshot), and the name is still free.
Exchange(p) ==
    /\ At(p, "exchange")
    /\ note = None /\ aside[p] = job[p].seen
    /\ note' = job[p].new
    /\ aside' = [aside EXCEPT ![p] = None]
    /\ End(p)
    /\ UNCHANGED copy

\* It is not, or something fails: what was moved goes back unless the name is
\* taken, and then both are kept.
Restore(p) ==
    /\ At(p, "exchange")
    /\ IF note = None
       THEN note' = aside[p] /\ aside' = [aside EXCEPT ![p] = None]
       ELSE UNCHANGED <<note, aside>>
    /\ End(p)
    /\ UNCHANGED copy

-----------------------------------------------------------------------------

\* An error, an answer that is not "approve", or a text that is there already.
Stop(p) ==
    /\ pc[p] \in {"create", "shown", "replace"}
    /\ End(p)
    /\ UNCHANGED <<note, copy, aside>>

\* p is killed; what it moved aside stays there.
Crash(p) ==
    /\ p \in MayCrash
    /\ ~At(p, "idle")
    /\ End(p)
    /\ UNCHANGED <<note, copy, aside>>

\* The owner edits the text, and not the revision above it.
EditNote(t) ==
    /\ note # None /\ note.text # t
    /\ note' = [note EXCEPT !.text = t]
    /\ UNCHANGED <<copy, aside, holder, pc, job>>

Copy ==
    /\ note # None
    /\ copy' = ~copy
    /\ UNCHANGED <<note, aside, holder, pc, job>>

Next ==
    \/ \E p \in Proc, t \in Text : Write(p, t)
    \/ \E p \in Proc :
           \/ Create(p) \/ Show(p) \/ Approve(p) \/ MoveAside(p) \/ Exchange(p)
           \/ Restore(p) \/ Stop(p) \/ Crash(p)
    \/ \E t \in Text : EditNote(t)
    \/ Copy

Spec == Init /\ [][Next]_vars

-----------------------------------------------------------------------------
(* Properties *)

\* What becomes reviewed is the text whose revision the owner saw on the card,
\* however often the note was edited, replaced or approved in between.
ApprovedAsShown ==
    \A p \in Proc :
        LET Approved == /\ At(p, "exchange") /\ pc'[p] = "idle"
                        /\ note = None /\ note' # None /\ note' # aside[p] /\ note'.reviewed
        IN  Approved => note'.text = job[p].shown /\ note'.approved = note'.text
ReviewedAsShown == [][ApprovedAsShown]_vars
=============================================================================

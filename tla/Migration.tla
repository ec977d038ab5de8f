------------------------------ MODULE Migration ------------------------------
(***************************************************************************)
(* mko-core/src/migrate_v2.rs: `mko migrate`, which brings a knowledge     *)
(* base of contract 0.3.0 to 0.3.1. The contract is stamped first, then    *)
(* the view of the old vocabulary is retired, file and manifest entry, and *)
(* then the dashboard is repaired. Git is to be the rollback: a knowledge  *)
(* base that is still to be stamped must have no uncommitted changes. One  *)
(* that is stamped is finished, whatever its tree looks like.              *)
(*                                                                         *)
(* The look at git takes no lock; the stamp and the retirement hold the    *)
(* repository mutation lock (LockFiles), and the repair of the dashboard   *)
(* holds it again. The exchange of the config moves the file aside first   *)
(* (Publication). Every other v2 command refuses the old contract. Of the  *)
(* dashboard there is the file that replaces the retired one; Projection   *)
(* has the rest.                                                           *)
(***************************************************************************)

CONSTANTS Proc,
          MayCrash,   \* processes that may be killed
          None

VARIABLES
    tree,      \* the working tree
    head,      \* the last commit
    holder,    \* who holds the repository mutation lock
    pc

vars == <<tree, head, holder, pc>>

\* knowledge-os.yaml and what its exchange moved aside; views/review-queue.base and
\* its entry in the generated manifest; views/unconfirmed.base.
File == {"ours", "theirs", None}
Tree == [contract : {"old", "current", None}, aside : BOOLEAN,
         retired : File, entry : BOOLEAN, view : File]

\* What is assumed of the constants.
MigrationAssumption == None \notin Proc \cup {"old", "current", "ours", "theirs"}

TypeOK ==
    /\ tree \in Tree /\ head \in Tree
    /\ holder \in Proc \cup {None}
    /\ pc \in [Proc -> {"idle", "lock", "resume", "stamp", "link", "retire", "unlist",
                        "repair", "done"}]

\* A knowledge base of the old contract, and one in which the retired view was
\* never generated.
Init ==
    /\ \E generated \in BOOLEAN :
          tree = [contract |-> "old", aside |-> FALSE, entry |-> generated,
                  retired |-> IF generated THEN "ours" ELSE None, view |-> None]
    /\ head = tree
    /\ holder = None
    /\ pc = [p \in Proc |-> "idle"]

Goto(p, s) == pc' = [pc EXCEPT ![p] = s]
At(p, s) == pc[p] = s
Resting(p) == pc[p] \in {"idle", "done"}
Change(field, value) == tree' = [tree EXCEPT ![field] = value]

\* migrate_v2, up to the lock: a contract that is current is resumed, and else
\* the tree must be clean (require_clean_git_tree).
Migrate(p) ==
    /\ Resting(p)
    /\ \/ tree.contract = "current" /\ Goto(p, "resume")
       \/ tree.contract = "old" /\ tree = head /\ Goto(p, "lock")
    /\ UNCHANGED <<tree, head, holder>>

\* Read again under the lock: another process may have stamped it.
Lock(p) ==
    /\ holder = None /\ holder' = p
    /\ At(p, "lock") /\ tree.contract = "old"
    /\ Goto(p, "stamp")
    /\ UNCHANGED <<tree, head>>

\* Mutant of Resume: the retirement was done together with the stamp.
ResumeWithRepair(p) ==
    /\ holder = None
    /\ At(p, "resume")
    /\ Goto(p, "repair")
    /\ UNCHANGED <<tree, head, holder>>

Resume(p) ==
    /\ holder = None /\ holder' = p
    /\ At(p, "resume")
    /\ Goto(p, "retire")
    /\ UNCHANGED <<tree, head>>

\* stamp_contract_version_locked
MoveAside(p) ==
    /\ At(p, "stamp")
    /\ tree.contract = "old"
    /\ tree' = [tree EXCEPT !.contract = None, !.aside = TRUE]
    /\ Goto(p, "link")
    /\ UNCHANGED <<head, holder>>

Link(p) ==
    /\ At(p, "link")
    /\ tree' = [tree EXCEPT !.contract = "current", !.aside = FALSE]
    /\ Goto(p, "retire")
    /\ UNCHANGED <<head, holder>>

\* retire_generated_dashboard_file_locked_v2 removes the file, whosever it is.
Retire(p) ==
    /\ At(p, "retire")
    /\ Change("retired", None)
    /\ Goto(p, "unlist")
    /\ UNCHANGED <<head, holder>>

Unlist(p) ==
    /\ At(p, "unlist")
    /\ Change("entry", FALSE)
    /\ Goto(p, "repair")
    /\ holder' = None
    /\ UNCHANGED head

\* repair_dashboard_v2 refuses a view the owner edited.
Repair(p) ==
    /\ At(p, "repair")
    /\ holder = None
    /\ tree.contract = "current" /\ tree.view # "theirs"
    /\ Change("view", "ours")
    /\ Goto(p, "done")
    /\ UNCHANGED <<head, holder>>

End(p) ==
    /\ Goto(p, "idle")
    /\ holder' = IF holder = p THEN None ELSE holder

\* A refusal or an error; the exchange puts the config back.
Fail(p) ==
    /\ ~Resting(p)
    /\ End(p)
    /\ tree' = IF At(p, "link") THEN [tree EXCEPT !.contract = "old", !.aside = FALSE] ELSE tree
    /\ UNCHANGED head

Crash(p) ==
    /\ p \in MayCrash
    /\ ~Resting(p)
    /\ End(p)
    /\ UNCHANGED <<tree, head>>

-----------------------------------------------------------------------------
(* The owner *)

\* mko dashboard --repair, between the lines of a migration.
Dashboard ==
    /\ holder = None
    /\ tree.contract = "current" /\ tree.view # "theirs"
    /\ Change("view", "ours")
    /\ UNCHANGED <<head, holder, pc>>

EditTree ==
    /\ \E field \in {"retired", "view"} : Change(field, "theirs")
    /\ UNCHANGED <<head, holder, pc>>

Commit ==
    /\ tree.contract # None
    /\ head' = tree
    /\ UNCHANGED <<tree, holder, pc>>

Untracked == {file \in {"retired", "view"} : head[file] = None}
             \cup {file \in {"aside"} : ~head.aside}

\* git checkout . brings back what is committed and leaves untracked files,
\* while no migration runs.
Checkout ==
    /\ \A p \in Proc : Resting(p)
    /\ tree' = [x \in DOMAIN tree |-> IF x \in Untracked THEN tree[x] ELSE head[x]]
    /\ UNCHANGED <<head, holder, pc>>

Next ==
    \/ \E p \in Proc :
           \/ Migrate(p) \/ Lock(p) \/ Resume(p) \/ MoveAside(p) \/ Link(p) \/ Retire(p)
           \/ Unlist(p) \/ Repair(p) \/ Fail(p) \/ Crash(p)
    \/ Dashboard \/ EditTree \/ Commit \/ Checkout

Spec == Init /\ [][Next]_vars

-----------------------------------------------------------------------------
(* Properties *)

\* A tree that is refused as dirty before the stamp is so by what its owner
\* did, or by files of a migration he took back: no migration that fails or is
\* killed leaves the old contract with changes of its own.
OwnersChanges ==
    tree.contract = "old" =>
        tree.entry = head.entry /\ tree.retired \in {head.retired, "theirs"}

\* A migration that reports success, the first or one that resumes what others
\* left behind, leaves nothing of the old vocabulary.
Success ==
    \A p \in Proc :
        At(p, "repair") /\ pc'[p] = "done" =>
            /\ tree'.contract = "current" /\ tree'.view = "ours"
            /\ ~tree'.entry /\ tree'.retired # "ours"
MigrationCompletes == [][OwnersChanges /\ Success]_vars
=============================================================================

------------------------------- MODULE Check --------------------------------
(***************************************************************************)
(* mko-core/src/check.rs: `mko check`, what the owner is told of the       *)
(* Assets and Sources that commands have left, and the repairs it names.   *)
(* It reads and writes nothing, so it has no steps of its own: it is what  *)
(* it says of a state of AssetLifecycle.                                   *)
(***************************************************************************)
EXTENDS AssetLifecycle

\* validate_source: it names the revision of what it says, and so does its
\* approval; a draft's Asset is in review, an approved Source's is done.
SourceIssues(c) ==
    {issue \in {"revision_mismatch", "approval_stale", "relation_missing",
                "source_state_mismatch"} :
        /\ source[c] # None
        /\ CASE issue = "revision_mismatch" -> ~Canonical(c)
             [] issue = "approval_stale" -> source[c].approved /\ ~Canonical(c)
             [] issue = "relation_missing" -> ~Registered(c)
             [] issue = "source_state_mismatch" ->
                    \/ Pending(c) /\ In(c, AssetStatus \ {"review_pending"})
                    \/ Approved(c) /\ In(c, AssetStatus \ {"processed"})}

\* inspect_files, per Asset: the record it replaces, its successor, its Source.
AssetIssues(c) ==
    {issue \in {"supersedes_missing", "lineage_repair_needed",
                "source_missing", "source_state_mismatch"} :
        CASE issue = "supersedes_missing" ->
                 /\ Registered(c)
                 /\ asset[c].supersedes # None
                 /\ ~Registered(asset[c].supersedes)
          [] issue = "lineage_repair_needed" ->
                 In(c, {"changed"}) /\ Successors(c) # {}
          [] issue = "source_missing" ->
                 In(c, {"review_pending"}) /\ ~(Pending(c) /\ Canonical(c))
          [] issue = "source_state_mismatch" ->
                 In(c, {"processed"}) /\ ~(Approved(c) /\ Canonical(c))}

\* inspect_locks: the file of a lock, whoever holds it and however old it is.
LockIssues(c) == IF lock[c] = None THEN {} ELSE {"lock_held"}

Issues(c) == SourceIssues(c) \cup AssetIssues(c) \cup LockIssues(c)

-----------------------------------------------------------------------------

\* repair_source_state has something to do, and the move it asks for is allowed.
Repairable(c) ==
    \/ RepairTo(c) = "stale"
    \/ RepairTo(c) # None /\ CanMove(asset[c], RepairTo(c))

\* Whatever commands leave behind when they stop half-way, between two writes
\* or two commands, and whatever is edited between them: what `mko check` finds
\* wrong with an Asset that is where its file is, or superseded, is exactly
\* what `mko source repair-state` mends, unless the Source has been edited by
\* hand. Of that one check reports the revision, whatever else it advises, and
\* no repair is made of it: it has to say again what it said.
ReportsRepairable ==
    \A c \in Content :
        In(c, Stable \cup {"superseded"}) /\ lock[c] = None =>
            IF Canonical(c) THEN Issues(c) # {} <=> Repairable(c)
            ELSE "revision_mismatch" \in Issues(c) /\ ~Repairable(c)
=============================================================================

----------------------------- MODULE AssetStates -----------------------------
(***************************************************************************)
(* mko-core/src/state.rs: the states of an Asset record, the table of its  *)
(* transitions, the checkpoints a recoverable state keeps, and the         *)
(* validation every reader of the registry applies.                        *)
(***************************************************************************)
EXTENDS Naturals, Sequences

Stable == {"registered", "extracted", "review_pending", "processed"}
Recoverable == {"changed", "missing", "failed"}
AssetStatus == Stable \cup Recoverable \cup {"superseded"}

\* transition_allowed, as the set of its pairs.
Allowed ==
    {<<"registered", "extracted">>, <<"extracted", "review_pending">>,
     <<"review_pending", "processed">>,
     <<"changed", "superseded">>, <<"superseded", "failed">>}
    \cup (Stable \X Recoverable)
    \cup ({"changed", "missing"} \X (Stable \cup {"failed"}))
    \cup ({"failed"} \X (AssetStatus \ {"failed"}))

Top(history) == history[Len(history)]

\* A move out of a recoverable state goes back to its checkpoint, except that
\* it may fail, and that a changed Asset may be superseded.
Recovers(from, to) ==
    /\ from \in Recoverable
    /\ to # "failed"
    /\ ~(from = "changed" /\ to = "superseded")

CanMove(asset, to) ==
    /\ <<asset.status, to>> \in Allowed
    /\ Recovers(asset.status, to) =>
           asset.history # <<>> /\ Top(asset.history) = to

\* Mutant of Moved: a recovery leaves its checkpoint in the history.
MovedKeeping(asset, to) ==
    [asset EXCEPT !.status = to,
                  !.history = IF to \in Recoverable
                              THEN Append(@, asset.status) ELSE @,
                  !.step = IF to \in Stable THEN to ELSE @]

\* transition_asset, when it succeeds. The last successful step is named by the
\* stable state it stands for.
Moved(asset, to) ==
    [asset EXCEPT !.status = to,
                  !.history =
                      IF Recovers(asset.status, to) THEN SubSeq(@, 1, Len(@) - 1)
                      ELSE IF to \in Recoverable THEN Append(@, asset.status)
                      ELSE @,
                  !.step = IF to \in Stable THEN to ELSE @]

\* The stable state an Asset is in or will recover to.
Base(asset) == IF asset.history = <<>> THEN asset.status ELSE asset.history[1]

\* validate_asset_state
Valid(asset) ==
    /\ asset.status \in Stable => asset.history = <<>>
    /\ asset.status \notin Stable =>
           /\ Len(asset.history) \in {1, 2}
           /\ asset.history[1] \in Stable
           /\ Len(asset.history) = 2 =>
                  <<asset.history[1], asset.history[2]>> \in Allowed
           /\ IF asset.status = "superseded" THEN Len(asset.history) = 1
              ELSE <<Top(asset.history), asset.status>> \in Allowed
    /\ Base(asset) \in Stable => asset.step = Base(asset)
=============================================================================

----------------------------- MODULE Publication -----------------------------
(***************************************************************************)
(* mko-core/src/atomic.rs: how one destination file is published.          *)
(*                                                                         *)
(* A publisher first takes the publication lock of the destination         *)
(* (.<file>.publish.lock), retrying within its deadlines, then runs one of *)
(* the commits - write_new, write_replace with or without a check of what  *)
(* is replaced, compare-exchange - and takes the lock away again through a *)
(* quarantine. Programs that know nothing of the lock (an editor, git, a   *)
(* sync client) replace or delete the destination at any moment. Each file *)
(* operation is one step.                                                  *)
(***************************************************************************)
EXTENDS Naturals

CONSTANTS Proc,      \* publishing processes; one destination
          Edit,      \* contents other programs may put there, each once
          Old,       \* the content before anything happens
          Ops,       \* commits in use
          MaxTries,  \* acquisitions retried before the deadlines pass
          MayCrash,
          Faults,    \* "scan": a scan of the directory misses its deadline;
                     \* "read": the release cannot read its file in time;
                     \* "io": a write, link, unlink or directory sync fails;
                     \* "young": a dead owner's record is not yet past
                     \* PUBLICATION_STALE_TTL
          None

Commit == {"new", "replace", "checked", "cas"}

ASSUME ConstantsAssumption ==
    /\ Ops \subseteq Commit
    /\ MaxTries \in Nat
    /\ MayCrash \subseteq Proc
    /\ Faults \subseteq {"scan", "read", "io", "young"}
    /\ None \notin Proc \cup Edit \cup {Old}

Content == Proc \cup Edit \cup {Old}      \* process p publishes content p
Pc == {"idle", "scan", "resolve", "create", "write", "recheck",
       "check", "rename", "move", "compare", "link", "drop", "restore",
       "rmRename", "rmVerify", "rmRestored"}
Res == {"none", "retry", "ok", "existing", "missing", "changed", "failed",
        "locked", "timeout", "invalid"}

VARIABLES
    dest,      \* content under the public name
    kept,      \* contents of .displaced entries that were left behind
    lock,      \* owner of the file on the lock's name
    lockq,     \* lockq[n]: file under .cleanup-<n's token>
    alive,
    pc, op, expected, disp, todo, tries, saw, res,  \* of each call
    owed       \* ghost: contents nobody has replaced knowingly, but for those
               \* of other programs that took their chance with a rename

lockVars == <<lock, lockq>>
fileVars == <<dest, kept, owed>>
callVars == <<op, expected>>
tryVars  == <<todo, tries, saw>>
vars == <<lockVars, fileVars, callVars, tryVars, alive, pc, disp, res>>

TypeOK ==
    /\ dest \in Content \cup {None}
    /\ kept \subseteq Content
    /\ lock \in Proc \cup {None}
    /\ lockq \in [Proc -> Proc \cup {None}]
    /\ alive \subseteq Proc
    /\ pc \in [Proc -> Pc]
    /\ op \in [Proc -> Commit]
    /\ expected \in [Proc -> Content \cup {None}]
    /\ disp \in [Proc -> Content \cup {None}]
    /\ todo \in [Proc -> SUBSET Proc]
    /\ tries \in [Proc -> 0..MaxTries]
    /\ saw \in [Proc -> BOOLEAN]
    /\ res \in [Proc -> Res]
    /\ owed \subseteq Content

Init ==
    /\ dest \in {Old, None}
    /\ kept = {} /\ lock = None /\ alive = Proc
    /\ lockq = [n \in Proc |-> None]
    /\ pc = [p \in Proc |-> "idle"]
    /\ op = [p \in Proc |-> "new"]
    /\ expected = [p \in Proc |-> None]
    /\ disp = [p \in Proc |-> None]
    /\ todo = [p \in Proc |-> {}]
    /\ tries = [p \in Proc |-> 0]
    /\ saw = [p \in Proc |-> FALSE]
    /\ res = [p \in Proc |-> "none"]
    /\ owed = {dest} \ {None}

At(p, s) == p \in alive /\ pc[p] = s
Goto(p, s) == pc' = [pc EXCEPT ![p] = s]
Entries == {n \in Proc : lockq[n] # None}
StaleRecord(n) == lockq[n] # None /\ n \notin alive

\* The call will not look at the destination (again).
Over(p) == \/ pc[p] = "idle"
           \/ /\ pc[p] \in {"rmRename", "rmVerify", "rmRestored"}
              /\ res[p] = "retry" => tries[p] = MaxTries

-----------------------------------------------------------------------------
(* CapabilityPublicationLock::acquire and PublicationLock::acquire *)

\* The caller has read the destination before it asks to replace it.
Begin(p) ==
    /\ At(p, "idle")
    /\ \E o \in Ops : (o # "new" => dest # None) /\ op' = [op EXCEPT ![p] = o]
    /\ expected' = [expected EXCEPT ![p] =
                       IF op'[p] \in {"checked", "cas"} THEN dest ELSE None]
    /\ Goto(p, "scan")
    /\ todo' = [todo EXCEPT ![p] = {}]
    /\ tries' = [tries EXCEPT ![p] = 0]
    /\ saw' = [saw EXCEPT ![p] = FALSE]
    /\ res' = [res EXCEPT ![p] = "none"]
    /\ UNCHANGED <<lockVars, fileVars, alive, disp>>

\* Mutant of Retry: no deadline is looked at.
RetryForever(p, giveUp) ==
    /\ todo' = [todo EXCEPT ![p] = {}]
    /\ tries' = [tries EXCEPT ![p] = @ + 1]
    /\ Goto(p, "scan")
    /\ UNCHANGED res

\* Sleep and try again, or report once a deadline has passed.
Retry(p, giveUp) ==
    /\ todo' = [todo EXCEPT ![p] = {}]
    /\ \/ /\ tries[p] < MaxTries
          /\ tries' = [tries EXCEPT ![p] = @ + 1]
          /\ Goto(p, "scan")
          /\ UNCHANGED res
       \/ /\ Goto(p, "idle")
          /\ res' = [res EXCEPT ![p] = giveUp]
          /\ UNCHANGED tries

\* Somebody's file is in the way.
Contended(p, owner) ==
    /\ saw' = [saw EXCEPT ![p] = TRUE]
    /\ Retry(p, "locked")

\* scan_publication_quarantines.
Scan(p) ==
    /\ At(p, "scan")
    /\ todo' = [todo EXCEPT ![p] = Entries]
    /\ Goto(p, "resolve")
    /\ UNCHANGED <<lockVars, fileVars, callVars, alive, disp, tries, saw, res>>

\* A scan that ran out of its slice says nothing about other processes.
ScanTimesOut(p) ==
    /\ At(p, "scan")
    /\ "scan" \in Faults
    /\ Retry(p, IF saw[p] THEN "locked" ELSE "timeout")
    /\ UNCHANGED <<lockVars, fileVars, callVars, alive, disp, saw>>

\* resolve_publication_quarantines, one scanned entry: it is gone or a living
\* process owns it; or its owner is dead and it is reaped. (Publishers leave
\* only entries that authenticate: LockIsOwn in PublicationProofs.)
ResolveEntry(p) ==
    /\ At(p, "resolve")
    /\ \E n \in todo[p] :
         \/ /\ lockq[n] = None \/ n \in alive \/ "young" \in Faults
            /\ Contended(p, n)
            /\ UNCHANGED lockq
         \/ /\ StaleRecord(n)
            /\ lockq' = [lockq EXCEPT ![n] = None]
            /\ todo' = [todo EXCEPT ![p] = @ \ {n}]
            /\ UNCHANGED <<pc, tries, saw, res>>
    /\ UNCHANGED <<lock, fileVars, callVars, alive, disp>>

Resolved(p) ==
    /\ At(p, "resolve")
    /\ todo[p] = {}
    /\ Goto(p, "create")
    /\ UNCHANGED <<lockVars, fileVars, callVars, tryVars, alive, disp, res>>

CreateOverwriting(p) ==                      \* mutant: create_new forgotten
    /\ At(p, "create")
    /\ lock' = p
    /\ Goto(p, "write")
    /\ UNCHANGED <<lockq, fileVars, callVars, tryVars, alive, disp, res>>

Create(p) ==
    /\ At(p, "create")
    /\ \/ /\ lock = None
          /\ lock' = p
          /\ Goto(p, "write")
          /\ UNCHANGED <<tryVars, res>>
       \/ /\ lock # None
          /\ Contended(p, lock)
          /\ UNCHANGED lock
    /\ UNCHANGED <<lockq, fileVars, callVars, alive, disp>>

\* A record that cannot be written or synced: the file stays where it is.
Write(p) ==
    /\ At(p, "write")
    /\ \/ Goto(p, "recheck") /\ UNCHANGED res
       \/ "io" \in Faults /\ Goto(p, "idle") /\ res' = [res EXCEPT ![p] = "failed"]
    /\ UNCHANGED <<lockVars, fileVars, callVars, tryVars, alive, disp>>

\* A quarantine that appeared meanwhile, or a scan that timed out, takes the
\* new lock back before the next try.
Recheck(p) ==
    /\ At(p, "recheck")
    /\ \/ /\ Entries = {}
          /\ Goto(p, "check")
          /\ UNCHANGED <<saw, res>>
       \/ /\ Entries # {}
          /\ Goto(p, "rmRename")
          /\ saw' = [saw EXCEPT ![p] = TRUE]
          /\ res' = [res EXCEPT ![p] = "retry"]
       \/ /\ "scan" \in Faults
          /\ Goto(p, "rmRename")
          /\ res' = [res EXCEPT ![p] = "retry"]
          /\ UNCHANGED saw
    /\ UNCHANGED <<lockVars, fileVars, callVars, alive, disp, todo, tries>>

-----------------------------------------------------------------------------
(* The commits *)

Finish(p, r) == Goto(p, "rmRename") /\ res' = [res EXCEPT ![p] = r]

\* symlink_metadata of the destination, then what the caller validates: only
\* "checked" compares it; a compare-exchange caller may notice a change or not.
\* The look, the temporary file or the rename may fail with nothing changed.
Check(p) ==
    /\ At(p, "check")
    /\ \/ op[p] = "new" /\ dest # None /\ Finish(p, "existing")
       \/ op[p] # "new" /\ dest = None /\ Finish(p, "missing")
       \/ /\ op[p] \in {"checked", "cas"}
          /\ dest \notin {None, expected[p]}
          /\ Finish(p, "changed")
       \/ /\ op[p] = "new" <=> dest = None
          /\ op[p] = "checked" => dest = expected[p]
          /\ Goto(p, IF op[p] = "cas" THEN "move" ELSE "rename")
          /\ UNCHANGED res
       \/ "io" \in Faults /\ Finish(p, "failed")
    /\ UNCHANGED <<lockVars, fileVars, callVars, tryVars, alive, disp>>

\* write_new and write_replace: the finished temporary file is renamed over
\* whatever the public name holds by now. What another program put there
\* since the last look is not protected.
Rename(p) ==
    /\ At(p, "rename")
    /\ dest' = p
    /\ owed' = {p} \cup (owed \ (({dest} \cap Edit) \cup
                     CASE op[p] = "new" -> {}
                       [] op[p] = "replace" -> {dest}
                       [] OTHER -> {expected[p]}))
    /\ \/ Finish(p, "ok")
       \/ "io" \in Faults /\ Finish(p, "failed")
    /\ UNCHANGED <<lockVars, kept, callVars, tryVars, alive, disp>>

\* Compare-exchange: the public entry is moved aside,
Move(p) ==
    /\ At(p, "move")
    /\ IF dest = None
         THEN Finish(p, "failed") /\ UNCHANGED <<dest, disp>>
         ELSE /\ disp' = [disp EXCEPT ![p] = dest]
              /\ dest' = None
              /\ \/ Goto(p, "compare") /\ UNCHANGED res
                 \/ /\ "io" \in Faults
                    /\ Goto(p, "restore")
                    /\ res' = [res EXCEPT ![p] = "failed"]
    /\ UNCHANGED <<lockVars, kept, owed, callVars, tryVars, alive>>

CompareSkipped(p) ==                         \* mutant: bytes not compared
    /\ At(p, "compare")
    /\ Goto(p, "link")
    /\ UNCHANGED <<lockVars, fileVars, callVars, tryVars, alive, disp, res>>

\* its bytes are compared with what the caller expects; bytes that cannot be
\* read are taken for others (Ok(false) | Err(_)),
Compare(p) ==
    /\ At(p, "compare")
    /\ \/ disp[p] = expected[p] /\ Goto(p, "link") /\ UNCHANGED res
       \/ /\ disp[p] # expected[p] \/ "io" \in Faults
          /\ Goto(p, "restore")
          /\ res' = [res EXCEPT ![p] = "changed"]
    /\ UNCHANGED <<lockVars, fileVars, callVars, tryVars, alive, disp>>

\* the new file is linked unless the name was taken again,
Link(p) ==
    /\ At(p, "link")
    /\ \/ /\ dest = None
          /\ dest' = p
          /\ owed' = (owed \ {expected[p]}) \cup {p}
          /\ Goto(p, "drop")
          /\ UNCHANGED <<kept, disp, res>>
       \/ /\ dest # None
          /\ kept' = kept \cup {disp[p]}
          /\ disp' = [disp EXCEPT ![p] = None]
          /\ Finish(p, "changed")
          /\ UNCHANGED <<dest, owed>>
       \/ /\ "io" \in Faults
          /\ Goto(p, "restore")
          /\ res' = [res EXCEPT ![p] = "failed"]
          /\ UNCHANGED <<dest, kept, owed, disp>>
    /\ UNCHANGED <<lockVars, callVars, tryVars, alive>>

\* and the displaced entry is removed, unless a sync or an unlink fails first.
Drop(p) ==
    /\ At(p, "drop")
    /\ disp' = [disp EXCEPT ![p] = None]
    /\ \/ Finish(p, "ok") /\ UNCHANGED kept
       \/ "io" \in Faults /\ kept' = kept \cup {disp[p]} /\ Finish(p, "failed")
    /\ UNCHANGED <<lockVars, dest, owed, callVars, tryVars, alive>>

\* restore_displaced_after_error.
Restore(p) ==
    /\ At(p, "restore")
    /\ \/ dest = None /\ dest' = disp[p] /\ UNCHANGED <<kept, res>>
       \/ dest # None /\ kept' = kept \cup {disp[p]} /\ UNCHANGED <<dest, res>>
       \/ /\ "io" \in Faults
          /\ dest' \in {dest, IF dest = None THEN disp[p] ELSE dest}
          /\ kept' = kept \cup {disp[p]}
          /\ res' = [res EXCEPT ![p] = "failed"]
    /\ disp' = [disp EXCEPT ![p] = None]
    /\ Goto(p, "rmRename")
    /\ UNCHANGED <<lockVars, owed, callVars, tryVars, alive>>

-----------------------------------------------------------------------------
(* cleanup_capability_entry of the lock file *)

\* The call ends, or its acquisition starts over.
Cleaned(p) ==
    /\ IF res[p] = "retry"
         THEN Retry(p, IF saw[p] THEN "locked" ELSE "timeout")
         ELSE Goto(p, "idle") /\ UNCHANGED <<todo, tries, res>>
    /\ UNCHANGED saw

RmRename(p) ==
    /\ At(p, "rmRename")
    /\ IF lock = None
         THEN Cleaned(p) /\ UNCHANGED <<lock, lockq>>
         ELSE /\ lockq' = [lockq EXCEPT ![p] = lock]
              /\ lock' = None
              /\ \/ Goto(p, "rmVerify") /\ UNCHANGED <<tryVars, res>>
                 \/ "io" \in Faults /\ Cleaned(p)
    /\ UNCHANGED <<fileVars, callVars, alive, disp>>

RmVerify(p) ==
    /\ At(p, "rmVerify")
    /\ \/ /\ lockq[p] = p
          /\ lockq' = [lockq EXCEPT ![p] = None]
          /\ Cleaned(p)
          /\ UNCHANGED lock
       \/ /\ lockq[p] # p \/ "read" \in Faults
          /\ IF lockq[p] # None /\ lock = None
               THEN /\ lock' = lockq[p]
                    /\ Goto(p, "rmRestored")
                    /\ UNCHANGED <<tryVars, res>>
               ELSE Cleaned(p) /\ UNCHANGED lock
          /\ UNCHANGED lockq
    /\ UNCHANGED <<fileVars, callVars, alive, disp>>

RmRestored(p) ==
    /\ At(p, "rmRestored")
    /\ lockq' = [lockq EXCEPT ![p] = None]
    /\ Cleaned(p)
    /\ UNCHANGED <<lock, fileVars, callVars, alive, disp>>

-----------------------------------------------------------------------------
(* The rest of the world *)

\* A program that does not take the lock replaces or deletes the destination.
Replace(e) ==
    /\ e \in Edit \ (owed \cup kept \cup {dest} \cup {disp[p] : p \in Proc}
                          \cup {expected[p] : p \in {q \in Proc : ~Over(q)}})
    /\ dest' = e
    /\ owed' = (owed \ {dest}) \cup {e}
    /\ UNCHANGED <<lockVars, kept, callVars, tryVars, alive, pc, disp, res>>

Delete ==
    /\ Edit # {} /\ dest # None
    /\ dest' = None
    /\ owed' = owed \ {dest}
    /\ UNCHANGED <<lockVars, kept, callVars, tryVars, alive, pc, disp, res>>

Crash(p) ==
    /\ p \in alive \cap MayCrash
    /\ alive' = alive \ {p}
    /\ Goto(p, "idle")
    /\ kept' = IF disp[p] = None THEN kept ELSE kept \cup {disp[p]}
    /\ disp' = [disp EXCEPT ![p] = None]
    /\ todo' = [todo EXCEPT ![p] = {}]
    /\ tries' = [tries EXCEPT ![p] = 0]
    /\ saw' = [saw EXCEPT ![p] = FALSE]
    /\ res' = [res EXCEPT ![p] = "none"]
    /\ UNCHANGED <<lockVars, callVars, dest, owed>>

\* "inspect and remove it manually": the lock file of a process that is gone.
RemoveByHand ==
    /\ lock # None /\ lock \notin alive
    /\ lock' = None
    /\ UNCHANGED <<lockq, fileVars, callVars, tryVars, alive, pc, disp, res>>

Step(p) ==
    \/ Scan(p) \/ ScanTimesOut(p) \/ ResolveEntry(p) \/ Resolved(p) \/ Create(p)
    \/ Write(p) \/ Recheck(p) \/ Check(p) \/ Rename(p) \/ Move(p) \/ Compare(p) \/ Link(p)
    \/ Drop(p) \/ Restore(p) \/ RmRename(p) \/ RmVerify(p) \/ RmRestored(p)

Next ==
    \/ \E p \in Proc : Begin(p) \/ Step(p) \/ Crash(p)
    \/ \E e \in Edit : Replace(e)
    \/ Delete
    \/ RemoveByHand

Spec == Init /\ [][Next]_vars

-----------------------------------------------------------------------------
(* Properties *)

Commits(p) == p \in alive /\ pc[p] \in {"check", "rename", "move", "compare",
                                        "link", "drop", "restore"}

\* One publisher at a time between the last look at the destination and the
\* end of its commit.
OnePublisher == \A p, q \in Proc : Commits(p) /\ Commits(q) => p = q

\* Content that was published under the lock and that nobody has read and then
\* replaced is in some file: the public one, or a displaced entry. So is what a
\* program without the lock wrote, unless a rename ran over it, which only the
\* compare-exchange rules out ("otherwise preserves both entries without
\* overwriting either one").
NothingLost == owed \subseteq {dest} \cup kept \cup {disp[p] : p \in Proc}

\* The creation of a file never overwrites one that exists.
NewNeverOverwrites ==
    [][\A p \in Proc : At(p, "rename") /\ op[p] = "new" /\ dest' = p
                         => dest = None]_vars

Outside == {"compare", "link", "restore"}
Ending == {"restore", "rmRename", "rmVerify", "rmRestored"}

\* What is taken out of the name: a displaced entry that has not been replaced.
Out == [p \in Proc |-> IF pc[p] \in Outside THEN disp[p] ELSE None]

\* The content: what the name holds or, when it holds nothing, what is out.
Held(d, out) ==
    IF d # None THEN d
    ELSE IF \E p \in Proc : out[p] # None
           THEN out[CHOOSE p \in Proc : out[p] # None]
           ELSE None

\* What a caller would be told if its call ended now.
Tells(s, r) ==
    CASE s = "idle" -> "none"
      [] s = "drop" -> "published"
      [] s \in Ending -> IF r = "retry" THEN "asked" ELSE r
      [] OTHER -> "asked"
Told == [p \in Proc |-> Tells(pc[p], res[p])]

\* The publication of a file is an exchange in one step: with its locks,
\* retries, crashes and faults it implements AtomicFile.
File == INSTANCE AtomicFile WITH
            file <- Held(dest, Out), out <- Out, beside <- kept, answer <- Told
ImplementsAtomicFile == File!Spec
=============================================================================

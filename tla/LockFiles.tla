------------------------------ MODULE LockFiles ------------------------------
(***************************************************************************)
(* The on-disk lock protocol of mko-core/src/lock.rs, one step per change  *)
(* of (or decision on) the lock directory.                                 *)
(*                                                                         *)
(* A lock is a file "main" (repository-mutation.lock, or <asset>.lock)     *)
(* made with O_EXCL; a second file "takeover" guards every removal of it.  *)
(* A file is taken away by renaming it to a quarantine                     *)
(* `.<file>.cleanup-<secret>`, checking what was moved, and unlinking it.  *)
(* Every quarantine is authoritative: whoever meets one stands back.       *)
(*                                                                         *)
(* A file is identified with the owner token its creator drew for it, so   *)
(* the code's pair (inode, owner_token) is one value here.                 *)
(***************************************************************************)
EXTENDS Naturals

CONSTANTS Proc,      \* processes; a process id is not reused
          Nonce,     \* with the process, what makes an owner token unique
          MayClear,  \* processes that may run in the clear-stale mode
          MayCrash,  \* processes that may die at any step
          Overlap,   \* two processes may be in the clear-stale mode at once
          Inspects,  \* clear mode is entered only past a stale main lock
          Faults,    \* "slow": a read, a scan or a directory sync fails;
                     \* "io": a record cannot be written; "young": a dead
                     \* owner's record is not yet past STALE_LOCK_TTL
          None

ASSUME ConstantsAssumption ==
    /\ MayClear \subseteq Proc
    /\ MayCrash \subseteq Proc
    /\ Overlap \in BOOLEAN
    /\ Inspects \in BOOLEAN
    /\ Faults \subseteq {"slow", "io", "young"}
    /\ None \notin Proc \X Nonce

Token == Proc \X Nonce
Owner(t) == t[1]
Target == {"main", "takeover"}
Pc == {"idle", "scan", "reap", "capture", "staleRename", "staleVerify",
       "staleUnlink", "ensure", "create", "write", "recheck", "held",
       "rmRename", "rmVerify", "rmRestored"}

VARIABLES
    pub,       \* file under each public name
    quar,      \* quar[F][n]: file under the name .F.cleanup-n
    blank,     \* files created whose record is not written yet
    alive,     \* processes that have not died
    pc, tgt,   \* step of each process and the public name it works on
    clear,     \* the call runs with clear_stale
    tok,       \* tok[p][F]: the owner token of p for F, None if it has none
    captured,  \* the stale record remove_stale_entry captured
    todo       \* quarantines (name, file) left to reap

disk == <<pub, quar, blank>>
local == <<pc, tgt, clear, tok, captured, todo>>
vars == <<disk, alive, local>>

TypeOK ==
    /\ pub \in [Target -> Token \cup {None}]
    /\ quar \in [Target -> [Token -> Token \cup {None}]]
    /\ blank \subseteq Token
    /\ alive \subseteq Proc
    /\ pc \in [Proc -> Pc]
    /\ tgt \in [Proc -> Target]
    /\ clear \in [Proc -> BOOLEAN]
    /\ tok \in [Proc -> [Target -> Token \cup {None}]]
    /\ captured \in [Proc -> Token \cup {None}]
    /\ todo \in [Proc -> SUBSET (Token \X Token)]

Init ==
    /\ pub = [F \in Target |-> None]
    /\ quar = [F \in Target |-> [n \in Token |-> None]]
    /\ blank = {}
    /\ alive = Proc
    /\ pc = [p \in Proc |-> "idle"]
    /\ tgt = [p \in Proc |-> "main"]
    /\ clear = [p \in Proc |-> FALSE]
    /\ tok = [p \in Proc |-> [F \in Target |-> None]]
    /\ captured = [p \in Proc |-> None]
    /\ todo = [p \in Proc |-> {}]

-----------------------------------------------------------------------------
(* What the code reads off the directory.                                  *)

Entries(F) == {n \in Token : quar[F][n] # None}

\* A quarantine is authenticated when its name is the secret of its record.
Authenticated(F, n) == quar[F][n] = n /\ n \notin blank

\* record_is_stale: a written record of a dead process. That it is also more
\* than STALE_LOCK_TTL old is the "young" fault: a dead owner's record may
\* still be refused.
StaleByAge(t) == t # None /\ t \notin blank      \* mutant: no look at the process
Stale(t) == t # None /\ t \notin blank /\ Owner(t) \notin alive

\* next_owner_token: never equal to a token met anywhere.
Fresh(t) ==
    /\ \A F \in Target : pub[F] # t /\ quar[F][t] = None
                         /\ \A n \in Token : quar[F][n] # t
    /\ \A p \in Proc : /\ captured[p] # t
                       /\ \A F \in Target : tok[p][F] # t
                       /\ \A e \in todo[p] : e[1] # t /\ e[2] # t

Goto(p, s) == pc' = [pc EXCEPT ![p] = s]
At(p, s) == p \in alive /\ pc[p] = s

\* Mutant of Fail: the early return forgets the guard in hand.
FailKeepsGuard(p) ==
    /\ Goto(p, "idle")
    /\ tgt' = [tgt EXCEPT ![p] = "main"]
    /\ tok' = [tok EXCEPT ![p] = [F \in Target |-> None]]
    /\ clear' = [clear EXCEPT ![p] = FALSE]
    /\ captured' = [captured EXCEPT ![p] = None]
    /\ todo' = [todo EXCEPT ![p] = {}]

\* Early return of an operation: a guard in hand is dropped (RAII), and a main
\* lock a failing Drop meant to release stays behind on disk.
Fail(p) ==
    /\ IF tgt[p] = "main" /\ tok[p]["takeover"] # None
         THEN /\ Goto(p, "rmRename")
              /\ tgt' = [tgt EXCEPT ![p] = "takeover"]
              /\ tok' = [tok EXCEPT ![p]["main"] = None]
              /\ UNCHANGED clear
         ELSE /\ Goto(p, "idle")
              /\ tgt' = [tgt EXCEPT ![p] = "main"]
              /\ tok' = [tok EXCEPT ![p] = [F \in Target |-> None]]
              /\ clear' = [clear EXCEPT ![p] = FALSE]
    /\ captured' = [captured EXCEPT ![p] = None]
    /\ todo' = [todo EXCEPT ![p] = {}]

-----------------------------------------------------------------------------
(* acquire *)

\* A command starts; clear_stale_repository_lock first looks for a stale lock.
Begin(p) ==
    /\ At(p, "idle")
    /\ \E c \in BOOLEAN :
         /\ c => /\ p \in MayClear
                 /\ Overlap \/ \A q \in alive : ~clear[q]
                 /\ Inspects => Stale(pub["main"])
         /\ clear' = [clear EXCEPT ![p] = c]
    /\ Goto(p, "scan")
    /\ tgt' = [tgt EXCEPT ![p] = "takeover"]
    /\ UNCHANGED <<disk, alive, tok, captured, todo>>

\* resolve_authoritative_quarantines, classification. Without clear_stale any
\* entry refuses; with it, one that a live (or young) owner authenticates.
ScanRefuses(p) ==
    /\ At(p, "scan")
    /\ \/ "slow" \in Faults
       \/ \E n \in Entries(tgt[p]) :
            \/ ~clear[p]
            \/ Authenticated(tgt[p], n) /\ (Owner(n) \in alive \/ "young" \in Faults)
    /\ Fail(p)
    /\ UNCHANGED <<disk, alive>>

Resolved(F) == IF F = "takeover" THEN "capture" ELSE "ensure"

ScanPasses(p) ==
    /\ At(p, "scan")
    /\ \A n \in Entries(tgt[p]) :
         clear[p] /\ (Authenticated(tgt[p], n) => Owner(n) \notin alive)
    /\ todo' = [todo EXCEPT ![p] =
                  {<<n, quar[tgt[p]][n]>> : n \in Entries(tgt[p])}]
    /\ Goto(p, IF Entries(tgt[p]) = {} THEN Resolved(tgt[p]) ELSE "reap")
    /\ UNCHANGED <<disk, alive, tgt, clear, tok, captured>>

\* reap_authoritative_quarantine: rename to a private name nobody scans for,
\* check it is the file that was classified, unlink it. An entry that changed
\* is already out of sight when the check fails.
Reap(p) ==
    /\ At(p, "reap")
    /\ \E e \in todo[p] :
         /\ quar' = [quar EXCEPT ![tgt[p]][e[1]] = None]
         /\ \/ /\ quar[tgt[p]][e[1]] = e[2]
               /\ todo' = [todo EXCEPT ![p] = @ \ {e}]
               /\ Goto(p, IF todo[p] = {e} THEN Resolved(tgt[p]) ELSE "reap")
               /\ UNCHANGED <<tgt, clear, tok, captured>>
            \/ /\ quar[tgt[p]][e[1]] # e[2] \/ "slow" \in Faults
               /\ Fail(p)
    /\ UNCHANGED <<pub, blank, alive>>

\* clear_stale_takeover_if_requested, nothing there: an ordinary acquisition
\* goes on to the main lock, a clearing one takes the guard.
NoTakeover(p) ==
    /\ At(p, "capture") /\ tgt[p] = "takeover"
    /\ pub["takeover"] = None
    /\ IF clear[p]
         THEN Goto(p, "ensure") /\ UNCHANGED tgt
         ELSE Goto(p, "scan") /\ tgt' = [tgt EXCEPT ![p] = "main"]
    /\ UNCHANGED <<disk, alive, clear, tok, captured, todo>>

\* remove_stale_entry, first read.
CaptureRefuses(p) ==
    /\ At(p, "capture")
    /\ IF pub[tgt[p]] = None
         THEN tgt[p] = "main"
         ELSE ~clear[p] \/ ~Stale(pub[tgt[p]]) \/ Faults \cap {"slow", "young"} # {}
    /\ Fail(p)
    /\ UNCHANGED <<disk, alive>>

CaptureUnchecked(p) ==                       \* mutant: record_is_stale not asked
    /\ At(p, "capture")
    /\ clear[p] /\ pub[tgt[p]] # None
    /\ captured' = [captured EXCEPT ![p] = pub[tgt[p]]]
    /\ Goto(p, "staleRename")
    /\ UNCHANGED <<disk, alive, tgt, clear, tok, todo>>

CaptureStale(p) ==
    /\ At(p, "capture")
    /\ clear[p] /\ Stale(pub[tgt[p]])
    /\ captured' = [captured EXCEPT ![p] = pub[tgt[p]]]
    /\ Goto(p, "staleRename")
    /\ UNCHANGED <<disk, alive, tgt, clear, tok, todo>>

\* The rename moves whatever is under the public name by now.
StaleRename(p) ==
    /\ At(p, "staleRename")
    /\ IF pub[tgt[p]] = None
         THEN Fail(p) /\ UNCHANGED <<pub, quar>>
         ELSE /\ quar' = [quar EXCEPT ![tgt[p]][captured[p]] = pub[tgt[p]]]
              /\ pub' = [pub EXCEPT ![tgt[p]] = None]
              /\ Goto(p, "staleVerify")
              /\ UNCHANGED <<tgt, clear, tok, captured, todo>>
    /\ UNCHANGED <<blank, alive>>

StaleVerify(p) ==
    /\ At(p, "staleVerify")
    /\ \/ /\ quar[tgt[p]][captured[p]] = captured[p]
          /\ Goto(p, "staleUnlink")
          /\ UNCHANGED <<tgt, clear, tok, captured, todo>>
       \/ /\ quar[tgt[p]][captured[p]] # captured[p] \/ "slow" \in Faults
          /\ Fail(p)
    /\ UNCHANGED <<disk, alive>>

\* remove_file on the quarantine name, whatever it names by now.
StaleUnlink(p) ==
    /\ At(p, "staleUnlink")
    /\ quar' = [quar EXCEPT ![tgt[p]][captured[p]] = None]
    /\ IF quar[tgt[p]][captured[p]] = None
         THEN Fail(p)
         ELSE /\ Goto(p, "ensure")
              /\ IF tgt[p] = "takeover"
                   THEN captured' = [captured EXCEPT ![p] = None]
                   ELSE UNCHANGED captured
              /\ UNCHANGED <<tgt, clear, tok, todo>>
    /\ UNCHANGED <<pub, blank, alive>>

-----------------------------------------------------------------------------
(* Creating a lock file: the guard, or the main lock.                      *)

Ensure(p) ==
    /\ At(p, "ensure")
    /\ \/ /\ Entries(tgt[p]) = {}
          /\ Goto(p, "create")
          /\ UNCHANGED <<tgt, clear, tok, captured, todo>>
       \/ /\ Entries(tgt[p]) # {} \/ "slow" \in Faults
          /\ Fail(p)
    /\ UNCHANGED <<disk, alive>>

\* Mutant of Create: create(true) instead of create_new(true).
CreateAnyway(p) ==
    /\ At(p, "create")
    /\ \E n \in Nonce :
         /\ Fresh(<<p, n>>)
         /\ pub' = [pub EXCEPT ![tgt[p]] = <<p, n>>]
         /\ blank' = blank \cup {<<p, n>>}
         /\ tok' = [tok EXCEPT ![p][tgt[p]] = <<p, n>>]
    /\ Goto(p, "write")
    /\ UNCHANGED <<quar, alive, tgt, clear, captured, todo>>

\* open with create_new on a vacant name.
Create(p) ==
    /\ At(p, "create")
    /\ pub[tgt[p]] = None
    /\ \E n \in Nonce :
         /\ Fresh(<<p, n>>)
         /\ pub' = [pub EXCEPT ![tgt[p]] = <<p, n>>]
         /\ blank' = blank \cup {<<p, n>>}
         /\ tok' = [tok EXCEPT ![p][tgt[p]] = <<p, n>>]
    /\ Goto(p, "write")
    /\ UNCHANGED <<quar, alive, tgt, clear, captured, todo>>

\* AlreadyExists: a clearing acquisition tries once to remove a stale lock.
CreateOccupied(p) ==
    /\ At(p, "create")
    /\ pub[tgt[p]] # None
    /\ IF tgt[p] = "main" /\ clear[p] /\ captured[p] = None
         THEN Goto(p, "capture") /\ UNCHANGED <<tgt, clear, tok, captured, todo>>
         ELSE Fail(p)
    /\ UNCHANGED <<disk, alive>>

AbandonAll(p) == [tok EXCEPT ![p] = None]    \* mutant: resets too much

\* A releasing Drop that cannot get the guard leaves the main lock on disk.
Abandon(p) == [tok EXCEPT ![p]["main"] = IF tgt[p] = "takeover" THEN None ELSE @]

Write(p) ==
    /\ At(p, "write")
    /\ \/ /\ blank' = blank \ {tok[p][tgt[p]]}
          /\ \/ /\ Goto(p, "recheck")
                /\ UNCHANGED <<tgt, clear, tok, captured, todo>>
             \/ "slow" \in Faults /\ Fail(p)
       \/ /\ "io" \in Faults                       \* remove_identity_owned
          /\ Goto(p, "rmRename")
          /\ tok' = Abandon(p)
          /\ UNCHANGED <<blank, tgt, clear, captured, todo>>
    /\ UNCHANGED <<pub, quar, alive>>

\* Mutant of Recheck: no second look at the quarantines.
RecheckSkipped(p) ==
    /\ At(p, "recheck")
    /\ IF tgt[p] = "takeover"
         THEN Goto(p, IF tok[p]["main"] # None THEN "rmRename" ELSE "scan")
              /\ tgt' = [tgt EXCEPT ![p] = "main"]
         ELSE IF tok[p]["takeover"] # None
                THEN Goto(p, "rmRename") /\ tgt' = [tgt EXCEPT ![p] = "takeover"]
                ELSE Goto(p, "held") /\ UNCHANGED tgt
    /\ UNCHANGED <<disk, alive, clear, tok, captured, todo>>

\* The second ensure_no_authoritative_quarantine: the file that was just made
\* counts only if nobody's quarantine appeared; otherwise it is taken back.
Recheck(p) ==
    /\ At(p, "recheck")
    /\ \/ /\ Entries(tgt[p]) = {}
          /\ IF tgt[p] = "takeover"
               THEN IF tok[p]["main"] # None
                      THEN Goto(p, "rmRename") /\ tgt' = [tgt EXCEPT ![p] = "main"]
                      ELSE Goto(p, "scan") /\ tgt' = [tgt EXCEPT ![p] = "main"]
               ELSE IF tok[p]["takeover"] # None
                      THEN Goto(p, "rmRename") /\ tgt' = [tgt EXCEPT ![p] = "takeover"]
                      ELSE Goto(p, "held") /\ UNCHANGED tgt
          /\ UNCHANGED tok
       \/ /\ Entries(tgt[p]) # {} \/ "slow" \in Faults
          /\ Goto(p, "rmRename")
          /\ tok' = Abandon(p)
          /\ UNCHANGED tgt
    /\ UNCHANGED <<disk, alive, clear, captured, todo>>

-----------------------------------------------------------------------------
(* Drop, and remove_if_owned for the guard and for the main lock.          *)

\* Drop first takes the guard.
Release(p) ==
    /\ At(p, "held")
    /\ Goto(p, "ensure")
    /\ tgt' = [tgt EXCEPT ![p] = "takeover"]
    /\ clear' = [clear EXCEPT ![p] = FALSE]
    /\ captured' = [captured EXCEPT ![p] = None]
    /\ UNCHANGED <<disk, alive, tok, todo>>

\* remove_if_owned returns: the guard is dropped after the main lock.
Removed(p) ==
    /\ tok' = [tok EXCEPT ![p][tgt[p]] = None]
    /\ IF tgt[p] = "main" /\ tok[p]["takeover"] # None
         THEN /\ Goto(p, "rmRename")
              /\ tgt' = [tgt EXCEPT ![p] = "takeover"]
              /\ UNCHANGED <<clear, captured>>
         ELSE /\ Goto(p, IF tgt[p] = "takeover" /\ tok[p]["main"] # None
                           THEN "held" ELSE "idle")
              /\ tgt' = [tgt EXCEPT ![p] = "main"]
              /\ clear' = [clear EXCEPT ![p] = FALSE]
              /\ captured' = [captured EXCEPT ![p] = None]
    /\ UNCHANGED todo

RmRename(p) ==
    /\ At(p, "rmRename")
    /\ IF pub[tgt[p]] = None
         THEN Removed(p) /\ UNCHANGED <<pub, quar>>
         ELSE /\ quar' = [quar EXCEPT ![tgt[p]][tok[p][tgt[p]]] = pub[tgt[p]]]
              /\ pub' = [pub EXCEPT ![tgt[p]] = None]
              /\ \/ /\ Goto(p, "rmVerify")
                    /\ UNCHANGED <<tgt, clear, tok, captured, todo>>
                 \/ "slow" \in Faults /\ Removed(p)
    /\ UNCHANGED <<blank, alive>>

\* Own file: unlink. Anything else, or no answer in time: put it back unless
\* the public name is taken, then leave the quarantine.
RmVerify(p) ==
    LET F == tgt[p]
        own == tok[p][F]
        moved == quar[F][own]
    IN  /\ At(p, "rmVerify")
        /\ \/ /\ moved = own
              /\ quar' = [quar EXCEPT ![F][own] = None]
              /\ blank' = blank \ {own}
              /\ Removed(p)
              /\ UNCHANGED pub
           \/ /\ moved # own \/ "slow" \in Faults
              /\ IF moved # None /\ pub[F] = None
                   THEN /\ pub' = [pub EXCEPT ![F] = moved]
                        /\ Goto(p, "rmRestored")
                        /\ UNCHANGED <<quar, tgt, clear, tok, captured, todo>>
                   ELSE Removed(p) /\ UNCHANGED <<pub, quar>>
              /\ UNCHANGED blank
        /\ UNCHANGED alive

RmRestored(p) ==
    /\ At(p, "rmRestored")
    /\ quar' = [quar EXCEPT ![tgt[p]][tok[p][tgt[p]]] = None]
    /\ Removed(p)
    /\ UNCHANGED <<pub, blank, alive>>

-----------------------------------------------------------------------------

Crash(p) ==
    /\ p \in alive \cap MayCrash
    /\ alive' = alive \ {p}
    /\ Goto(p, "idle")
    /\ tgt' = [tgt EXCEPT ![p] = "main"]
    /\ clear' = [clear EXCEPT ![p] = FALSE]
    /\ tok' = [tok EXCEPT ![p] = [F \in Target |-> None]]
    /\ captured' = [captured EXCEPT ![p] = None]
    /\ todo' = [todo EXCEPT ![p] = {}]
    /\ UNCHANGED disk

\* What a running call does next.
Step(p) ==
    \/ ScanRefuses(p) \/ ScanPasses(p) \/ Reap(p)
    \/ NoTakeover(p) \/ CaptureRefuses(p) \/ CaptureStale(p)
    \/ StaleRename(p) \/ StaleVerify(p) \/ StaleUnlink(p)
    \/ Ensure(p) \/ Create(p) \/ CreateOccupied(p) \/ Write(p) \/ Recheck(p)
    \/ RmRename(p) \/ RmVerify(p) \/ RmRestored(p)

Next == \E p \in Proc : Begin(p) \/ Release(p) \/ Step(p) \/ Crash(p)

Spec == Init /\ [][Next]_vars

-----------------------------------------------------------------------------
(* Properties *)

\* p works under the main lock: acquire has returned (or has only the guard's
\* Drop left to run), and its own Drop has not begun to remove it.
Holds(p) ==
    /\ p \in alive
    /\ tok[p]["main"] # None
    /\ pc[p] = "held" \/ tgt[p] = "takeover"

\* p is inside a section that the takeover guard protects.
Guards(p) ==
    /\ p \in alive
    /\ tok[p]["takeover"] # None
    /\ tgt[p] = "main" \/ pc[p] = "rmRename"

\* At most one process is past acquire and before release: the promise that
\* every "under lock" comment of the repository's writers builds on.
MutualExclusion == \A p, q \in Proc : Holds(p) /\ Holds(q) => p = q

\* The lock of a working process is still under its public name, so
\* AssetLock::assert_owned_for succeeds at every publication.
HolderPublished == \A p \in Proc : Holds(p) => pub["main"] = tok[p]["main"]

\* Two processes never work under the takeover guard, so nobody removes a main
\* lock while another one is judging it.
GuardExclusive == \A p, q \in Proc : Guards(p) /\ Guards(q) => p = q

\* What a process at work relies on: its own lock file, and the guard under
\* which it removes the files of others, are nobody else's.
WorkProtected == HolderPublished /\ GuardExclusive

\* A file of a live process leaves its public name only by a step of that very
\* process: "remove_stale_entry refuses anything a live process still owns".
LiveFilesStay ==
    [][\A F \in Target :
         LET t == pub[F]
             o == Owner(t)
         IN  t # None /\ o \in alive' /\ pub'[F] # t
               => pc'[o] # pc[o] \/ tgt'[o] # tgt[o]]_vars

\* What a file on the main lock's name, or in one of its quarantines, means to
\* everybody else: its owner is at work on it, or it is stranded.
InCare(F, t) == Owner(t) \in alive /\ tok[Owner(t)][F] = t
Stranded ==
    \/ pub["main"] # None /\ ~InCare("main", pub["main"])
    \/ \E n \in Entries("main") : ~InCare("main", quar["main"][n])

holder == IF \E p \in Proc : Holds(p) THEN CHOOSE p \in Proc : Holds(p)
          ELSE IF Stranded THEN "stranded" ELSE "free"

Lock == INSTANCE ExclusiveLock WITH Recoverable <- MayClear # {}

\* Seen from outside, the files are one lock that is held by one process,
\* free, or stranded; only an explicit recovery ends being stranded.
ImplementsExclusiveLock == Lock!Spec

-----------------------------------------------------------------------------
(* Liveness *)

\* A command that runs is not suspended for ever and ends, and whoever may
\* recover retries as long as there is something to recover.
Fairness ==
    /\ \A p \in Proc : WF_vars(Step(p)) /\ WF_vars(Release(p))
    /\ \A p \in MayClear : SF_vars(Begin(p) /\ clear'[p])

FairSpec == Spec /\ Fairness

\* Readable files that a dead process left in the way.
LeftBy(d) ==
    \E F \in Target : \/ pub[F] # None /\ Owner(pub[F]) = d
                     \/ \E n \in Entries(F) : Owner(quar[F][n]) = d

Unreadable == \E F \in Target : pub[F] \in blank

\* "an abandoned lock must be recoverable": what a dead process left is
\* removed in the end, unless a record it could not write needs a look by hand.
AbandonedRecoverable ==
    \A d \in MayCrash : d \notin alive /\ LeftBy(d) ~> ~LeftBy(d) \/ Unreadable
=============================================================================

----------------------------- MODULE Resurfacing -----------------------------
(***************************************************************************)
(* mko-cli/src/cli.rs `mko find --again` and its parts: queue_v2.rs ranks  *)
(* the Knowledge to look at again, resurface_history_v2.rs remembers what  *)
(* was opened, perspective_v2.rs and records_v2.rs let the owner put an    *)
(* opened note under other perspectives, which publishes a new revision.   *)
(*                                                                         *)
(* A revision is named by its content: put back under the perspectives it  *)
(* had, a note is at its earlier revision again, with the decisions and    *)
(* the openings of that revision. Lists and cards are read without a lock. *)
(***************************************************************************)
EXTENDS Naturals, FiniteSets, Sequences

CONSTANTS Proc,
          Notes,         \* Knowledge records, numbers: the last tie-breaker
          Units,         \* what a response may contain, sets of kinds of unit
          Labels,        \* sets of perspectives the owner may choose
          Offers,        \* items in a list
          MaxEntries,    \* openings that are remembered
          MaxTime, MaxCalls,
          None

VARIABLES
    current,   \* current[k]: the revision of record k
    decided,   \* the last decision about each revision that has one
    history,   \* the openings on file
    opened,    \* ghost: when each revision was last opened, for ever
    now,       \* the clock
    calls,     \* lists, cards, drafts and decisions so far
    holder, pc, job

files == <<current, decided, history>>
vars == <<files, opened, now, calls, holder, pc, job>>

HighRisk(perspectives) == "investment" \in perspectives
Revision == [units : Units, perspectives : Labels \cup {{}}]
Entry == [note : Notes, rev : Revision, at : 1..MaxTime]
Decision == [note : Notes, rev : Revision,
             state : {"confirmed", "deferred", "changes_requested"}]
Job == [note : Notes \cup {None}, rev : Revision \cup {None},
        seen : SUBSET Entry, want : Labels \cup {{}}]
NoJob == [note |-> None, rev |-> None, seen |-> {}, want |-> {}]
Pc == {"idle", "chosen", "opening", "read", "card", "replace"}

\* What is assumed of the constants.
ResurfacingAssumption ==
    /\ IsFiniteSet(Notes) /\ Notes \subseteq Nat
    /\ {Offers, MaxEntries, MaxCalls} \subseteq Nat /\ MaxTime \in Nat \ {0}
    /\ None \notin Proc

\* The last decision about the current revision.
Decisions(k) == {d \in decided : d.note = k /\ d.rev = current[k]}

TypeOK ==
    /\ current \in [Notes -> Revision]
    /\ decided \in SUBSET Decision
    /\ \A k \in Notes : Cardinality(Decisions(k)) <= 1
    /\ history \in SUBSET Entry
    /\ Cardinality(history) <= MaxEntries
    \* validate_history: one entry for each revision
    /\ \A e, f \in history : e.note = f.note /\ e.rev = f.rev => e = f
    /\ opened \in [Notes \X Revision -> 0..MaxTime]
    /\ now \in 1..MaxTime
    /\ calls \in 0..MaxCalls
    /\ holder \in Proc \cup {None}
    /\ pc \in [Proc -> Pc]
    /\ job \in [Proc -> Job]

Init ==
    /\ current \in [Notes -> [units : Units, perspectives : {{}}]]
    /\ decided = {} /\ history = {}
    /\ opened = [x \in Notes \X Revision |-> 0]
    /\ now = 1 /\ calls = 0
    /\ holder = None
    /\ pc = [p \in Proc |-> "idle"]
    /\ job = [p \in Proc |-> NoJob]

Goto(p, s) == pc' = [pc EXCEPT ![p] = s]
Set(p, j) == job' = [job EXCEPT ![p] = j]
Call == calls < MaxCalls /\ calls' = calls + 1
Quit(p) == Goto(p, "idle") /\ Set(p, NoJob)

-----------------------------------------------------------------------------
(* resurface_knowledge_internal *)

\* Nothing decided: it is unconfirmed.
State(k) == IF Decisions(k) = {} THEN "unconfirmed"
            ELSE (CHOOSE d \in Decisions(k) : TRUE).state

\* resurface_rank: what is deferred comes first, what nobody looked at last.
Rank(k) == CASE State(k) = "deferred" -> 0
             [] State(k) = "confirmed" -> 1
             [] OTHER -> 2

\* read_resurface_opened_at_v2, for the current revision: 0 when it was never.
OpenedAt(k) ==
    LET found == {e \in history : e.note = k /\ e.rev = current[k]} IN
    IF found = {} THEN 0 ELSE (CHOOSE e \in found : TRUE).at

\* Mutant of Before: what was opened last comes first.
BeforeLatest(j, k) ==
    \/ Rank(j) < Rank(k)
    \/ Rank(j) = Rank(k) /\ OpenedAt(j) > OpenedAt(k)
    \/ Rank(j) = Rank(k) /\ OpenedAt(j) = OpenedAt(k) /\ j < k

\* compare_resurfaced_knowledge. Open questions and the time of the review
\* only order what was never opened or opened at one moment.
Before(j, k) ==
    \/ Rank(j) < Rank(k)
    \/ Rank(j) = Rank(k) /\ OpenedAt(j) < OpenedAt(k)
    \/ Rank(j) = Rank(k) /\ OpenedAt(j) = OpenedAt(k) /\ j < k

\* The list, under a perspective or all of them.
Listed(filter) ==
    LET pool == {k \in Notes : /\ filter \subseteq current[k].perspectives
                               /\ State(k) # "changes_requested"}
        all == CHOOSE list \in [1..Cardinality(pool) -> pool] :
                   \A i, j \in DOMAIN list : i < j => Before(list[i], list[j])
    IN  SubSeq(all, 1, IF Len(all) < Offers THEN Len(all) ELSE Offers)

Filters == {{}} \cup {{x} : x \in UNION Labels}

\* cli.rs resurface, up to the choice of an item.
Resurface(p) ==
    /\ pc[p] = "idle"
    /\ Call
    /\ \E filter \in Filters : \E i \in DOMAIN Listed(filter) :
           LET k == Listed(filter)[i] IN
           Set(p, [NoJob EXCEPT !.note = k, !.rev = current[k]])
    /\ Goto(p, "chosen")
    /\ UNCHANGED <<files, opened, now, holder>>

-----------------------------------------------------------------------------
(* record_resurfaced_knowledge_open_v2 *)

\* Under the repository lock: a record that has moved on is refused.
EnterOpen(p) ==
    /\ pc[p] = "chosen"
    /\ holder = None
    /\ IF current[job[p].note] = job[p].rev
       THEN /\ holder' = p
            /\ Set(p, [job[p] EXCEPT !.seen = history])
            /\ Goto(p, "opening")
       ELSE Quit(p) /\ UNCHANGED holder
    /\ UNCHANGED <<files, opened, now, calls>>

\* Newest first, then by record; entries past the limit are forgotten. Of two
\* revisions of one record opened at one moment either may be.
Newer(e, f) == e.at > f.at \/ (e.at = f.at /\ e.note < f.note)
Truncations(entries) ==
    {kept \in SUBSET entries :
        /\ Cardinality(kept) =
               IF Cardinality(entries) < MaxEntries THEN Cardinality(entries)
               ELSE MaxEntries
        /\ \A e \in kept, f \in entries \ kept : ~Newer(f, e)}

\* Mutant of Others: the entries of the record's other revisions are dropped.
OthersOfOthers(seen, k, r) == {e \in seen : e.note # k}

\* Mutant of Others: the revision's own entry stays as well.
OthersAndOwn(seen, k, r) == seen

\* The entries that stay beside a new one.
Others(seen, k, r) == {e \in seen : e.note # k \/ e.rev # r}

RecordOpen(p) ==
    LET k == job[p].note  r == job[p].rev IN
    /\ pc[p] = "opening"
    /\ IF history = job[p].seen
       THEN /\ history' \in Truncations(
                   Others(job[p].seen, k, r) \cup {[note |-> k, rev |-> r, at |-> now]})
            /\ opened' = [opened EXCEPT ![<<k, r>>] = now]
       ELSE UNCHANGED <<history, opened>>
    /\ holder' = None
    /\ Set(p, [job[p] EXCEPT !.seen = {}])
    /\ Goto(p, "read")
    /\ UNCHANGED <<current, decided, now, calls>>

-----------------------------------------------------------------------------
(* perspective_v2.rs *)

Complete(units) == {"counterargument", "open_question"} \subseteq units

\* prepare_perspective_confirmation_v2: the card is about the record as it is
\* by now, not as it was listed.
Card(p) ==
    LET k == job[p].note IN
    /\ pc[p] = "read"
    /\ Call
    /\ \E want \in Labels :
           /\ HighRisk(want) => Complete(current[k].units)
           /\ Set(p, [job[p] EXCEPT !.rev = current[k], !.want = want])
    /\ Goto(p, "card")
    /\ UNCHANGED <<files, opened, now, holder>>

Close(p) ==
    /\ pc[p] \in {"chosen", "read", "card"}
    /\ Quit(p)
    /\ UNCHANGED <<files, opened, now, calls, holder>>

\* publish_perspective_confirmation_v2: the card, prepared again, is the same.
Confirm(p) ==
    /\ pc[p] = "card"
    /\ IF current[job[p].note] = job[p].rev
       THEN Goto(p, "replace") /\ UNCHANGED job
       ELSE Quit(p)
    /\ UNCHANGED <<files, opened, now, calls, holder>>

\* Mutant of Replace: the revision that is replaced is not compared again.
ReplaceAny(p) ==
    LET k == job[p].note IN
    /\ pc[p] = "replace"
    /\ holder = None
    /\ HighRisk(job[p].want) => Complete(job[p].rev.units)
    /\ current' = [current EXCEPT ![k] = [job[p].rev EXCEPT !.perspectives = job[p].want]]
    /\ Quit(p)
    /\ UNCHANGED <<decided, history, opened, now, calls, holder>>

\* replace_knowledge_perspectives_v2: the revision of the card with other
\* perspectives, under the lock, if it is still the one to replace.
Replace(p) ==
    LET k == job[p].note
        new == [job[p].rev EXCEPT !.perspectives = job[p].want]
    IN
    /\ pc[p] = "replace"
    /\ holder = None
    /\ HighRisk(job[p].want) => Complete(job[p].rev.units)
    /\ current' = [current EXCEPT ![k] = IF @ = job[p].rev THEN new ELSE @]
    /\ Quit(p)
    /\ UNCHANGED <<decided, history, opened, now, calls, holder>>

-----------------------------------------------------------------------------

\* write_knowledge_record_v2: a new draft is under no perspective, whatever the
\* one it replaces was under.
Draft(k) ==
    /\ Call
    /\ holder = None
    /\ \E u \in Units :
           current' = [current EXCEPT ![k] = [units |-> u, perspectives |-> {}]]
    /\ UNCHANGED <<decided, history, opened, now, holder, pc, job>>

\* A review of the current revision (ReviewGraph).
Review(k) ==
    /\ Call
    /\ holder = None
    /\ \E d \in Decision :
           /\ d.note = k /\ d.rev = current[k]
           /\ decided' = (decided \ Decisions(k)) \cup {d}
    /\ UNCHANGED <<current, history, opened, now, holder, pc, job>>

Tick ==
    /\ now < MaxTime
    /\ now' = now + 1
    /\ UNCHANGED <<files, opened, calls, holder, pc, job>>

\* The process ends; a lock it leaves is recovered (LockFiles).
Crash(p) ==
    /\ pc[p] = "opening"
    /\ holder' = None
    /\ Quit(p)
    /\ UNCHANGED <<files, opened, now, calls>>

Next ==
    \/ \E p \in Proc :
           \/ Resurface(p) \/ EnterOpen(p) \/ RecordOpen(p)
           \/ Card(p) \/ Close(p) \/ Confirm(p) \/ Replace(p) \/ Crash(p)
    \/ \E k \in Notes : Draft(k) \/ Review(k)
    \/ Tick

Spec == Init /\ [][Next]_vars

-----------------------------------------------------------------------------
(* Properties *)

\* Nothing is shown again while something of the same standing has waited
\* longer, or was never opened at the revision it has now - through revisions
\* that come back, openings by two processes and processes killed while they
\* record one - until more revisions were opened than are remembered.
LongestUnseenFirst ==
    Cardinality({x \in DOMAIN opened : opened[x] # 0}) <= MaxEntries =>
        \A f \in Filters : LET list == Listed(f) IN
            \A i, j \in DOMAIN list :
                i < j /\ Rank(list[i]) = Rank(list[j]) =>
                    opened[<<list[i], current[list[i]]>>]
                        <= opened[<<list[j], current[list[j]]>>]

\* Choosing perspectives changes nothing else: what an agent drafted after the
\* card was shown is not undone.
Replacing == \E p \in Proc : pc[p] = "replace" /\ pc'[p] = "idle"
OnlyPerspectives ==
    Replacing => \A k \in Notes : current'[k].units = current[k].units
=============================================================================

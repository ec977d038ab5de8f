---------------------------- MODULE ReviewSessions ----------------------------
(***************************************************************************)
(* mko-core/src/review_session_v2.rs: decisions a program conveys.         *)
(*                                                                         *)
(* `mko review open` shows the card of an item to a program and writes a   *)
(* session beside it; `mko review feedback` conveys what the owner decided *)
(* about that card, which the session admits once and while nothing else   *)
(* about the item was decided. Sessions are opened without a lock; a       *)
(* decision is published under the mutation lock, and only then the        *)
(* session consumed. What the publication writes is in ReviewGraph.        *)
(***************************************************************************)
EXTENDS Naturals, FiniteSets

CONSTANTS Proc,
          Session,    \* the sessions ever opened
          MaxOpen,    \* open sessions kept
          MaxHead,    \* bound: decisions about the item
          MayCrash,   \* processes that may be killed
          None

VARIABLES
    head,       \* how many decisions there are about the item: its review head
    session,    \* session[s]: where the file of session s is, and whether it is whole
    stored,     \* stored[s]: what an open session says
    decided,    \* decided[s]: decisions published from session s
    holder,     \* who holds the repository mutation lock
    pc,
    job         \* job[p]: what p works on

vars == <<head, session, stored, decided, holder, pc, job>>

Stored == [head : 0 .. MaxHead, expired : BOOLEAN]
NoJob == [session |-> None, stored |-> None]

\* What is assumed of the constants.
SessionsAssumption == MaxHead \in Nat /\ None \notin Proc \cup Session \cup Stored

TypeOK ==
    /\ head \in 0 .. MaxHead
    /\ session \in [Session -> {"none", "partial", "open", "consumed"}]
    /\ stored \in [Session -> Stored \cup {None}]
    /\ decided \in [Session -> Nat]
    /\ holder \in Proc \cup {None}
    /\ pc \in [Proc -> {"idle", "shown", "filling", "deciding", "published"}]
    /\ job \in [Proc -> [session : Session \cup {None}, stored : Stored \cup {None}]]

Init ==
    /\ head = 0
    /\ session = [s \in Session |-> "none"]
    /\ stored = [s \in Session |-> None]
    /\ decided = [s \in Session |-> 0]
    /\ holder = None
    /\ pc = [p \in Proc |-> "idle"]
    /\ job = [p \in Proc |-> NoJob]

At(p, s) == pc[p] = s
Goto(p, s) == pc' = [pc EXCEPT ![p] = s]
End(p) ==
    /\ Goto(p, "idle")
    /\ job' = [job EXCEPT ![p] = NoJob]
    /\ holder' = IF holder = p THEN None ELSE holder

-----------------------------------------------------------------------------

\* enforce_open_session_bound counts every file, the expired ones too.
Room == Cardinality({s \in Session : session[s] \in {"partial", "open"}}) < MaxOpen

\* open_review_session_v2: the card, and then the bound.
Show(p, s) ==
    /\ At(p, "idle")
    /\ session[s] = "none" /\ \A q \in Proc : job[q].session # s
    /\ Room
    /\ job' = [job EXCEPT ![p] = [session |-> s, stored |-> [head |-> head, expired |-> FALSE]]]
    /\ Goto(p, "shown")
    /\ UNCHANGED <<head, session, stored, decided, holder>>

\* write_private_new: a new file, then its content.
Create(p) ==
    /\ At(p, "shown")
    /\ session' = [session EXCEPT ![job[p].session] = "partial"]
    /\ Goto(p, "filling")
    /\ UNCHANGED <<head, stored, decided, holder, job>>

Fill(p) ==
    /\ At(p, "filling")
    /\ session' = [session EXCEPT ![job[p].session] = "open"]
    /\ stored' = [stored EXCEPT ![job[p].session] = job[p].stored]
    /\ End(p)
    /\ UNCHANGED <<head, decided>>

\* A session that can be read, has not been used and has not expired.
Usable(s) == session[s] = "open" /\ ~stored[s].expired

\* Mutant of Decide: the session is single-use, why compare the cards.
DecideUnseen(p, s) ==
    /\ At(p, "idle")
    /\ holder = None /\ holder' = p
    /\ Usable(s)
    /\ job' = [job EXCEPT ![p] = [session |-> s, stored |-> stored[s]]]
    /\ Goto(p, "deciding")
    /\ UNCHANGED <<head, session, stored, decided>>

\* apply_review_session_decision_v2, up to the publication.
Decide(p, s) ==
    /\ At(p, "idle")
    /\ holder = None /\ holder' = p
    /\ Usable(s)
    /\ stored[s].head = head
    /\ job' = [job EXCEPT ![p] = [session |-> s, stored |-> stored[s]]]
    /\ Goto(p, "deciding")
    /\ UNCHANGED <<head, session, stored, decided>>

Publish(p) ==
    /\ At(p, "deciding")
    /\ head < MaxHead /\ head' = head + 1
    /\ decided' = [decided EXCEPT ![job[p].session] = @ + 1]
    /\ Goto(p, "published")
    /\ UNCHANGED <<session, stored, holder, job>>

\* consume_session: a rename.
Consume(p) ==
    /\ At(p, "published")
    /\ session' = [session EXCEPT ![job[p].session] = "consumed"]
    /\ stored' = [stored EXCEPT ![job[p].session] = None]
    /\ End(p)
    /\ UNCHANGED <<head, decided>>

\* An error before or after the publication, or the process is killed.
Fail(p) ==
    /\ ~At(p, "idle")
    /\ p \in MayCrash
    /\ End(p)
    /\ UNCHANGED <<head, session, stored, decided>>

\* Somebody decides at a terminal, or writes a new revision.
Otherwise ==
    /\ holder = None
    /\ head < MaxHead /\ head' = head + 1
    /\ UNCHANGED <<session, stored, decided, holder, pc, job>>

Expire(s) ==
    /\ session[s] = "open"
    /\ stored' = [stored EXCEPT ![s].expired = TRUE]
    /\ UNCHANGED <<head, session, decided, holder, pc, job>>

Next ==
    \/ \E p \in Proc, s \in Session : Show(p, s) \/ Decide(p, s)
    \/ \E p \in Proc : Create(p) \/ Fill(p) \/ Publish(p) \/ Consume(p) \/ Fail(p)
    \/ \E s \in Session : Expire(s)
    \/ Otherwise

Spec == Init /\ [][Next]_vars

-----------------------------------------------------------------------------
(* Properties *)

\* Though a session is consumed only after its decision is published, and both
\* may be interrupted or fail in between, it decides once, about the card that
\* was shown.
FirstDecision ==
    \A s \in Session : decided'[s] # decided[s] =>
        decided[s] = 0 /\ stored[s] # None /\ stored[s].head = head
DecidesOnce == [][FirstDecision]_vars
=============================================================================
